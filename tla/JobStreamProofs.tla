--------------------------- MODULE JobStreamProofs ---------------------------
(***************************************************************************)
(* Proofs about JobStream, for any number of turns and every set of        *)
(* faults.                                                                 *)
(***************************************************************************)
EXTENDS JobStream, TLAPS

-----------------------------------------------------------------------------
(* The inductive invariants *)

Event == [turn : Turns, kind : {"status", "stage", "delta"} \union TerminalKind]

\* The order in which the events of one turn are emitted.
Rank(e) == IF e.kind = "status" THEN 1
           ELSE IF e.kind = "stage" THEN 2
           ELSE IF e.kind = "delta" THEN 3 ELSE 4

\* No two events of one turn are out of that order, or alike.
Ordered(s) == \A i, k \in DOMAIN s : i < k /\ s[i].turn = s[k].turn => Rank(s[i]) < Rank(s[k])

InLog(e) == \E i \in DOMAIN log : log[i] = e

EndEvent(t) == [turn |-> t, kind |-> KindOf(outcome[t])]

\* The rank of the last event of turn t that may be in the log, and of the
\* last one that may have been published.
Written(t) ==
    IF stage[t] = "idle" THEN 0
    ELSE IF stage[t] = "insert" THEN 1
    ELSE IF task[t] \in {"persist", "delta_insert"} THEN 2
    ELSE IF task[t] \in {"delta_publish", "end_insert"} THEN 3 ELSE 4

Published(t) ==
    IF stage[t] # "done" THEN 1
    ELSE IF task[t] \in {"persist", "delta_insert", "delta_publish"} THEN 2
    ELSE IF task[t] \in {"end_insert", "end_publish"} THEN 3 ELSE 4

PipelineSteps == {"idle", "persist", "delta_insert", "delta_publish", "end_insert", "end_publish",
                  "end_live", "done"}

Typed ==
    /\ redis \in BOOLEAN
    /\ faults \subseteq Faults
    /\ archived \in BOOLEAN
    /\ status \in TerminalStatus \union {"queued"}
    /\ turn \in Turns
    /\ stage \in [Turns -> {"idle", "insert", "publish", "done"}]
    /\ task \in [Turns -> PipelineSteps]
    /\ outcome \in [Turns -> TerminalStatus]
    /\ liveState \in TerminalStatus \union {"none"}
    /\ handler \in {"closed", "subscribe", "check", "live", "poll", "replay"}
    /\ log \in Seq(Event) /\ channel \in Seq(Event) /\ sent \in Seq(Event)
    /\ opened \in [turn : 0..MaxTurns, at : PipelineSteps]

\* The turns run one after another up to their outcome; what follows it may
\* overlap with the next turn.  The forwarder is joined before the delta.
TurnInv(t) ==
    /\ t > turn => task[t] = "idle" /\ stage[t] = "idle"
    /\ t <= turn => task[t] # "idle" /\ stage[t] # "idle"
    /\ t < turn => task[t] # "persist"
    /\ task[t] \notin {"idle", "persist", "delta_insert"} => stage[t] = "done"

TurnsInv ==
    /\ \A t \in Turns : TurnInv(t)
    /\ status = "queued" => task[turn] = "persist"
    /\ task[turn] = "persist" => status \in {"queued", "failed"}

\* What is about to be published is in the log.
Durable(t) ==
    /\ stage[t] = "publish" => InLog(StageEvent(t))
    /\ task[t] = "delta_publish" => InLog([turn |-> t, kind |-> "delta"])
    /\ task[t] \in {"end_publish", "end_live"} => InLog(EndEvent(t))
    /\ task[t] = "done" /\ "insert" \notin faults => InLog(EndEvent(t))

LogInv ==
    /\ Ordered(log)
    /\ \A i \in DOMAIN log : Rank(log[i]) <= Written(log[i].turn)
    /\ \A t \in Turns : Durable(t)

\* What a live stream has sent, followed by what its subscription still
\* holds, is in order and not ahead of what was published; a polled stream
\* has sent a prefix of the log.
LiveInv ==
    /\ Ordered(channel)
    /\ \A k \in DOMAIN channel :
          /\ InLog(channel[k])
          /\ Rank(channel[k]) <= Published(channel[k].turn)
          /\ \A i \in DOMAIN sent : sent[i].turn = channel[k].turn => Rank(sent[i]) < Rank(channel[k])
    /\ \A i \in DOMAIN sent : Rank(sent[i]) <= Published(sent[i].turn)

StreamInv ==
    /\ opened.turn <= turn
    /\ handler # "closed" => opened.turn # 0
    /\ handler \in {"subscribe", "check", "live"} => redis
    /\ handler \in {"subscribe", "check", "replay"} => sent = <<>>
    /\ handler = "subscribe" => channel = <<>>
    /\ Ordered(sent) /\ \A i \in DOMAIN sent : InLog(sent[i])
    /\ handler \in {"check", "live"} => LiveInv
    /\ handler = "poll" => \A i \in DOMAIN sent : i \in DOMAIN log /\ sent[i] = log[i]

\* When nothing fails, a turn that ended while the handler was subscribing
\* has left its live_state, and the end of a turn that had not published it
\* when the handler looked is on its way.
Coming == task[opened.turn] \in {"persist", "delta_insert", "delta_publish", "end_insert", "end_publish"}
Waiting == \E k \in DOMAIN channel : channel[k].kind \in TerminalKind

WindowInv ==
    faults \subseteq {"archive"} =>
        /\ handler \in {"subscribe", "check"} /\ task[opened.turn] = "done"
              => liveState \in TerminalStatus
        /\ handler = "live" => opened.at = "end_live" \/ Coming \/ Waiting

StreamIInv == Typed /\ TurnsInv /\ LogInv /\ StreamInv /\ WindowInv

-----------------------------------------------------------------------------
(* The operators *)

\* The statements of the pipeline follow one another as listed.
LEMMA FollowingIs ==
    /\ Following("persist") = "delta_insert"
    /\ Following("delta_insert") = "delta_publish"
    /\ Following("delta_publish") = "end_insert"
    /\ Following("end_insert") = "end_publish"
    /\ Following("end_publish") = "end_live"
    /\ Following("end_live") = "done"
<1>1. /\ DOMAIN Statements = 1..7
      /\ Statements[1] = "persist" /\ Statements[2] = "delta_insert"
      /\ Statements[3] = "delta_publish" /\ Statements[4] = "end_insert"
      /\ Statements[5] = "end_publish" /\ Statements[6] = "end_live" /\ Statements[7] = "done"
  BY DEF Statements
<1>2. \A n \in 1..7 : \A i \in 1..7 : Statements[i] = Statements[n] => i = n
  BY <1>1
<1>3. ASSUME NEW n \in 1..7 PROVE Position(Statements[n]) = n
  BY <1>1, <1>2 DEF Position
<1>4. \A n \in 1..6 : Following(Statements[n]) = Statements[n + 1]
  BY <1>3 DEF Following
<1> QED BY <1>1, <1>4

\* The end of a turn is a terminal event.
LEMMA EndKind ==
    ASSUME NEW o \in TerminalStatus
    PROVE  KindOf(o) \in TerminalKind /\ (KindOf(o) \notin {"status", "stage", "delta"})
  BY DEF KindOf, TerminalStatus, TerminalKind

\* Ranks are 1 to 4, and the terminal events come last.
LEMMA RankIs ==
    ASSUME NEW e \in Event
    PROVE  Rank(e) \in 1..4 /\ (e.kind \in TerminalKind => Rank(e) = 4)
  BY DEF Event, Rank, TerminalKind

\* An event that ranks above all of its turn keeps a sequence in order.
LEMMA AppendOrdered ==
    ASSUME NEW s \in Seq(Event), NEW e \in Event, Ordered(s),
           \A i \in DOMAIN s : s[i].turn = e.turn => Rank(s[i]) < Rank(e)
    PROVE  Append(s, e) \in Seq(Event) /\ Ordered(Append(s, e))
<1>1. /\ Append(s, e) \in Seq(Event) /\ DOMAIN Append(s, e) = 1..(Len(s) + 1)
      /\ DOMAIN s = 1..Len(s) /\ Len(s) \in Nat
      /\ \A i \in DOMAIN s : Append(s, e)[i] = s[i]
      /\ Append(s, e)[Len(s) + 1] = e
  OBVIOUS
<1>2. ASSUME NEW i \in DOMAIN Append(s, e), NEW k \in DOMAIN Append(s, e), i < k,
             Append(s, e)[i].turn = Append(s, e)[k].turn
      PROVE  Rank(Append(s, e)[i]) < Rank(Append(s, e)[k])
  <2>1. i \in DOMAIN s /\ Append(s, e)[i] = s[i]
    BY <1>1, <1>2
  <2>2. CASE k \in DOMAIN s
    BY <1>1, <1>2, <2>1, <2>2 DEF Ordered
  <2>3. CASE k = Len(s) + 1
    BY <1>1, <1>2, <2>1, <2>3
  <2> QED BY <1>1, <2>2, <2>3
<1> QED BY <1>1, <1>2 DEF Ordered

\* The rest of a sequence in order is in order.
LEMMA TailOrdered ==
    ASSUME NEW s \in Seq(Event), Ordered(s), s # <<>>
    PROVE  /\ Tail(s) \in Seq(Event) /\ Ordered(Tail(s)) /\ Head(s) \in Event
           /\ \A i \in DOMAIN Tail(s) : /\ i + 1 \in DOMAIN s /\ 1 < i + 1 /\ Tail(s)[i] = s[i + 1]
                                        /\ s[1].turn = Tail(s)[i].turn => Rank(s[1]) < Rank(Tail(s)[i])
           /\ 1 \in DOMAIN s /\ Head(s) = s[1]
           /\ \A k \in DOMAIN s : k # 1 => k - 1 \in DOMAIN Tail(s) /\ Tail(s)[k - 1] = s[k]
<1>1. /\ Tail(s) \in Seq(Event) /\ Len(s) \in Nat /\ Len(s) # 0 /\ DOMAIN s = 1..Len(s)
      /\ DOMAIN Tail(s) = 1..(Len(s) - 1) /\ Head(s) = s[1] /\ s[1] \in Event
      /\ \A i \in 1..(Len(s) - 1) : Tail(s)[i] = s[i + 1]
  OBVIOUS
<1>2. \A i \in DOMAIN Tail(s) : /\ i \in Nat /\ i + 1 \in DOMAIN s /\ 1 < i + 1
                                /\ Tail(s)[i] = s[i + 1]
  BY <1>1
<1>3. 1 \in DOMAIN s
  BY <1>1
<1>4. Ordered(Tail(s))
  <2>1. ASSUME NEW i \in DOMAIN Tail(s), NEW k \in DOMAIN Tail(s), i < k,
               Tail(s)[i].turn = Tail(s)[k].turn
        PROVE  Rank(Tail(s)[i]) < Rank(Tail(s)[k])
    <3>1. i + 1 < k + 1
      BY <1>2, <2>1
    <3> QED BY <1>2, <2>1, <3>1 DEF Ordered
  <2> QED BY <2>1 DEF Ordered
<1>5. \A i \in DOMAIN Tail(s) : s[1].turn = Tail(s)[i].turn => Rank(s[1]) < Rank(Tail(s)[i])
  BY <1>2, <1>3 DEF Ordered
<1>6. \A k \in DOMAIN s : k # 1 => k - 1 \in DOMAIN Tail(s) /\ Tail(s)[k - 1] = s[k]
  BY <1>1
<1> QED BY <1>1, <1>2, <1>3, <1>4, <1>5, <1>6

-----------------------------------------------------------------------------
(* Types and turns *)

\* The events the steps emit are events.
LEMMA Emitted ==
    ASSUME outcome \in [Turns -> TerminalStatus], NEW t \in Turns
    PROVE  /\ StageEvent(t) \in Event /\ StageEvent(t).turn = t /\ Rank(StageEvent(t)) = 2
           /\ [turn |-> t, kind |-> "status"] \in Event
           /\ [turn |-> t, kind |-> "delta"] \in Event
           /\ EndEvent(t) \in Event
           /\ EndEvent(t).turn = t /\ EndEvent(t).kind \in TerminalKind /\ Rank(EndEvent(t)) = 4
           /\ \A s \in {"delta_insert", "delta_publish"} :
                EventAt(s, t) = [turn |-> t, kind |-> "delta"] /\ Rank(EventAt(s, t)) = 3
           /\ \A s \in {"end_insert", "end_publish"} : EventAt(s, t) = EndEvent(t)
<1>1. outcome[t] \in TerminalStatus
  OBVIOUS
<1>2. KindOf(outcome[t]) \in TerminalKind /\ (KindOf(outcome[t]) \notin {"status", "stage", "delta"})
  BY <1>1, EndKind
<1> QED BY <1>2 DEF StageEvent, EndEvent, EventAt, Event, Rank, TerminalKind

\* The types are inductive.
LEMMA NextTyped == Typed /\ StreamInv /\ [Next]_vars => Typed'
<1> SUFFICES ASSUME Typed, StreamInv, [Next]_vars PROVE Typed'
  OBVIOUS
<1>e. \A t \in Turns : /\ StageEvent(t) \in Event /\ [turn |-> t, kind |-> "status"] \in Event
                       /\ \A s \in {"delta_insert", "delta_publish", "end_insert", "end_publish"} :
                            EventAt(s, t) \in Event
  <2> SUFFICES ASSUME NEW t \in Turns
               PROVE  /\ StageEvent(t) \in Event /\ [turn |-> t, kind |-> "status"] \in Event
                      /\ \A s \in {"delta_insert", "delta_publish", "end_insert", "end_publish"} :
                            EventAt(s, t) \in Event
    OBVIOUS
  <2>1. outcome \in [Turns -> TerminalStatus]
    BY DEF Typed
  <2>2. StageEvent(t) \in Event /\ [turn |-> t, kind |-> "status"] \in Event
    BY <2>1, Emitted
  <2>3. \A s \in {"delta_insert", "delta_publish"} : EventAt(s, t) \in Event
    BY <2>1, Emitted
  <2>4. \A s \in {"end_insert", "end_publish"} : EventAt(s, t) \in Event
    BY <2>1, Emitted
  <2> QED BY <2>2, <2>3, <2>4
<1>d. \A e \in Event : Delivered(e) \in Seq(Event)
  BY DEF Typed, Delivered
<1>0. CASE UNCHANGED vars
  BY <1>0 DEF Typed, vars
<1>1. ASSUME NEW t \in Turns, InsertStage(t) \/ PublishStage(t) PROVE Typed'
  <2>1. CASE InsertStage(t)
    <3>1. StageEvent(t) \in Event
      BY <1>e
    <3>2. \A e \in Event : Append(log, e) \in Seq(Event)
      BY DEF Typed
    <3>3. log' \in Seq(Event)
      BY <2>1, <3>1, <3>2 DEF InsertStage
    <3> QED BY <2>1, <3>3 DEF Typed, InsertStage
  <2>2. CASE PublishStage(t)
    BY <2>2, <1>d, <1>e DEF Typed, PublishStage
  <2> QED BY <1>1, <2>1, <2>2
<1>2. ASSUME NEW t \in Turns, PersistOutcome(t) PROVE Typed'
  BY <1>2, FollowingIs DEF Typed, PersistOutcome, PipelineSteps
<1>3. ASSUME NEW t \in Turns, InsertEvent(t) PROVE Typed'
  <2>1. task' \in [Turns -> PipelineSteps]
    BY <1>3, FollowingIs DEF Typed, InsertEvent, PipelineSteps
  <2>2. log' \in Seq(Event)
    <3>1. EventAt(task[t], t) \in Event
      BY <1>3, <1>e DEF InsertEvent
    <3>2. \A e \in Event : Append(log, e) \in Seq(Event)
      BY DEF Typed
    <3> QED BY <1>3, <3>1, <3>2 DEF InsertEvent
  <2> QED BY <1>3, <2>1, <2>2 DEF Typed, InsertEvent
<1>4. ASSUME NEW t \in Turns, Publish(t) PROVE Typed'
  <2>1. task' \in [Turns -> PipelineSteps]
    BY <1>4, FollowingIs DEF Typed, Publish, PipelineSteps
  <2>2. channel' \in Seq(Event)
    BY <1>4, <1>d, <1>e DEF Publish
  <2> QED BY <1>4, <2>1, <2>2 DEF Typed, Publish
<1>5. ASSUME NEW t \in Turns, SetLiveState(t) PROVE Typed'
  BY <1>5, FollowingIs DEF Typed, SetLiveState, PipelineSteps
<1>6. ASSUME NEW t \in Turns, StageInsertError(t) \/ DeltaInsertError(t) PROVE Typed'
  BY <1>6 DEF Typed, StageInsertError, DeltaInsertError, PipelineSteps
<1>7. ASSUME NEW t \in Turns, TerminalInsertError(t) \/ TerminalEventLost(t) PROVE Typed'
  BY <1>7 DEF Typed, TerminalInsertError, TerminalEventLost, PipelineSteps, TerminalStatus
<1>8. ASSUME NEW t \in Turns, StageRedisError(t) PROVE Typed'
  BY <1>8 DEF Typed, StageRedisError
<1>9. ASSUME NEW t \in Turns, RedisError(t) PROVE Typed'
  BY <1>9, FollowingIs DEF Typed, RedisError, PipelineSteps
<1>10. CASE Subscribe \/ SubscribeError \/ SubscriptionLost \/ ExpireLiveState \/ ArchiveSession
  BY <1>10 DEF Typed, Subscribe, SubscribeError, SubscriptionLost, ExpireLiveState, ArchiveSession
<1>16. CASE Replay
  <2>1. Readable \in Seq(Event)
    BY DEF Typed, Readable
  <2> QED BY <1>16, <2>1 DEF Typed, Replay
<1>11. CASE RecheckLiveState \/ RecheckError
  <2>1. opened' = [opened EXCEPT !.at = task[opened.turn]]
    BY <1>11 DEF RecheckLiveState, RecheckError
  <2>2. opened.turn \in Turns
    BY <1>11, JobStreamAssumption DEF Typed, StreamInv, RecheckLiveState, RecheckError, Turns
  <2>3. opened' \in [turn : 0..MaxTurns, at : PipelineSteps]
    BY <2>1, <2>2 DEF Typed
  <2> QED BY <1>11, <2>3 DEF Typed, RecheckLiveState, RecheckError
<1>12. CASE Forward
  <2>1. Head(channel) \in Event /\ Tail(channel) \in Seq(Event)
    BY <1>12 DEF Typed, Forward
  <2> QED BY <1>12, <2>1 DEF Typed, Forward
<1>13. CASE Poll
  <2>1. Readable[Len(sent) + 1] \in Event
    BY <1>13 DEF Typed, Poll, Readable
  <2> QED BY <1>13, <2>1 DEF Typed, Poll
<1>14. CASE Open
  BY <1>14 DEF Typed, Open, Turns
<1>15. CASE Respond
  <2>1. turn + 1 \in Turns
    BY <1>15, JobStreamAssumption DEF Typed, Respond, Turns
  <2> QED BY <1>15, <2>1, <1>e DEF Typed, Respond, PipelineSteps
<1> QED
  BY <1>0, <1>1, <1>2, <1>3, <1>4, <1>5, <1>6, <1>7, <1>8, <1>9, <1>10, <1>11, <1>12, <1>13,
     <1>14, <1>15, <1>16 DEF Next, ForwarderStep, PipelineStep, TaskFault, HandlerStep

\* The turns stay in step.
LEMMA NextTurnsInv == Typed /\ TurnsInv /\ [Next]_vars => TurnsInv'
<1> SUFFICES ASSUME Typed, TurnsInv, [Next]_vars PROVE TurnsInv'
  OBVIOUS
<1>n. turn \in Int /\ \A t \in Turns : t \in Int
  BY DEF Typed, Turns
<1>0. CASE UNCHANGED <<turn, stage, task, status>>
  BY <1>0 DEF TurnsInv, TurnInv
\* The forwarder moves on.
<1>1. ASSUME NEW t \in Turns, stage[t] \in {"insert", "publish"},
             NEW to \in {"publish", "done"}, stage' = [stage EXCEPT ![t] = to],
             UNCHANGED <<turn, task, status>>
      PROVE  TurnsInv'
  <2>1. /\ stage'[t] = to /\ \A u \in Turns \ {t} : stage'[u] = stage[u]
    BY <1>1 DEF Typed
  <2>2. TurnInv(t) /\ to # "idle"
    BY DEF TurnsInv
  <2>3. ASSUME NEW u \in Turns PROVE TurnInv(u)'
    BY <1>1, <1>n, <2>1, <2>2 DEF TurnsInv, TurnInv
  <2> QED BY <1>1, <2>3 DEF TurnsInv
\* The pipeline moves on.
<1>2. ASSUME NEW t \in Turns, task[t] # "idle", NEW to, to \notin {"idle", "persist"},
             task' = [task EXCEPT ![t] = to],
             to # "delta_insert" => stage[t] = "done",
             UNCHANGED <<turn, stage>>,
             status' = status, task[t] # "persist"
      PROVE  TurnsInv'
  <2>1. /\ task'[t] = to /\ \A u \in Turns \ {t} : task'[u] = task[u]
    BY <1>2 DEF Typed
  <2>2. ASSUME NEW u \in Turns PROVE TurnInv(u)'
    BY <1>2, <1>n, <2>1 DEF TurnsInv, TurnInv
  <2>3. task'[turn'] = "persist" <=> task[turn] = "persist"
    BY <1>2, <2>1 DEF Typed
  <2> QED BY <1>2, <2>2, <2>3 DEF TurnsInv
<1>d. \A t \in Turns : task[t] \notin {"idle", "persist", "delta_insert"} => stage[t] = "done"
  BY DEF TurnsInv, TurnInv
<1>3. ASSUME NEW t \in Turns, ForwarderStep(t) \/ StageInsertError(t) \/ StageRedisError(t)
      PROVE  TurnsInv'
  <2>1. PICK to \in {"publish", "done"} : stage' = [stage EXCEPT ![t] = to]
    BY <1>3 DEF ForwarderStep, InsertStage, PublishStage, StageInsertError, StageRedisError
  <2>2. stage[t] \in {"insert", "publish"} /\ UNCHANGED <<turn, task, status>>
    BY <1>3 DEF ForwarderStep, InsertStage, PublishStage, StageInsertError, StageRedisError
  <2> QED BY <1>1, <2>1, <2>2
<1>4. ASSUME NEW t \in Turns, PersistOutcome(t) PROVE TurnsInv'
  <2>1. /\ task' = [task EXCEPT ![t] = "delta_insert"] /\ task[t] = "persist"
        /\ UNCHANGED <<turn, stage>> /\ status' = outcome[t]
    BY <1>4, FollowingIs DEF PersistOutcome
  <2>2. status' # "queued"
    BY <2>1 DEF Typed, TerminalStatus
  <2>3. task'[t] = "delta_insert" /\ \A u \in Turns \ {t} : task'[u] = task[u]
    BY <2>1 DEF Typed
  <2>4. ASSUME NEW u \in Turns PROVE TurnInv(u)'
    BY <1>n, <2>1, <2>3 DEF TurnsInv, TurnInv
  <2>5. t = turn
    BY <1>n, <2>1 DEF TurnsInv, TurnInv
  <2>6. task'[turn'] # "persist"
    BY <2>1, <2>3, <2>5
  <2> QED BY <2>2, <2>4, <2>6 DEF TurnsInv
<1>5. ASSUME NEW t \in Turns,
             InsertEvent(t) \/ Publish(t) \/ SetLiveState(t) \/ DeltaInsertError(t)
                \/ TerminalEventLost(t) \/ RedisError(t)
      PROVE  TurnsInv'
  <2>1. PICK to \in {"delta_publish", "end_insert", "end_publish", "end_live", "done"} :
           task' = [task EXCEPT ![t] = to]
    BY <1>5, FollowingIs
       DEF InsertEvent, Publish, SetLiveState, DeltaInsertError, TerminalEventLost, RedisError
  <2>2. /\ task[t] \notin {"idle", "persist"} /\ UNCHANGED <<turn, stage, status>>
        /\ task[t] = "delta_insert" => stage[t] = "done"
    BY <1>5
       DEF InsertEvent, Publish, SetLiveState, DeltaInsertError, TerminalEventLost, RedisError
  <2> QED BY <1>2, <1>d, <2>1, <2>2
<1>6. ASSUME NEW t \in Turns, TerminalInsertError(t) PROVE TurnsInv'
  BY <1>6 DEF TurnsInv, TurnInv, TerminalInsertError
<1>7. CASE Respond
  <2>1. /\ turn + 1 \in Turns /\ turn' = turn + 1 /\ status = "waiting_for_user_input"
        /\ stage' = [stage EXCEPT ![turn + 1] = "insert"]
        /\ task' = [task EXCEPT ![turn + 1] = "persist"]
    BY <1>7, JobStreamAssumption DEF Typed, Respond, Turns
  <2>2. ASSUME NEW u \in Turns PROVE TurnInv(u)'
    <3>1. CASE u = turn + 1
      BY <1>n, <2>1, <3>1 DEF Typed, TurnInv
    <3>2. CASE u # turn + 1 /\ u # turn
      <4>1. task'[u] = task[u] /\ stage'[u] = stage[u]
        BY <2>1, <3>2 DEF Typed
      <4>2. (u > turn' <=> u > turn) /\ (u <= turn' <=> u <= turn) /\ (u < turn' => u < turn)
        BY <1>n, <2>1, <3>2
      <4> QED BY <4>1, <4>2 DEF TurnsInv, TurnInv
    <3>3. CASE u = turn
      <4>1. task'[u] = task[u] /\ stage'[u] = stage[u] /\ u <= turn /\ ~(u > turn')
        BY <1>n, <2>1, <3>3 DEF Typed
      <4>2. task[u] # "persist"
        BY <2>1, <3>3 DEF TurnsInv
      <4> QED BY <4>1, <4>2 DEF TurnsInv, TurnInv
    <3> QED BY <3>1, <3>2, <3>3
  <2>3. task'[turn'] = "persist" /\ status' = "queued"
    BY <1>7, <2>1 DEF Typed, Respond
  <2> QED BY <2>2, <2>3 DEF TurnsInv
<1>8. CASE \/ Subscribe \/ RecheckLiveState \/ Replay \/ Forward \/ Poll \/ SubscribeError
           \/ RecheckError \/ SubscriptionLost \/ ExpireLiveState \/ ArchiveSession \/ Open
           \/ UNCHANGED vars
  BY <1>0, <1>8 DEF Subscribe, RecheckLiveState, Replay, Forward, Poll, SubscribeError,
     RecheckError, SubscriptionLost, ExpireLiveState, ArchiveSession, Open, vars
<1> QED
  BY <1>3, <1>4, <1>5, <1>6, <1>7, <1>8 DEF Next, PipelineStep, TaskFault, HandlerStep

\* How the two program counters of a turn move.
Moves(t) ==
    \/ stage'[t] = stage[t] /\ task'[t] = task[t]
    \/ stage[t] = "idle"
    \/ task'[t] = task[t] /\ stage[t] = "insert" /\ stage'[t] \in {"publish", "done"}
    \/ task'[t] = task[t] /\ stage[t] = "publish" /\ stage'[t] = "done"
    \/ stage'[t] = stage[t] /\ task[t] = "persist" /\ task'[t] = "delta_insert"
    \/ /\ stage'[t] = stage[t] /\ stage[t] = "done"
       /\ \/ task[t] = "delta_insert" /\ task'[t] \in {"delta_publish", "end_insert"}
          \/ task[t] = "delta_publish" /\ task'[t] = "end_insert"
          \/ task[t] = "end_insert" /\ task'[t] \in {"end_publish", "done"}
          \/ task[t] = "end_publish" /\ task'[t] = "end_live"
          \/ task[t] = "end_live" /\ task'[t] = "done"

\* The program counters move forward only.
LEMMA NextMoves == Typed /\ TurnsInv /\ [Next]_vars => \A t \in Turns : Moves(t)
<1> SUFFICES ASSUME Typed, TurnsInv, [Next]_vars, NEW u \in Turns PROVE Moves(u)
  OBVIOUS
<1>d. \A t \in Turns : task[t] \notin {"idle", "persist", "delta_insert"} => stage[t] = "done"
  BY DEF TurnsInv, TurnInv
<1>s. ASSUME NEW t \in Turns, NEW to, stage' = [stage EXCEPT ![t] = to], task' = task
      PROVE  stage'[t] = to /\ (t # u => stage'[u] = stage[u]) /\ task'[u] = task[u]
  BY <1>s DEF Typed
<1>t. ASSUME NEW t \in Turns, NEW to, task' = [task EXCEPT ![t] = to], stage' = stage
      PROVE  task'[t] = to /\ (t # u => task'[u] = task[u]) /\ stage'[u] = stage[u]
  BY <1>t DEF Typed
<1>1. ASSUME NEW t \in Turns, ForwarderStep(t) \/ StageInsertError(t) \/ StageRedisError(t)
      PROVE  Moves(u)
  <2>1. PICK to \in {"publish", "done"} :
           /\ stage' = [stage EXCEPT ![t] = to]
           /\ stage[t] = "insert" \/ (stage[t] = "publish" /\ to = "done")
    BY <1>1 DEF ForwarderStep, InsertStage, PublishStage, StageInsertError, StageRedisError
  <2>2. task' = task
    BY <1>1 DEF ForwarderStep, InsertStage, PublishStage, StageInsertError, StageRedisError
  <2> QED BY <1>s, <2>1, <2>2 DEF Moves
<1>2. ASSUME NEW t \in Turns, PersistOutcome(t) PROVE Moves(u)
  <2>1. task' = [task EXCEPT ![t] = "delta_insert"] /\ task[t] = "persist" /\ stage' = stage
    BY <1>2, FollowingIs DEF PersistOutcome
  <2> QED BY <1>t, <2>1 DEF Moves
<1>3. ASSUME NEW t \in Turns,
             InsertEvent(t) \/ Publish(t) \/ SetLiveState(t) \/ DeltaInsertError(t)
                \/ TerminalEventLost(t) \/ RedisError(t)
      PROVE  Moves(u)
  <2>1. PICK to \in {"delta_publish", "end_insert", "end_publish", "end_live", "done"} :
           /\ task' = [task EXCEPT ![t] = to]
           /\ \/ task[t] = "delta_insert" /\ to \in {"delta_publish", "end_insert"}
              \/ task[t] = "delta_publish" /\ to = "end_insert"
              \/ task[t] = "end_insert" /\ to \in {"end_publish", "done"}
              \/ task[t] = "end_publish" /\ to = "end_live"
              \/ task[t] = "end_live" /\ to = "done"
    BY <1>3, FollowingIs
       DEF InsertEvent, Publish, SetLiveState, DeltaInsertError, TerminalEventLost, RedisError
  <2>2. stage' = stage /\ (task[t] = "delta_insert" => stage[t] = "done")
    BY <1>3
       DEF InsertEvent, Publish, SetLiveState, DeltaInsertError, TerminalEventLost, RedisError
  <2>3. stage[t] = "done"
    BY <1>d, <2>1, <2>2
  <2> QED BY <1>t, <2>1, <2>2, <2>3 DEF Moves
<1>4. CASE Respond
  <2>1. /\ turn + 1 \in Turns /\ turn \in Int
        /\ stage' = [stage EXCEPT ![turn + 1] = "insert"]
        /\ task' = [task EXCEPT ![turn + 1] = "persist"]
    BY <1>4, JobStreamAssumption DEF Typed, Respond, Turns
  <2>2. stage[turn + 1] = "idle"
    BY <2>1 DEF TurnsInv, TurnInv
  <2>3. u # turn + 1 => stage'[u] = stage[u] /\ task'[u] = task[u]
    BY <2>1 DEF Typed
  <2> QED BY <2>2, <2>3 DEF Moves
<1>5. CASE \/ Subscribe \/ RecheckLiveState \/ Replay \/ Forward \/ Poll \/ SubscribeError
           \/ RecheckError \/ SubscriptionLost \/ ExpireLiveState \/ ArchiveSession \/ Open
           \/ UNCHANGED vars
           \/ \E t \in Turns : TerminalInsertError(t)
  BY <1>5 DEF Subscribe, RecheckLiveState, Replay, Forward, Poll, SubscribeError, RecheckError,
     SubscriptionLost, ExpireLiveState, ArchiveSession, Open, TerminalInsertError, vars, Moves
<1> QED
  BY <1>1, <1>2, <1>3, <1>4, <1>5 DEF Next, PipelineStep, TaskFault, HandlerStep

\* What a turn may have written and published never shrinks.
LEMMA MovesForward ==
    ASSUME Typed, Typed', TurnsInv, NEW t \in Turns, Moves(t)
    PROVE  /\ Written(t) \in 0..4 /\ Written(t)' \in 0..4 /\ Written(t) <= Written(t)'
           /\ Published(t) \in 1..4 /\ Published(t)' \in 1..4 /\ Published(t) <= Published(t)'
<1>1. /\ stage'[t] \in {"idle", "insert", "publish", "done"} /\ task'[t] \in PipelineSteps
      /\ stage[t] \in {"idle", "insert", "publish", "done"} /\ task[t] \in PipelineSteps
  BY DEF Typed
<1>2. /\ Written(t) \in 0..4 /\ Written(t)' \in 0..4
      /\ Published(t) \in 1..4 /\ Published(t)' \in 1..4
  BY DEF Written, Published
<1>3. Written(t) <= Written(t)'
  BY <1>1 DEF Moves, Written, PipelineSteps
<1>4. Published(t) <= Published(t)'
  BY <1>1 DEF Moves, Published, PipelineSteps
<1> QED BY <1>2, <1>3, <1>4

-----------------------------------------------------------------------------
(* The log *)

\* Every event goes into the log in the order of its turn.
LEMMA NextLogInv ==
    Typed /\ Typed' /\ TurnsInv /\ LogInv /\ [Next]_vars => LogInv'
<1> SUFFICES ASSUME Typed, Typed', TurnsInv, LogInv, [Next]_vars PROVE LogInv'
  OBVIOUS
<1>w. \A t \in Turns : /\ Written(t) \in 0..4 /\ Written(t)' \in 0..4
                       /\ Written(t) <= Written(t)'
  BY NextMoves, MovesForward
<1>l. \A i \in DOMAIN log : /\ log[i] \in Event /\ log[i].turn \in Turns /\ Rank(log[i]) \in 1..4
                            /\ Rank(log[i]) <= Written(log[i].turn)
  <2>1. \A i \in DOMAIN log : log[i] \in Event
    BY DEF Typed
  <2>2. \A e \in Event : e.turn \in Turns /\ Rank(e) \in 1..4
    BY RankIs DEF Event
  <2> QED BY <2>1, <2>2 DEF LogInv
\* The log stands still.
<1>k. ASSUME log' = log, outcome' = outcome, faults' = faults,
             \A t \in Turns :
                /\ stage'[t] = "publish" => stage[t] = "publish"
                /\ task'[t] = "delta_publish" => task[t] = "delta_publish"
                /\ task'[t] \in {"end_publish", "end_live"} => task[t] \in {"end_publish", "end_live"}
                /\ task'[t] = "done" => task[t] \in {"end_live", "done"} \/ "insert" \in faults
      PROVE  LogInv'
  <2>1. ASSUME NEW i \in DOMAIN log' PROVE (Rank(log[i]) <= Written(log[i].turn))'
    <3>0. i \in DOMAIN log /\ log'[i] = log[i]
      BY <1>k
    <3>1. PICK t \in Turns : t = log[i].turn
      BY <1>l, <3>0
    <3>2. Rank(log[i]) <= Written(t)'
      BY <1>l, <1>w, <3>0, <3>1
    <3>3. t = log'[i].turn
      BY <3>0, <3>1
    <3> QED BY <3>0, <3>2, <3>3 DEF Written, Rank
  <2>2. ASSUME NEW t \in Turns PROVE Durable(t)'
    BY <1>k DEF LogInv, Durable, InLog, EndEvent, StageEvent
  <2>3. Ordered(log)'
    BY <1>k DEF LogInv, Ordered, Rank
  <2> QED BY <2>1, <2>2, <2>3 DEF LogInv
\* An event is inserted.
<1>g. ASSUME NEW t \in Turns, NEW e \in Event, log' = Append(log, e), e.turn = t,
             Written(t) < Rank(e), Rank(e) <= Written(t)', outcome' = outcome, faults' = faults,
             \A u \in Turns :
                /\ stage'[u] = "publish" => stage[u] = "publish" \/ e = StageEvent(u)
                /\ task'[u] = "delta_publish" =>
                      task[u] = "delta_publish" \/ e = [turn |-> u, kind |-> "delta"]
                /\ task'[u] \in {"end_publish", "end_live"} =>
                      task[u] \in {"end_publish", "end_live"} \/ e = EndEvent(u)
                /\ task'[u] = "done" =>
                      task[u] \in {"end_live", "done"} \/ "insert" \in faults \/ e = EndEvent(u)
      PROVE  LogInv'
  <2>0. log \in Seq(Event) /\ Ordered(log) /\ Rank(e) \in 1..4
    BY RankIs DEF Typed, LogInv
  <2>1. \A i \in DOMAIN log : log[i].turn = e.turn => Rank(log[i]) < Rank(e)
    BY <1>g, <1>l, <1>w, <2>0
  <2>2. Ordered(log')
    BY <1>g, <2>0, <2>1, AppendOrdered
  <2>3. /\ \A i \in DOMAIN log' : (i \in DOMAIN log /\ log'[i] = log[i]) \/ log'[i] = e
        /\ \A i \in DOMAIN log : i \in DOMAIN log' /\ log'[i] = log[i]
        /\ Len(log) + 1 \in DOMAIN log' /\ log'[Len(log) + 1] = e
    BY <1>g, <2>0
  <2>4. ASSUME NEW i \in DOMAIN log' PROVE (Rank(log[i]) <= Written(log[i].turn))'
    <3>1. CASE i \in DOMAIN log /\ log'[i] = log[i]
      <4>1. PICK u \in Turns : u = log[i].turn
        BY <1>l, <3>1
      <4>2. Rank(log[i]) <= Written(u)' /\ u = log'[i].turn
        BY <1>l, <1>w, <3>1, <4>1
      <4> QED BY <3>1, <4>2 DEF Written, Rank
    <3>2. CASE log'[i] = e
      BY <1>g, <3>2 DEF Written, Rank
    <3> QED BY <2>3, <3>1, <3>2
  <2>5. ASSUME NEW u \in Turns PROVE Durable(u)'
    <3>1. (\E i \in DOMAIN log' : log'[i] = e)
      BY <2>3
    <3>2. \A x : (\E i \in DOMAIN log : log[i] = x) => \E i \in DOMAIN log' : log'[i] = x
      BY <2>3
    <3>3. Durable(u)
      BY DEF LogInv
    <3>4. stage'[u] = "publish" => InLog(StageEvent(u))'
      BY <1>g, <3>1, <3>2, <3>3 DEF Durable, InLog, StageEvent
    <3>5. task'[u] = "delta_publish" => InLog([turn |-> u, kind |-> "delta"])'
      BY <1>g, <3>1, <3>2, <3>3 DEF Durable, InLog
    <3>6. (InLog(EndEvent(u)) => InLog(EndEvent(u))') /\ (e = EndEvent(u) => InLog(EndEvent(u))')
      BY <1>g, <3>1, <3>2 DEF InLog, EndEvent
    <3> QED BY <1>g, <3>3, <3>4, <3>5, <3>6 DEF Durable
  <2> QED BY <2>2, <2>4, <2>5 DEF LogInv, Ordered, Rank
<1>e. \A t \in Turns : /\ StageEvent(t) \in Event /\ StageEvent(t).turn = t /\ Rank(StageEvent(t)) = 2
                       /\ [turn |-> t, kind |-> "delta"] \in Event
                       /\ Rank([turn |-> t, kind |-> "delta"]) = 3
                       /\ EndEvent(t) \in Event /\ EndEvent(t).turn = t /\ Rank(EndEvent(t)) = 4
                       /\ EventAt("delta_insert", t) = [turn |-> t, kind |-> "delta"]
                       /\ EventAt("end_insert", t) = EndEvent(t)
  <2> SUFFICES ASSUME NEW t \in Turns
               PROVE  /\ StageEvent(t) \in Event /\ StageEvent(t).turn = t /\ Rank(StageEvent(t)) = 2
                      /\ [turn |-> t, kind |-> "delta"] \in Event
                      /\ Rank([turn |-> t, kind |-> "delta"]) = 3
                      /\ EndEvent(t) \in Event /\ EndEvent(t).turn = t /\ Rank(EndEvent(t)) = 4
                      /\ EventAt("delta_insert", t) = [turn |-> t, kind |-> "delta"]
                      /\ EventAt("end_insert", t) = EndEvent(t)
    OBVIOUS
  <2>1. outcome \in [Turns -> TerminalStatus]
    BY DEF Typed
  <2>2. Rank([turn |-> t, kind |-> "delta"]) = 3
    BY DEF Rank
  <2> QED BY <2>1, <2>2, Emitted
<1>1. ASSUME NEW t \in Turns, InsertStage(t) PROVE LogInv'
  <2>1. PICK to \in {"publish", "done"} : stage' = [stage EXCEPT ![t] = to]
    BY <1>1 DEF InsertStage
  <2>2. /\ stage[t] = "insert" /\ log' = Append(log, StageEvent(t))
        /\ task' = task /\ outcome' = outcome /\ faults' = faults
    BY <1>1 DEF InsertStage
  <2>3. stage'[t] = to /\ \A u \in Turns : u # t => stage'[u] = stage[u]
    BY <2>1 DEF Typed
  <2>4. Written(t) = 1 /\ 2 <= Written(t)'
    BY <2>2, <2>3 DEF Written
  <2>p. PICK e \in Event : e = StageEvent(t)
    BY <1>e
  <2>q. log' = Append(log, e) /\ e.turn = t /\ Rank(e) = 2
    BY <1>e, <2>2, <2>p
  <2>r. Written(t) < Rank(e) /\ Rank(e) <= Written(t)'
    BY <1>w, <2>4, <2>q
  <2>s. \A u \in Turns :
           /\ stage'[u] = "publish" => stage[u] = "publish" \/ e = StageEvent(u)
           /\ task'[u] = "delta_publish" =>
                 task[u] = "delta_publish" \/ e = [turn |-> u, kind |-> "delta"]
           /\ task'[u] \in {"end_publish", "end_live"} =>
                 task[u] \in {"end_publish", "end_live"} \/ e = EndEvent(u)
           /\ task'[u] = "done" =>
                 task[u] \in {"end_live", "done"} \/ "insert" \in faults \/ e = EndEvent(u)
    BY <2>2, <2>3, <2>p
  <2> QED BY <1>g, <2>2, <2>q, <2>r, <2>s
<1>2. ASSUME NEW t \in Turns, InsertEvent(t), task[t] = "delta_insert" PROVE LogInv'
  <2>1. PICK to \in {"delta_publish", "end_insert"} : task' = [task EXCEPT ![t] = to]
    BY <1>2, FollowingIs DEF InsertEvent
  <2>2. /\ log' = Append(log, [turn |-> t, kind |-> "delta"]) /\ stage[t] = "done"
        /\ stage' = stage /\ outcome' = outcome /\ faults' = faults
    BY <1>2, <1>e DEF InsertEvent
  <2>3. task'[t] = to /\ \A u \in Turns : u # t => task'[u] = task[u]
    BY <2>1 DEF Typed
  <2>4. Written(t) = 2 /\ Written(t)' = 3
    BY <1>2, <2>2, <2>3 DEF Written
  <2>5. \A u \in Turns : task'[u] = "delta_publish" =>
           task[u] = "delta_publish" \/ [turn |-> t, kind |-> "delta"] = [turn |-> u, kind |-> "delta"]
    BY <2>3
  <2>6. \A u \in Turns : /\ task'[u] \in {"end_publish", "end_live"} =>
                              task[u] \in {"end_publish", "end_live"}
                         /\ task'[u] = "done" => task[u] = "done"
    BY <2>3
  <2>p. PICK e \in Event : e = [turn |-> t, kind |-> "delta"]
    BY <1>e
  <2>q. log' = Append(log, e) /\ e.turn = t /\ Rank(e) = 3
    BY <1>e, <2>2, <2>p
  <2>r. Written(t) < Rank(e) /\ Rank(e) <= Written(t)'
    BY <1>w, <2>4, <2>q
  <2>s. \A u \in Turns :
           /\ stage'[u] = "publish" => stage[u] = "publish" \/ e = StageEvent(u)
           /\ task'[u] = "delta_publish" =>
                 task[u] = "delta_publish" \/ e = [turn |-> u, kind |-> "delta"]
           /\ task'[u] \in {"end_publish", "end_live"} =>
                 task[u] \in {"end_publish", "end_live"} \/ e = EndEvent(u)
           /\ task'[u] = "done" =>
                 task[u] \in {"end_live", "done"} \/ "insert" \in faults \/ e = EndEvent(u)
    BY <2>2, <2>5, <2>6, <2>p
  <2> QED BY <1>g, <2>2, <2>q, <2>r, <2>s
<1>3. ASSUME NEW t \in Turns, InsertEvent(t), task[t] = "end_insert" PROVE LogInv'
  <2>1. PICK to \in {"end_publish", "done"} : task' = [task EXCEPT ![t] = to]
    BY <1>3, FollowingIs DEF InsertEvent
  <2>2. /\ log' = Append(log, EndEvent(t)) /\ stage[t] = "done"
        /\ stage' = stage /\ outcome' = outcome /\ faults' = faults
    BY <1>3, <1>e DEF InsertEvent
  <2>3. task'[t] = to /\ \A u \in Turns : u # t => task'[u] = task[u]
    BY <2>1 DEF Typed
  <2>4. Written(t) = 3 /\ Written(t)' = 4
    BY <1>3, <2>2, <2>3 DEF Written
  <2>5. \A u \in Turns : /\ task'[u] = "delta_publish" => task[u] = "delta_publish"
                         /\ task'[u] \in {"end_publish", "end_live"} =>
                               task[u] \in {"end_publish", "end_live"} \/ u = t
                         /\ task'[u] = "done" => task[u] = "done" \/ u = t
    BY <2>3
  <2>p. PICK e \in Event : e = EndEvent(t)
    BY <1>e
  <2>q. log' = Append(log, e) /\ e.turn = t /\ Rank(e) = 4
    BY <1>e, <2>2, <2>p
  <2>r. Written(t) < Rank(e) /\ Rank(e) <= Written(t)'
    BY <1>w, <2>4, <2>q
  <2>s. \A u \in Turns :
           /\ stage'[u] = "publish" => stage[u] = "publish" \/ e = StageEvent(u)
           /\ task'[u] = "delta_publish" =>
                 task[u] = "delta_publish" \/ e = [turn |-> u, kind |-> "delta"]
           /\ task'[u] \in {"end_publish", "end_live"} =>
                 task[u] \in {"end_publish", "end_live"} \/ e = EndEvent(u)
           /\ task'[u] = "done" =>
                 task[u] \in {"end_live", "done"} \/ "insert" \in faults \/ e = EndEvent(u)
    BY <2>2, <2>5, <2>p
  <2> QED BY <1>g, <2>2, <2>q, <2>r, <2>s
<1>4. CASE Respond
  <2>0. PICK n \in Turns : n = turn + 1
    BY <1>4, JobStreamAssumption DEF Typed, Respond, Turns
  <2> DEFINE e == [turn |-> n, kind |-> "status"]
  <2>1. /\ n \in Turns /\ turn \in Int /\ n > turn
        /\ stage' = [stage EXCEPT ![n] = "insert"] /\ task' = [task EXCEPT ![n] = "persist"]
        /\ log' = Append(log, e) /\ outcome' = outcome /\ faults' = faults
    BY <1>4, <2>0, JobStreamAssumption DEF Typed, Respond, Turns
  <2>2. stage[n] = "idle"
    BY <2>1 DEF TurnsInv, TurnInv
  <2>3. /\ stage'[n] = "insert" /\ task'[n] = "persist"
        /\ \A u \in Turns : u # n => stage'[u] = stage[u] /\ task'[u] = task[u]
    BY <2>1 DEF Typed
  <2>4. Written(n) = 0 /\ Written(n)' = 1
    BY <2>2, <2>3 DEF Written
  <2>5. e \in Event /\ e.turn = n /\ Rank(e) = 1
    BY <2>1 DEF Event, Rank
  <2> HIDE DEF e
  <2>6. Written(n) < Rank(e) /\ Rank(e) <= Written(n)'
    BY <2>4, <2>5
  <2>7. \A u \in Turns :
           /\ stage'[u] = "publish" => stage[u] = "publish" \/ e = StageEvent(u)
           /\ task'[u] = "delta_publish" =>
                 task[u] = "delta_publish" \/ e = [turn |-> u, kind |-> "delta"]
           /\ task'[u] \in {"end_publish", "end_live"} =>
                 task[u] \in {"end_publish", "end_live"} \/ e = EndEvent(u)
           /\ task'[u] = "done" =>
                 task[u] \in {"end_live", "done"} \/ "insert" \in faults \/ e = EndEvent(u)
    BY <2>3
  <2> QED BY <1>g, <2>1, <2>5, <2>6, <2>7
<1>5. ASSUME NEW t \in Turns,
             PublishStage(t) \/ StageInsertError(t) \/ StageRedisError(t)
      PROVE  LogInv'
  <2>1. /\ stage' = [stage EXCEPT ![t] = "done"] /\ task' = task /\ log' = log
        /\ outcome' = outcome /\ faults' = faults
    BY <1>5 DEF PublishStage, StageInsertError, StageRedisError
  <2>2. \A u \in Turns : stage'[u] = "publish" => stage[u] = "publish"
    BY <2>1 DEF Typed
  <2> QED BY <1>k, <2>1, <2>2
<1>6. ASSUME NEW t \in Turns,
             PersistOutcome(t) \/ Publish(t) \/ SetLiveState(t) \/ DeltaInsertError(t)
                \/ TerminalEventLost(t) \/ RedisError(t)
      PROVE  LogInv'
  <2>1. PICK to \in {"delta_insert", "end_insert", "end_live", "done"} :
           /\ task' = [task EXCEPT ![t] = to]
           /\ to = "end_live" => task[t] = "end_publish"
           /\ to = "done" => task[t] = "end_live" \/ "insert" \in faults
    BY <1>6, FollowingIs
       DEF PersistOutcome, Publish, SetLiveState, DeltaInsertError, TerminalEventLost, RedisError
  <2>2. stage' = stage /\ log' = log /\ outcome' = outcome /\ faults' = faults
    BY <1>6
       DEF PersistOutcome, Publish, SetLiveState, DeltaInsertError, TerminalEventLost, RedisError
  <2>3. task'[t] = to /\ \A u \in Turns : u # t => task'[u] = task[u]
    BY <2>1 DEF Typed
  <2> QED BY <1>k, <2>1, <2>2, <2>3
<1>7. ASSUME NEW t \in Turns, TerminalInsertError(t) PROVE LogInv'
  <2>1. /\ task[t] = "end_insert" /\ outcome' = [outcome EXCEPT ![t] = "failed"]
        /\ UNCHANGED <<stage, task, log, faults>>
    BY <1>7 DEF TerminalInsertError
  <2>2. \A u \in Turns : u # t => outcome'[u] = outcome[u]
    BY <2>1 DEF Typed
  <2>3. ASSUME NEW u \in Turns PROVE Durable(u)'
    BY <2>1, <2>2 DEF LogInv, Durable, InLog, EndEvent, StageEvent
  <2> QED BY <2>1, <2>3 DEF LogInv, Ordered, Rank, Written
<1>8. CASE \/ Subscribe \/ RecheckLiveState \/ Replay \/ Forward \/ Poll \/ SubscribeError
           \/ RecheckError \/ SubscriptionLost \/ ExpireLiveState \/ ArchiveSession \/ Open
           \/ UNCHANGED vars
  BY <1>k, <1>8 DEF Subscribe, RecheckLiveState, Replay, Forward, Poll, SubscribeError,
     RecheckError, SubscriptionLost, ExpireLiveState, ArchiveSession, Open, vars
<1>9. \A t \in Turns : InsertEvent(t) => LogInv'
  BY <1>2, <1>3 DEF InsertEvent
<1> QED
  BY <1>1, <1>4, <1>5, <1>6, <1>7, <1>8, <1>9
     DEF Next, ForwarderStep, PipelineStep, TaskFault, HandlerStep

-----------------------------------------------------------------------------
(* The stream *)

\* The log only grows.
LEMMA LogGrows ==
    Typed /\ [Next]_vars =>
        /\ \A i \in DOMAIN log : i \in DOMAIN log' /\ log'[i] = log[i]
        /\ \A x : (\E i \in DOMAIN log : log[i] = x) => (\E i \in DOMAIN log' : log'[i] = x)
<1> SUFFICES ASSUME Typed, [Next]_vars
             PROVE  \A i \in DOMAIN log : i \in DOMAIN log' /\ log'[i] = log[i]
  OBVIOUS
<1>1. log' = log \/ \E e : log' = Append(log, e)
  BY DEF Next, ForwarderStep, PipelineStep, TaskFault, HandlerStep, InsertStage, PublishStage,
     PersistOutcome, InsertEvent, Publish, SetLiveState, StageInsertError, DeltaInsertError,
     TerminalInsertError, TerminalEventLost, StageRedisError, RedisError, Subscribe,
     RecheckLiveState, Replay, Forward, Poll, SubscribeError, RecheckError, SubscriptionLost,
     ExpireLiveState, ArchiveSession, Open, Respond, vars
<1>2. ASSUME NEW e, log' = Append(log, e), NEW i \in DOMAIN log
      PROVE  i \in DOMAIN log' /\ log'[i] = log[i]
  BY <1>2 DEF Typed
<1> QED BY <1>1, <1>2

\* What a stream has sent and will send stays in order, in the log and not
\* ahead of what was published.
LEMMA NextStreamInv ==
    Typed /\ Typed' /\ TurnsInv /\ LogInv /\ StreamInv /\ [Next]_vars => StreamInv'
<1> SUFFICES ASSUME Typed, Typed', TurnsInv, LogInv, StreamInv, [Next]_vars PROVE StreamInv'
  OBVIOUS
<1>g. /\ \A i \in DOMAIN log : i \in DOMAIN log' /\ log'[i] = log[i]
      /\ \A x : (\E i \in DOMAIN log : log[i] = x) => (\E i \in DOMAIN log' : log'[i] = x)
  BY LogGrows
<1>p. \A t \in Turns : /\ Published(t) \in 1..4 /\ Published(t)' \in 1..4
                       /\ Published(t) <= Published(t)'
  BY NextMoves, MovesForward
<1>v. \A e \in Event : e.turn \in Turns /\ Rank(e) \in 1..4
  BY RankIs DEF Event
<1>s. /\ \A i \in DOMAIN sent : sent[i] \in Event /\ sent[i].turn \in Turns /\ Rank(sent[i]) \in 1..4
      /\ \A i \in DOMAIN channel : /\ channel[i] \in Event /\ channel[i].turn \in Turns
                                    /\ Rank(channel[i]) \in 1..4
  <2>1. (\A i \in DOMAIN sent : sent[i] \in Event) /\ (\A i \in DOMAIN channel : channel[i] \in Event)
    BY DEF Typed
  <2> QED BY <1>v, <2>1
<1>n. turn \in Int /\ opened.turn \in Int
  BY DEF Typed, Turns
\* The bounds of a live stream are kept by every step.
<1>l. ASSUME LiveInv, sent' = sent, channel' = channel PROVE LiveInv'
  <2>1. Ordered(channel)'
    BY <1>l DEF LiveInv, Ordered, Rank
  <2>2. ASSUME NEW k \in DOMAIN channel PROVE (InLog(channel[k]))'
    BY <1>g, <1>l, <2>2 DEF LiveInv, InLog
  <2>3. ASSUME NEW k \in DOMAIN channel PROVE (Rank(channel[k]) <= Published(channel[k].turn))'
    <3>1. PICK t \in Turns : t = channel[k].turn
      BY <1>s, <2>3
    <3>2. Rank(channel[k]) <= Published(t)'
      BY <1>l, <1>p, <1>s, <2>3, <3>1 DEF LiveInv
    <3> QED BY <1>l, <3>1, <3>2 DEF Rank, Published
  <2>4. ASSUME NEW k \in DOMAIN sent PROVE (Rank(sent[k]) <= Published(sent[k].turn))'
    <3>1. PICK t \in Turns : t = sent[k].turn
      BY <1>s, <2>4
    <3>2. Rank(sent[k]) <= Published(t)'
      BY <1>l, <1>p, <1>s, <2>4, <3>1 DEF LiveInv
    <3> QED BY <1>l, <3>1, <3>2 DEF Rank, Published
  <2>5. \A k \in DOMAIN channel, i \in DOMAIN sent :
           (sent[i].turn = channel[k].turn => Rank(sent[i]) < Rank(channel[k]))'
    BY <1>l DEF LiveInv, Rank
  <2> QED BY <1>l, <2>1, <2>2, <2>3, <2>4, <2>5 DEF LiveInv
<1>i. ASSUME sent' = sent PROVE \A i \in DOMAIN sent : InLog(sent[i])'
  BY <1>g, <1>i DEF StreamInv, InLog
<1>o. ASSUME sent' = sent PROVE Ordered(sent)'
  BY <1>o DEF StreamInv, Ordered, Rank
<1>q. ASSUME sent' = sent, handler' = handler, handler = "poll"
      PROVE  \A i \in DOMAIN sent : (i \in DOMAIN log /\ sent[i] = log[i])'
  BY <1>g, <1>q DEF StreamInv
\* The handler is not concerned.
<1>1. ASSUME UNCHANGED <<redis, handler, channel, sent, opened>>, turn <= turn' PROVE StreamInv'
  <2>1. opened'.turn <= turn'
    BY <1>1, <1>n DEF StreamInv, Typed, Turns
  <2>2. handler' = "poll" => \A i \in DOMAIN sent' : (i \in DOMAIN log /\ sent[i] = log[i])'
    BY <1>1, <1>q
  <2>3. handler' \in {"check", "live"} => LiveInv'
    BY <1>1, <1>l DEF StreamInv
  <2>4. Ordered(sent)' /\ \A i \in DOMAIN sent' : InLog(sent[i])'
    BY <1>1, <1>i, <1>o
  <2> QED BY <1>1, <2>1, <2>2, <2>3, <2>4 DEF StreamInv
\* An event of turn t is published.
<1>2. ASSUME NEW t \in Turns, NEW e \in Event, e.turn = t, InLog(e), Published(t) < Rank(e),
             Rank(e) <= Published(t)', channel' = Delivered(e),
             UNCHANGED <<redis, handler, sent, opened, turn, log>>
      PROVE  StreamInv'
  <2>1. CASE ~Subscribed
    <3>1. channel' = channel
      BY <1>2, <2>1 DEF Delivered
    <3>2. turn <= turn'
      BY <1>2, <1>n
    <3> QED BY <1>1, <1>2, <3>1, <3>2
  <2>2. CASE Subscribed
    <3>1. channel' = Append(channel, e) /\ LiveInv /\ handler \in {"check", "live"}
      BY <1>2, <2>2 DEF Delivered, Subscribed, StreamInv
    <3>2. \A k \in DOMAIN channel : channel[k].turn = t => Rank(channel[k]) < Rank(e)
      BY <1>2, <1>p, <1>s, <1>v, <3>1 DEF LiveInv
    <3>3. \A i \in DOMAIN sent : sent[i].turn = t => Rank(sent[i]) < Rank(e)
      BY <1>2, <1>p, <1>s, <1>v, <3>1 DEF LiveInv
    <3>4. channel \in Seq(Event) /\ Ordered(channel)
      BY <3>1 DEF Typed, LiveInv
    <3>5. Ordered(channel')
      BY <1>2, <3>1, <3>2, <3>4, AppendOrdered
    <3>6. \A k \in DOMAIN channel' : (k \in DOMAIN channel /\ channel'[k] = channel[k]) \/ channel'[k] = e
      BY <3>1, <3>4
    <3>7. ASSUME NEW k \in DOMAIN channel'
          PROVE  /\ InLog(channel[k])'
                 /\ (Rank(channel[k]) <= Published(channel[k].turn))'
                 /\ \A i \in DOMAIN sent : (sent[i].turn = channel[k].turn => Rank(sent[i]) < Rank(channel[k]))'
      <4>1. CASE k \in DOMAIN channel /\ channel'[k] = channel[k]
        <5>1. PICK u \in Turns : u = channel[k].turn
          BY <1>s, <4>1
        <5>2. Rank(channel[k]) <= Published(u)'
          BY <1>p, <1>s, <3>1, <4>1, <5>1 DEF LiveInv
        <5>3. (Rank(channel[k]) <= Published(channel[k].turn))'
          BY <4>1, <5>1, <5>2 DEF Rank, Published
        <5>4. InLog(channel[k])'
          BY <1>g, <3>1, <4>1 DEF LiveInv, InLog
        <5>5. \A i \in DOMAIN sent : (sent[i].turn = channel[k].turn => Rank(sent[i]) < Rank(channel[k]))'
          BY <1>2, <3>1, <4>1 DEF LiveInv, Rank
        <5> QED BY <5>3, <5>4, <5>5
      <4>2. CASE channel'[k] = e
        <5>1. (Rank(channel[k]) <= Published(channel[k].turn))'
          BY <1>2, <4>2 DEF Rank, Published
        <5>2. InLog(channel[k])'
          BY <1>2, <4>2 DEF InLog
        <5>3. \A i \in DOMAIN sent : (sent[i].turn = channel[k].turn => Rank(sent[i]) < Rank(channel[k]))'
          BY <1>2, <3>3, <4>2 DEF Rank
        <5> QED BY <5>1, <5>2, <5>3
      <4> QED BY <3>6, <4>1, <4>2
    <3>8. \A i \in DOMAIN sent' : (Rank(sent[i]) <= Published(sent[i].turn))'
      <4> SUFFICES ASSUME NEW i \in DOMAIN sent
                   PROVE  (Rank(sent[i]) <= Published(sent[i].turn))'
        BY <1>2
      <4>1. PICK u \in Turns : u = sent[i].turn
        BY <1>s
      <4>2. Rank(sent[i]) <= Published(u)'
        BY <1>p, <1>s, <3>1, <4>1 DEF LiveInv
      <4> QED BY <1>2, <4>1, <4>2 DEF Rank, Published
    <3>9. LiveInv'
      <4>1. Ordered(channel)'
        BY <3>5 DEF Ordered, Rank
      <4> QED BY <1>2, <3>7, <3>8, <4>1 DEF LiveInv
    <3>10. Ordered(sent)' /\ \A i \in DOMAIN sent' : InLog(sent[i])'
      BY <1>2, <1>i, <1>o
    <3> QED BY <1>2, <3>1, <3>9, <3>10 DEF StreamInv
  <2> QED BY <2>1, <2>2
<1>e. ASSUME NEW t \in Turns
      PROVE  /\ StageEvent(t) \in Event /\ StageEvent(t).turn = t /\ Rank(StageEvent(t)) = 2
             /\ [turn |-> t, kind |-> "delta"] \in Event
             /\ Rank([turn |-> t, kind |-> "delta"]) = 3
             /\ EndEvent(t) \in Event /\ EndEvent(t).turn = t /\ Rank(EndEvent(t)) = 4
             /\ EventAt("delta_publish", t) = [turn |-> t, kind |-> "delta"]
             /\ EventAt("end_publish", t) = EndEvent(t)
  <2>1. outcome \in [Turns -> TerminalStatus]
    BY DEF Typed
  <2>2. Rank([turn |-> t, kind |-> "delta"]) = 3
    BY DEF Rank
  <2> QED BY <2>1, <2>2, Emitted
<1>3. ASSUME NEW t \in Turns, PublishStage(t) PROVE StreamInv'
  <2>1. /\ stage[t] = "publish" /\ channel' = Delivered(StageEvent(t)) /\ task' = task
        /\ stage' = [stage EXCEPT ![t] = "done"]
        /\ UNCHANGED <<redis, handler, sent, opened, turn, log>>
    BY <1>3 DEF PublishStage
  <2>2. stage'[t] = "done"
    BY <2>1 DEF Typed
  <2>3. Published(t) = 1 /\ 2 <= Published(t)'
    BY <2>1, <2>2 DEF Published
  <2>4. InLog(StageEvent(t))
    BY <2>1 DEF LogInv, Durable
  <2>5. PICK e \in Event : e = StageEvent(t)
    BY <1>e
  <2>6. /\ e.turn = t /\ InLog(e) /\ Published(t) < Rank(e) /\ Rank(e) <= Published(t)'
        /\ channel' = Delivered(e)
    <3>1. e.turn = t /\ Rank(e) = 2
      BY <1>e, <2>5
    <3>2. InLog(e) /\ channel' = Delivered(e)
      BY <2>1, <2>4, <2>5
    <3> QED BY <1>p, <2>3, <3>1, <3>2
  <2> QED BY <1>2, <2>1, <2>6
<1>4. ASSUME NEW t \in Turns, Publish(t) PROVE StreamInv'
  <2>1. /\ task[t] \in {"delta_publish", "end_publish"} /\ channel' = Delivered(EventAt(task[t], t))
        /\ stage' = stage /\ task' = [task EXCEPT ![t] = Following(task[t])]
        /\ UNCHANGED <<redis, handler, sent, opened, turn, log>>
    BY <1>4 DEF Publish
  <2>2. stage[t] = "done" /\ task'[t] = Following(task[t])
    BY <2>1 DEF Typed, TurnsInv, TurnInv
  <2>3. CASE task[t] = "delta_publish"
    <3>1. Published(t) = 2 /\ Published(t)' = 3
      BY <2>1, <2>2, <2>3, FollowingIs DEF Published
    <3>2. InLog([turn |-> t, kind |-> "delta"])
      BY <2>3 DEF LogInv, Durable
    <3>3. PICK e \in Event : e = [turn |-> t, kind |-> "delta"]
      BY <1>e
    <3>4. /\ e.turn = t /\ InLog(e) /\ Published(t) < Rank(e) /\ Rank(e) <= Published(t)'
          /\ channel' = Delivered(e)
      BY <1>e, <2>1, <2>3, <3>1, <3>2, <3>3
    <3> QED BY <1>2, <2>1, <3>4
  <2>4. CASE task[t] = "end_publish"
    <3>1. Published(t) = 3 /\ Published(t)' = 4
      BY <2>1, <2>2, <2>4, FollowingIs DEF Published
    <3>2. InLog(EndEvent(t))
      BY <2>4 DEF LogInv, Durable
    <3>3. PICK e \in Event : e = EndEvent(t)
      BY <1>e
    <3>4. /\ e.turn = t /\ InLog(e) /\ Published(t) < Rank(e) /\ Rank(e) <= Published(t)'
          /\ channel' = Delivered(e)
      <4>1. e.turn = t /\ Rank(e) = 4
        BY <1>e, <3>3
      <4>2. InLog(e) /\ channel' = Delivered(e)
        BY <1>e, <2>1, <2>4, <3>2, <3>3
      <4> QED BY <3>1, <4>1, <4>2
    <3> QED BY <1>2, <2>1, <3>4
  <2> QED BY <2>1, <2>3, <2>4
<1>5. ASSUME NEW t \in Turns,
             InsertStage(t) \/ PersistOutcome(t) \/ InsertEvent(t) \/ SetLiveState(t) \/ TaskFault(t)
      PROVE  StreamInv'
  <2>1. UNCHANGED <<redis, handler, channel, sent, opened, turn>>
    BY <1>5 DEF InsertStage, PersistOutcome, InsertEvent, SetLiveState, TaskFault, StageInsertError,
       DeltaInsertError, TerminalInsertError, TerminalEventLost, StageRedisError, RedisError
  <2> QED BY <1>1, <1>n, <2>1
<1>6. CASE Respond \/ ExpireLiveState \/ ArchiveSession \/ UNCHANGED vars
  <2>1. UNCHANGED <<redis, handler, channel, sent, opened>> /\ turn <= turn'
    BY <1>6, <1>n DEF Respond, ExpireLiveState, ArchiveSession, vars
  <2> QED BY <1>1, <2>1
<1>7. CASE Open
  <2>1. /\ opened'.turn = turn /\ turn' = turn /\ redis' = redis
        /\ sent' = <<>> /\ channel' = <<>>
        /\ handler' \in {"replay", "subscribe", "poll"} /\ (handler' = "subscribe" => redis)
    BY <1>7 DEF Open
  <2>2. DOMAIN sent' = {} /\ turn # 0
    BY <2>1 DEF Typed, Turns
  <2>3. Ordered(sent)' /\ \A i \in DOMAIN sent' : InLog(sent[i])'
    BY <2>2 DEF Ordered
  <2> QED BY <1>n, <2>1, <2>2, <2>3 DEF StreamInv
<1>8. CASE Subscribe \/ SubscribeError
  <2>1. /\ handler = "subscribe" /\ sent = <<>> /\ channel = <<>> /\ redis
        /\ handler' \in {"check", "poll"}
        /\ UNCHANGED <<redis, channel, sent, opened, turn, log>>
    BY <1>8 DEF Subscribe, SubscribeError, StreamInv
  <2>2. DOMAIN sent' = {} /\ DOMAIN channel' = {}
    BY <2>1
  <2>3. LiveInv'
    BY <2>2 DEF LiveInv, Ordered
  <2>4. Ordered(sent)' /\ \A i \in DOMAIN sent' : InLog(sent[i])'
    BY <2>2 DEF Ordered
  <2> QED BY <2>1, <2>2, <2>3, <2>4 DEF StreamInv
<1>9. CASE RecheckLiveState \/ RecheckError
  <2>1. /\ handler = "check" /\ sent = <<>> /\ redis /\ handler' \in {"live", "replay"}
        /\ opened'.turn = opened.turn /\ UNCHANGED <<redis, channel, sent, turn>>
    BY <1>9 DEF RecheckLiveState, RecheckError, StreamInv, Typed
  <2>2. LiveInv'
    BY <1>l, <2>1 DEF StreamInv
  <2>3. Ordered(sent)' /\ \A i \in DOMAIN sent' : InLog(sent[i])'
    BY <1>i, <1>o, <2>1
  <2> QED BY <2>1, <2>2, <2>3 DEF StreamInv
<1>10. CASE SubscriptionLost
  <2>1. handler' = "closed" /\ UNCHANGED <<sent, opened, turn>>
    BY <1>10 DEF SubscriptionLost
  <2>2. Ordered(sent)' /\ \A i \in DOMAIN sent' : InLog(sent[i])'
    BY <1>i, <1>o, <2>1
  <2> QED BY <2>1, <2>2 DEF StreamInv
<1>11. CASE Replay
  <2>1. handler' = "closed" /\ sent' = Readable /\ log' = log /\ UNCHANGED <<opened, turn>>
    BY <1>11 DEF Replay
  <2>0. CASE archived
    <3>1. DOMAIN sent' = {}
      BY <2>0, <2>1 DEF Readable
    <3> QED BY <2>1, <3>1 DEF StreamInv, Ordered
  <2>4. CASE ~archived
    <3>0. sent' = log
      BY <2>1, <2>4 DEF Readable
    <3>2. Ordered(sent)'
      BY <2>1, <3>0 DEF LogInv, Ordered, Rank
    <3>3. \A i \in DOMAIN sent' : InLog(sent[i])'
      BY <2>1, <3>0 DEF InLog
    <3> QED BY <2>1, <3>2, <3>3 DEF StreamInv
  <2> QED BY <2>0, <2>4
<1>12. CASE Forward
  <2>1. /\ handler = "live" /\ channel # <<>> /\ LiveInv /\ redis
        /\ sent' = Append(sent, Head(channel)) /\ channel' = Tail(channel)
        /\ handler' \in {"closed", "live"}
        /\ UNCHANGED <<redis, stage, task, opened, turn, log>>
    BY <1>12 DEF Forward, StreamInv
  <2>2. channel \in Seq(Event) /\ Ordered(channel) /\ sent \in Seq(Event) /\ Ordered(sent)
    BY <2>1 DEF Typed, LiveInv, StreamInv
  <2>3. /\ Ordered(channel') /\ 1 \in DOMAIN channel /\ Head(channel) = channel[1]
        /\ \A k \in DOMAIN channel' :
              /\ k + 1 \in DOMAIN channel /\ channel'[k] = channel[k + 1]
              /\ channel[1].turn = channel'[k].turn => Rank(channel[1]) < Rank(channel'[k])
    BY <2>1, <2>2, TailOrdered
  <2>4. PICK e \in Event : e = channel[1]
    BY <1>s, <2>3
  <2>5. InLog(e) /\ \A i \in DOMAIN sent : sent[i].turn = e.turn => Rank(sent[i]) < Rank(e)
    BY <2>1, <2>3, <2>4 DEF LiveInv
  <2>6. sent' = Append(sent, e)
    BY <2>1, <2>3, <2>4
  <2>7. Ordered(sent')
    BY <2>2, <2>5, <2>6, AppendOrdered
  <2>8. \A i \in DOMAIN sent' : (i \in DOMAIN sent /\ sent'[i] = sent[i]) \/ sent'[i] = e
    BY <2>2, <2>6
  <2>9. \A i \in DOMAIN sent' : InLog(sent[i])'
    BY <2>1, <2>5, <2>8 DEF StreamInv, InLog
  <2>10. \A i \in DOMAIN sent' : (Rank(sent[i]) <= Published(sent[i].turn))'
    BY <2>1, <2>3, <2>4, <2>8 DEF LiveInv, Published, Rank
  <2>11. ASSUME NEW k \in DOMAIN channel'
         PROVE  /\ InLog(channel[k])'
                /\ (Rank(channel[k]) <= Published(channel[k].turn))'
                /\ \A i \in DOMAIN sent' :
                      (sent[i].turn = channel[k].turn => Rank(sent[i]) < Rank(channel[k]))'
    <3>1. PICK j \in DOMAIN channel : j = k + 1 /\ channel'[k] = channel[j]
      BY <2>3, <2>11
    <3>2. InLog(channel[k])'
      BY <2>1, <3>1 DEF LiveInv, InLog
    <3>3. (Rank(channel[k]) <= Published(channel[k].turn))'
      BY <2>1, <3>1 DEF LiveInv, Published, Rank
    <3>4. ASSUME NEW i \in DOMAIN sent', sent'[i].turn = channel'[k].turn
          PROVE  Rank(sent'[i]) < Rank(channel'[k])
      <4>1. CASE i \in DOMAIN sent /\ sent'[i] = sent[i]
        BY <2>1, <3>1, <3>4, <4>1 DEF LiveInv
      <4>2. CASE sent'[i] = e
        BY <2>3, <2>4, <3>4, <4>2
      <4> QED BY <2>8, <3>4, <4>1, <4>2
    <3> QED BY <3>2, <3>3, <3>4 DEF Rank
  <2>12. LiveInv'
    <3>1. Ordered(channel)'
      BY <2>3 DEF Ordered, Rank
    <3> QED BY <2>10, <2>11, <3>1 DEF LiveInv
  <2>13. Ordered(sent)'
    BY <2>7 DEF Ordered, Rank
  <2> QED BY <2>1, <2>9, <2>12, <2>13 DEF StreamInv
<1>13. CASE Poll
  <2>1. /\ handler = "poll" /\ Len(sent) < Len(log) /\ sent' = Append(sent, log[Len(sent) + 1])
        /\ handler' \in {"closed", "poll"} /\ UNCHANGED <<opened, turn, log>>
    BY <1>13 DEF Poll, Readable
  <2>2. sent \in Seq(Event) /\ log \in Seq(Event)
    BY DEF Typed
  <2>3. \A i \in DOMAIN sent : i \in DOMAIN log /\ sent[i] = log[i]
    BY <2>1 DEF StreamInv
  <2>4. /\ Len(sent) + 1 \in DOMAIN log
        /\ \A i \in DOMAIN sent' : \/ i \in DOMAIN sent /\ sent'[i] = sent[i]
                                   \/ i = Len(sent) + 1 /\ sent'[i] = log[i]
    <3>1. Len(sent) + 1 \in DOMAIN log
      BY <2>1, <2>2
    <3>2. PICK e \in Event : e = log[Len(sent) + 1]
      BY <2>2, <3>1
    <3>3. sent' = Append(sent, e)
      BY <2>1, <3>2
    <3>4. \A i \in DOMAIN sent' : \/ i \in DOMAIN sent /\ sent'[i] = sent[i]
                                  \/ i = Len(sent) + 1 /\ sent'[i] = e
      BY <2>2, <3>3
    <3> QED BY <3>1, <3>2, <3>4
  <2>5. \A i \in DOMAIN sent' : i \in DOMAIN log /\ sent'[i] = log[i]
    BY <2>3, <2>4
  <2>6. Ordered(sent)'
    BY <2>5 DEF LogInv, Ordered, Rank
  <2>7. \A i \in DOMAIN sent' : InLog(sent[i])'
    BY <2>1, <2>5 DEF InLog
  <2> QED BY <2>1, <2>5, <2>6, <2>7 DEF StreamInv
<1> QED
  BY <1>3, <1>4, <1>5, <1>6, <1>7, <1>8, <1>9, <1>10, <1>11, <1>12, <1>13
     DEF Next, ForwarderStep, PipelineStep, HandlerStep

-----------------------------------------------------------------------------
(* The window *)

\* The end of the turn a live stream follows is on its way, unless the
\* handler looked between its publication and its live_state.
LEMMA NextWindowInv ==
    Typed /\ TurnsInv /\ StreamInv /\ WindowInv /\ [Next]_vars => WindowInv'
<1> SUFFICES ASSUME Typed, TurnsInv, StreamInv, WindowInv, [Next]_vars, faults' \subseteq {"archive"}
             PROVE  /\ (handler \in {"subscribe", "check"} /\ task[opened.turn] = "done"
                          => liveState \in TerminalStatus)'
                    /\ (handler = "live" => opened.at = "end_live" \/ Coming \/ Waiting)'
  BY DEF WindowInv
<1>f. faults \subseteq {"archive"}
  BY DEF Next, ForwarderStep, PipelineStep, TaskFault, HandlerStep, InsertStage, PublishStage,
     PersistOutcome, InsertEvent, Publish, SetLiveState, StageInsertError, DeltaInsertError,
     TerminalInsertError, TerminalEventLost, StageRedisError, RedisError, Subscribe,
     RecheckLiveState, Replay, Forward, Poll, SubscribeError, RecheckError, SubscriptionLost,
     ExpireLiveState, ArchiveSession, Open, Respond, vars
<1>w. /\ handler \in {"subscribe", "check"} /\ task[opened.turn] = "done" => liveState \in TerminalStatus
      /\ handler = "live" => opened.at = "end_live" \/ Coming \/ Waiting
  BY <1>f DEF WindowInv
<1>t. /\ handler # "closed" => opened.turn \in Turns /\ task[opened.turn] # "idle"
      /\ handler \in {"subscribe", "check", "live"} => redis
  BY JobStreamAssumption DEF Typed, StreamInv, TurnsInv, TurnInv, Turns
<1>g. ASSUME NEW t \in Turns, NEW to, task' = [task EXCEPT ![t] = to]
      PROVE  task'[t] = to /\ \A u \in Turns : u # t => task'[u] = task[u]
  BY <1>g DEF Typed
\* The handler stays where it is.
<1>1. ASSUME UNCHANGED <<handler, opened>>,
             handler \in {"subscribe", "check"} =>
                /\ task'[opened.turn] = "done" => task[opened.turn] = "done"
                /\ liveState' = liveState,
             handler = "live" => (Coming => Coming' \/ Waiting') /\ (Waiting => Waiting')
      PROVE  /\ (handler \in {"subscribe", "check"} /\ task[opened.turn] = "done"
                   => liveState \in TerminalStatus)'
             /\ (handler = "live" => opened.at = "end_live" \/ Coming \/ Waiting)'
  BY <1>1, <1>w
<1>d. ASSUME NEW e \in Event, channel' = Delivered(e)
      PROVE  (Waiting => Waiting') /\ (Subscribed /\ e.kind \in TerminalKind => Waiting')
  <2>1. CASE Subscribed
    <3>1. /\ \A i \in DOMAIN channel : i \in DOMAIN channel' /\ channel'[i] = channel[i]
          /\ Len(channel) + 1 \in DOMAIN channel' /\ channel'[Len(channel) + 1] = e
      BY <1>d, <2>1 DEF Delivered, Typed
    <3> QED BY <3>1 DEF Waiting
  <2>2. CASE ~Subscribed
    BY <1>d, <2>2 DEF Delivered, Waiting
  <2> QED BY <2>1, <2>2
<1>e. \A t \in Turns : /\ StageEvent(t) \in Event /\ EndEvent(t) \in Event
                       /\ EndEvent(t).kind \in TerminalKind
                       /\ [turn |-> t, kind |-> "delta"] \in Event
                       /\ EventAt("delta_publish", t) = [turn |-> t, kind |-> "delta"]
                       /\ EventAt("end_publish", t) = EndEvent(t)
  BY Emitted DEF Typed
<1> DEFINE Goal == /\ (handler \in {"subscribe", "check"} /\ task[opened.turn] = "done"
                          => liveState \in TerminalStatus)'
                   /\ (handler = "live" => opened.at = "end_live" \/ Coming \/ Waiting)'
<1>2. ASSUME NEW t \in Turns, ForwarderStep(t) PROVE Goal
  <2>1. /\ UNCHANGED <<handler, opened, task, liveState>>
        /\ channel' = channel \/ channel' = Delivered(StageEvent(t))
    BY <1>2 DEF ForwarderStep, InsertStage, PublishStage
  <2>2. Waiting => Waiting'
    BY <1>d, <1>e, <2>1 DEF Waiting
  <2>3. Coming <=> Coming'
    BY <2>1 DEF Coming
  <2> QED BY <1>1, <2>1, <2>2, <2>3
<1>3. ASSUME NEW t \in Turns, PersistOutcome(t) PROVE Goal
  <2>1. /\ UNCHANGED <<handler, opened, channel, liveState>>
        /\ task' = [task EXCEPT ![t] = "delta_insert"] /\ task[t] = "persist"
    BY <1>3, FollowingIs DEF PersistOutcome
  <2>2. task'[t] = "delta_insert" /\ \A u \in Turns : u # t => task'[u] = task[u]
    BY <1>g, <2>1
  <2>3. Waiting <=> Waiting'
    BY <2>1 DEF Waiting
  <2>4. handler # "closed" => (Coming => Coming') /\ (task'[opened.turn] = "done" => task[opened.turn] = "done")
    BY <1>t, <2>1, <2>2 DEF Coming
  <2> QED BY <1>1, <2>1, <2>3, <2>4
<1>4. ASSUME NEW t \in Turns, InsertEvent(t) PROVE Goal
  <2>1. /\ UNCHANGED <<handler, opened, channel, liveState>>
        /\ task[t] \in {"delta_insert", "end_insert"}
    BY <1>4 DEF InsertEvent
  <2>2. Waiting <=> Waiting'
    BY <2>1 DEF Waiting
  <2>3. CASE redis
    <3>1. PICK to \in {"delta_publish", "end_publish"} : task' = [task EXCEPT ![t] = to]
      BY <1>4, <2>3, FollowingIs DEF InsertEvent
    <3>2. task'[t] = to /\ \A u \in Turns : u # t => task'[u] = task[u]
      BY <1>g, <3>1
    <3>3. handler # "closed" => (Coming => Coming') /\ (task'[opened.turn] = "done" => task[opened.turn] = "done")
      BY <1>t, <2>1, <3>2 DEF Coming
    <3> QED BY <1>1, <2>1, <2>2, <3>3
  <2>4. CASE ~redis
    BY <1>t, <2>1, <2>4
  <2> QED BY <2>3, <2>4
<1>5. ASSUME NEW t \in Turns, Publish(t) PROVE Goal
  <2>1. /\ UNCHANGED <<handler, opened, liveState>>
        /\ task[t] \in {"delta_publish", "end_publish"} /\ channel' = Delivered(EventAt(task[t], t))
        /\ task' = [task EXCEPT ![t] = Following(task[t])]
    BY <1>5 DEF Publish
  <2>2. task'[t] = Following(task[t]) /\ \A u \in Turns : u # t => task'[u] = task[u]
    BY <1>g, <2>1
  <2>3. EventAt(task[t], t) \in Event
    BY <1>e, <2>1
  <2>4. Waiting => Waiting'
    BY <1>d, <2>1, <2>3
  <2>5. task[t] = "end_publish" /\ handler = "live" => Waiting'
    BY <1>d, <1>e, <2>1 DEF Subscribed
  <2>6. task'[t] \in {"end_insert", "end_live"} /\ (task'[t] = "end_live" => task[t] = "end_publish")
    BY <2>1, <2>2, FollowingIs
  <2>7. handler # "closed" => (task'[opened.turn] = "done" => task[opened.turn] = "done")
    BY <1>t, <2>2, <2>6
  <2>8. handler = "live" => (Coming => Coming' \/ Waiting')
    BY <1>t, <2>1, <2>2, <2>5, <2>6 DEF Coming
  <2> QED BY <1>1, <2>1, <2>4, <2>7, <2>8
<1>6. ASSUME NEW t \in Turns, SetLiveState(t) PROVE Goal
  <2>1. /\ UNCHANGED <<handler, opened, channel>> /\ liveState' = outcome[t]
        /\ task' = [task EXCEPT ![t] = "done"] /\ task[t] = "end_live"
    BY <1>6, FollowingIs DEF SetLiveState
  <2>2. liveState' \in TerminalStatus
    BY <2>1 DEF Typed
  <2>3. \A u \in Turns : u # t => task'[u] = task[u]
    BY <1>g, <2>1
  <2>4. Waiting <=> Waiting'
    BY <2>1 DEF Waiting
  <2>5. handler = "live" => (Coming => Coming')
    BY <1>t, <2>1, <2>3 DEF Coming
  <2> QED BY <1>w, <2>1, <2>2, <2>4, <2>5
<1>7. CASE Respond
  <2>1. /\ UNCHANGED <<handler, opened, channel, liveState>>
        /\ task' = [task EXCEPT ![turn + 1] = "persist"]
    BY <1>7 DEF Respond
  <2>2. handler # "closed" => opened.turn # turn + 1
    BY DEF Typed, StreamInv, Turns
  <2>3. handler # "closed" => task'[opened.turn] = task[opened.turn]
    BY <1>t, <2>1, <2>2 DEF Typed
  <2>4. Waiting <=> Waiting'
    BY <2>1 DEF Waiting
  <2>5. handler = "live" => (Coming => Coming')
    BY <2>1, <2>3 DEF Coming
  <2> QED BY <1>1, <2>1, <2>3, <2>4, <2>5
<1>8. CASE ExpireLiveState \/ ArchiveSession \/ UNCHANGED vars
  <2>1. /\ UNCHANGED <<handler, opened, channel, task>>
        /\ handler \in {"subscribe", "check"} => liveState' = liveState
    BY <1>8 DEF ExpireLiveState, ArchiveSession, vars
  <2>2. (Waiting <=> Waiting') /\ (Coming <=> Coming')
    BY <2>1 DEF Waiting, Coming
  <2> QED BY <1>1, <2>1, <2>2
<1>9. CASE Open
  <2>1. /\ handler' # "live" /\ task' = task /\ opened'.turn = turn
        /\ handler' \in {"subscribe", "check"} => status \notin TerminalStatus
    BY <1>9 DEF Open
  <2>2. handler' \in {"subscribe", "check"} => task[turn] = "persist"
    BY <2>1 DEF Typed, TurnsInv
  <2> QED BY <2>1, <2>2
<1>10. CASE Subscribe
  BY <1>10, <1>w DEF Subscribe
<1>11. CASE RecheckLiveState
  <2>1. /\ handler = "check" /\ UNCHANGED <<task, liveState, channel>>
        /\ handler' = IF liveState \in TerminalStatus THEN "replay" ELSE "live"
        /\ opened' = [opened EXCEPT !.at = task[opened.turn]]
    BY <1>11 DEF RecheckLiveState
  <2>2. opened'.turn = opened.turn /\ opened'.at = task[opened.turn]
    BY <2>1 DEF Typed
  <2>3. task[opened.turn] \in PipelineSteps \ {"idle"}
    BY <1>t, <2>1 DEF Typed
  <2>4. handler' = "live" => task[opened.turn] # "done"
    BY <1>w, <2>1
  <2>5. handler' = "live" => task[opened.turn] = "end_live" \/ Coming'
    BY <2>1, <2>2, <2>3, <2>4 DEF Coming, PipelineSteps
  <2> QED BY <2>1, <2>2, <2>5
<1>12. CASE Replay \/ Poll
  <2>1. handler' \in {"closed", "poll"}
    BY <1>12 DEF Replay, Poll
  <2> QED BY <2>1
<1>13. CASE Forward
  <2>1. /\ UNCHANGED <<task, opened>> /\ channel # <<>> /\ channel' = Tail(channel)
        /\ handler' \in {"closed", "live"}
        /\ handler' = "live" => Head(channel).kind \notin TerminalKind
        /\ handler = "live" /\ LiveInv
    BY <1>13 DEF Forward, StreamInv
  <2>2. /\ Head(channel) = channel[1]
        /\ \A k \in DOMAIN channel : k # 1 => k - 1 \in DOMAIN channel' /\ channel'[k - 1] = channel[k]
    BY <2>1, TailOrdered DEF Typed, LiveInv
  <2>3. handler' = "live" => (Waiting => Waiting')
    BY <2>1, <2>2 DEF Waiting
  <2>4. Coming <=> Coming'
    BY <2>1 DEF Coming
  <2> QED BY <1>w, <2>1, <2>3, <2>4
<1>14. ~SubscribeError /\ ~RecheckError /\ ~SubscriptionLost /\ \A t \in Turns : ~TaskFault(t)
  BY <1>f DEF SubscribeError, RecheckError, SubscriptionLost, TaskFault, StageInsertError,
     DeltaInsertError, TerminalInsertError, TerminalEventLost, StageRedisError, RedisError
<1> QED
  BY <1>2, <1>3, <1>4, <1>5, <1>6, <1>7, <1>8, <1>9, <1>10, <1>11, <1>12, <1>13, <1>14
     DEF Next, PipelineStep, HandlerStep

-----------------------------------------------------------------------------
(* The theorems *)

\* The invariants hold at first.
LEMMA InitStreamIInv == Init => StreamIInv
<1> SUFFICES ASSUME Init PROVE StreamIInv
  OBVIOUS
<1>1. /\ DOMAIN log = {} /\ DOMAIN channel = {} /\ DOMAIN sent = {} /\ 1 \in Turns
  BY JobStreamAssumption DEF Init, Turns
<1>2. Typed
  <2>1. log = <<>> /\ channel = <<>> /\ sent = <<>> /\ <<>> \in Seq(Event)
    BY DEF Init
  <2>2. opened \in [turn : 0..MaxTurns, at : PipelineSteps]
    BY JobStreamAssumption DEF Init, PipelineSteps
  <2>3. /\ redis \in BOOLEAN /\ faults \subseteq Faults /\ archived \in BOOLEAN
        /\ outcome \in [Turns -> TerminalStatus]
    BY DEF Init
  <2> QED BY <1>1, <2>1, <2>2, <2>3 DEF Init, Typed, PipelineSteps
<1>3. TurnsInv
  BY <1>1 DEF Init, TurnsInv, TurnInv, Turns
<1>4. LogInv
  BY <1>1 DEF Init, LogInv, Ordered, Durable
<1>5. StreamInv
  BY <1>1 DEF Init, StreamInv, Ordered
<1>6. WindowInv
  BY DEF Init, WindowInv
<1> QED BY <1>2, <1>3, <1>4, <1>5, <1>6 DEF StreamIInv

\* The invariants hold throughout.
LEMMA StreamInvariant == Spec => []StreamIInv
<1>1. StreamIInv /\ [Next]_vars => StreamIInv'
  BY NextTyped, NextTurnsInv, NextLogInv, NextStreamInv, NextWindowInv DEF StreamIInv
<1> QED BY <1>1, InitStreamIInv, PTL DEF Spec

\* Type correctness.
THEOREM StreamTypeCorrect == Spec => []TypeOK
<1>1. Range(Statements) = PipelineSteps \ {"idle"}
  BY DEF Range, Statements, PipelineSteps
<1>2. StreamIInv => TypeOK
  BY <1>1 DEF StreamIInv, Typed, TypeOK, PipelineSteps
<1> QED BY <1>2, StreamInvariant, PTL

\* Whichever path served the stream, and whatever failed, what it has sent
\* of a turn is, in order, a part of what the log holds of it.
THEOREM StreamFollowsLog == Spec => []SentInLogOrder
<1>1. StreamIInv => SentInLogOrder
  <2> SUFFICES ASSUME StreamIInv, NEW i \in DOMAIN sent, NEW k \in DOMAIN sent, i < k,
                      sent[i].turn = sent[k].turn
               PROVE  \E a, b \in DOMAIN log : a < b /\ log[a] = sent[i] /\ log[b] = sent[k]
    BY DEF SentInLogOrder
  <2>1. Rank(sent[i]) < Rank(sent[k])
    BY DEF StreamIInv, StreamInv, Ordered
  <2>2. PICK a \in DOMAIN log : log[a] = sent[i]
    BY DEF StreamIInv, StreamInv, InLog
  <2>3. PICK b \in DOMAIN log : log[b] = sent[k]
    BY DEF StreamIInv, StreamInv, InLog
  <2>4. a \in Int /\ b \in Int /\ Rank(log[a]) \in Int /\ Rank(log[b]) \in Int
    BY DEF StreamIInv, Typed, Rank
  <2>5. a # b
    BY <2>1, <2>2, <2>3, <2>4
  <2>6. ~(b < a)
    BY <2>1, <2>2, <2>3, <2>4 DEF StreamIInv, LogInv, Ordered
  <2> QED BY <2>2, <2>3, <2>4, <2>5, <2>6
<1> QED BY <1>1, StreamInvariant, PTL

\* Whichever path served the stream, and whatever failed, it sends nothing
\* of a turn after the terminal event of that turn.
THEOREM TerminalIsLast == Spec => []NothingAfterTerminal
<1>1. StreamIInv => NothingAfterTerminal
  <2> SUFFICES ASSUME StreamIInv, NEW i \in DOMAIN sent, NEW k \in DOMAIN sent, i < k,
                      sent[i].turn = sent[k].turn, sent[i].kind \in TerminalKind
               PROVE  FALSE
    BY DEF NothingAfterTerminal
  <2>1. Rank(sent[i]) < Rank(sent[k])
    BY DEF StreamIInv, StreamInv, Ordered
  <2>2. sent[i] \in Event /\ sent[k] \in Event
    BY DEF StreamIInv, Typed
  <2> QED BY <2>1, <2>2, RankIs
<1> QED BY <1>1, StreamInvariant, PTL

\* While inserts succeed, whatever Redis does, a turn that is over has left
\* the event of its outcome in the log.
THEOREM EndIsDurable == Spec => []LogHoldsTheEnd
<1>1. StreamIInv => LogHoldsTheEnd
  BY DEF StreamIInv, LogInv, Durable, InLog, EndEvent, LogHoldsTheEnd, Range
<1> QED BY <1>1, StreamInvariant, PTL

\* When nothing fails, a stream that hangs looked at live_state between the
\* publication of the terminal event and the write of the key.
THEOREM OneWindow == Spec => []HungOnlyInWindow
<1>1. StreamIInv => HungOnlyInWindow
  <2> SUFFICES ASSUME StreamIInv, faults \subseteq {"archive"}, Hung PROVE opened.at = "end_live"
    BY DEF HungOnlyInWindow
  <2>1. opened.at = "end_live" \/ Coming \/ Waiting
    BY DEF StreamIInv, WindowInv, Hung
  <2>2. DOMAIN channel = {} /\ \A t \in Turns : task[t] \in {"idle", "done"}
    BY DEF Hung
  <2>3. opened.turn \in Turns
    BY JobStreamAssumption DEF StreamIInv, Typed, StreamInv, Hung, Turns
  <2> QED BY <2>1, <2>2, <2>3 DEF Coming, Waiting
<1> QED BY <1>1, StreamInvariant, PTL
====
