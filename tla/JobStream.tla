------------------------------ MODULE JobStream ------------------------------
(***************************************************************************)
(* How the events of one chat job reach one server-sent-event stream.      *)
(*                                                                         *)
(* The task of a turn emits events (job/service/run.rs, events.rs): each   *)
(* is inserted into chat_job_events, then published on the Redis channel   *)
(* of the job, and a terminal one then sets the Redis key live_state.  The *)
(* stream handler (api/handlers/job.rs) takes a snapshot of the status,    *)
(* then replays the durable log, follows the channel or polls the log.     *)
(* The three writes of the task and the reads of the handler interleave.   *)
(*                                                                         *)
(* A turn that asks a clarification may be answered by the next one.  A    *)
(* turn emits one stage event, from a forwarder that tokio::join! runs     *)
(* beside the pipeline, then one delta event and its terminal event.       *)
(* Redis is external: a channel delivers to the subscriptions that exist   *)
(* when a message is published, in order, and keeps no history.            *)
(*                                                                         *)
(* Abstracted: the log is in the order of the commits.  The code orders it *)
(* by created_at, the start of the transaction that inserted the event, so *)
(* that the status event of a reply whose transaction is slow may sort     *)
(* before events that are already sent; and the workflow_paused and        *)
(* workflow_resumed events, which no stream ends at, are left out.         *)
(***************************************************************************)
EXTENDS Integers, Sequences

CONSTANTS
    MaxTurns,     \* bound: turns of the job
    Faults        \* "insert": an insert of an event errs; "redis": a Redis call errs;
                  \* "archive": the client archives the session meanwhile

ASSUME JobStreamAssumption ==
    /\ MaxTurns \in Nat \ {0}
    /\ Faults \subseteq {"insert", "redis", "archive"}

Turns == 1..MaxTurns

VARIABLES
    redis,        \* is a Redis client configured?  Never changes
    faults,       \* the faults that may happen in this behaviour.  Never changes
    status,       \* chat_jobs.status
    archived,     \* chat_sessions.archived_at is set
    turn,         \* the turn being answered
    stage,        \* stage[t]: the statement the forwarder of turn t executes next
    task,         \* task[t]: the statement the pipeline of turn t executes next
    outcome,      \* outcome[t]: the status the task of turn t persists
    log,          \* chat_job_events, in insertion order
    liveState,    \* the Redis key chat_job:{id}:live_state, "none" when absent
    handler,      \* where the stream handler stands
    channel,      \* messages delivered to the subscription and not yet forwarded
    sent,         \* the events the stream has sent to the client
    opened        \* history: the turn, and the statement of its task, that the
                  \* handler's decisive read (snapshot or re-check) met

vars == <<redis, faults, status, archived, turn, stage, task, outcome, log, liveState, handler, channel, sent, opened>>

TerminalStatus == {"completed", "failed", "waiting_for_user_input"}
TerminalKind   == {"final", "error", "clarification"}

\* The statements of the pipeline of a turn, in order.
Statements == <<"persist", "delta_insert", "delta_publish", "end_insert", "end_publish",
                "end_live", "done">>
Position(s) == CHOOSE i \in DOMAIN Statements : Statements[i] = s
Following(s) == Statements[Position(s) + 1]

KindOf(o) == CASE o = "waiting_for_user_input" -> "clarification"
               [] o = "failed" -> "error"
               [] OTHER -> "final"

\* The event a statement of the pipeline of turn t inserts or publishes.
EventAt(s, t) ==
    [turn |-> t,
     kind |-> IF s \in {"delta_insert", "delta_publish"} THEN "delta" ELSE KindOf(outcome[t])]

StageEvent(t) == [turn |-> t, kind |-> "stage"]

Init ==
    /\ redis \in BOOLEAN
    /\ faults \in SUBSET Faults
    /\ status = "queued"
    /\ archived = FALSE
    /\ turn = 1
    /\ stage = [t \in Turns |-> IF t = 1 THEN "insert" ELSE "idle"]
    /\ task = [t \in Turns |-> IF t = 1 THEN "persist" ELSE "idle"]
    /\ outcome \in [Turns -> TerminalStatus]
    /\ log = <<>>
    /\ liveState = "none"
    /\ handler = "closed"
    /\ channel = <<>>
    /\ sent = <<>>
    /\ opened = [turn |-> 0, at |-> "idle"]

-----------------------------------------------------------------------------
(* The task of a turn *)

\* PUBLISH reaches the subscription if there is one.
Subscribed == handler \in {"check", "live"}

Delivered(event) == IF Subscribed THEN Append(channel, event) ELSE channel

\* forward_stage_events: an insert and a publish, beside the pipeline.
InsertStage(t) ==
    /\ stage[t] = "insert"
    /\ log'   = Append(log, StageEvent(t))
    /\ stage' = [stage EXCEPT ![t] = IF redis THEN "publish" ELSE "done"]
    /\ UNCHANGED <<redis, faults, status, archived, turn, task, outcome, liveState, handler, channel, sent, opened>>

PublishStage(t) ==
    /\ stage[t] = "publish"
    /\ channel' = Delivered(StageEvent(t))
    /\ stage'   = [stage EXCEPT ![t] = "done"]
    /\ UNCHANGED <<redis, faults, status, archived, turn, task, outcome, log, liveState, handler, sent, opened>>

\* The pipeline makes the outcome durable before the delta and terminal
\* events exist.
PersistOutcome(t) ==
    /\ task[t] = "persist"
    /\ status' = outcome[t]
    /\ task'   = [task EXCEPT ![t] = Following(@)]
    /\ UNCHANGED <<redis, faults, archived, turn, stage, outcome, log, liveState, handler, channel, sent, opened>>

\* Deviation: the forwarder is not joined before the next event.
InsertEventUnjoined(t) ==
    /\ task[t] \in {"delta_insert", "end_insert"}
    /\ log'  = Append(log, EventAt(task[t], t))
    /\ task' = [task EXCEPT ![t] = Following(@)]
    /\ UNCHANGED <<redis, faults, status, archived, turn, stage, outcome, liveState, handler, channel, sent, opened>>

\* emit_event, first part: the durable insert, once join! has seen both the
\* pipeline and the forwarder end.
InsertEvent(t) ==
    /\ task[t] \in {"delta_insert", "end_insert"}
    /\ stage[t] = "done"
    /\ log'  = Append(log, EventAt(task[t], t))
    /\ task' = [task EXCEPT ![t] = IF redis THEN Following(@)
                                   ELSE IF @ = "end_insert" THEN "done" ELSE "end_insert"]
    /\ UNCHANGED <<redis, faults, status, archived, turn, stage, outcome, liveState, handler, channel, sent, opened>>

\* An error of a stage or delta insert is logged and the event is not
\* published.
StageInsertError(t) ==
    /\ "insert" \in faults
    /\ stage[t] = "insert"
    /\ stage' = [stage EXCEPT ![t] = "done"]
    /\ UNCHANGED <<redis, faults, status, archived, turn, task, outcome, log, liveState, handler, channel, sent, opened>>

\* Deviation: the event that could not be inserted is published.
DeltaInsertErrorPublished(t) ==
    /\ "insert" \in faults
    /\ task[t] = "delta_insert"
    /\ stage[t] = "done"
    /\ task' = [task EXCEPT ![t] = "delta_publish"]
    /\ UNCHANGED <<redis, faults, status, archived, turn, stage, outcome, log, liveState, handler, channel, sent, opened>>

DeltaInsertError(t) ==
    /\ "insert" \in faults
    /\ task[t] = "delta_insert"
    /\ stage[t] = "done"
    /\ task' = [task EXCEPT ![t] = "end_insert"]
    /\ UNCHANGED <<redis, faults, status, archived, turn, stage, outcome, log, liveState, handler, channel, sent, opened>>

\* An error of the terminal insert ends the task.  JobRepository::fail
\* fails the job unless it is completed or failed (so a waiting one, and a
\* job a reply has queued again); an "error" event is then emitted instead.
TerminalInsertError(t) ==
    /\ "insert" \in faults
    /\ task[t] = "end_insert"
    /\ status \notin {"completed", "failed"}
    /\ status'  = "failed"
    /\ outcome' = [outcome EXCEPT ![t] = "failed"]
    /\ UNCHANGED <<redis, faults, archived, turn, stage, task, log, liveState, handler, channel, sent, opened>>

TerminalEventLost(t) ==
    /\ "insert" \in faults
    /\ task[t] = "end_insert"
    /\ status \in {"completed", "failed"}
    /\ task' = [task EXCEPT ![t] = "done"]
    /\ UNCHANGED <<redis, faults, status, archived, turn, stage, outcome, log, liveState, handler, channel, sent, opened>>

\* emit_event, second part: the publication.
Publish(t) ==
    /\ task[t] \in {"delta_publish", "end_publish"}
    /\ channel' = Delivered(EventAt(task[t], t))
    /\ task'    = [task EXCEPT ![t] = Following(@)]
    /\ UNCHANGED <<redis, faults, status, archived, turn, stage, outcome, log, liveState, handler, sent, opened>>

\* Deviation: live_state holds the kind of the event.
SetLiveStateToKind(t) ==
    /\ task[t] = "end_live"
    /\ liveState' = KindOf(outcome[t])
    /\ task'      = [task EXCEPT ![t] = Following(@)]
    /\ UNCHANGED <<redis, faults, status, archived, turn, stage, outcome, log, handler, channel, sent, opened>>

\* emit_event, third part: only a terminal event sets live_state, and
\* nothing resets it when the next turn starts.
SetLiveState(t) ==
    /\ task[t] = "end_live"
    /\ liveState' = outcome[t]
    /\ task'      = [task EXCEPT ![t] = Following(@)]
    /\ UNCHANGED <<redis, faults, status, archived, turn, stage, outcome, log, handler, channel, sent, opened>>

\* The key expires after an hour, long after any handler has read it.
ExpireLiveState ==
    /\ liveState # "none"
    /\ handler \notin {"subscribe", "check"}
    /\ liveState' = "none"
    /\ UNCHANGED <<redis, faults, status, archived, turn, stage, task, outcome, log, handler, channel, sent, opened>>

\* Deviation: the error of a Redis call is propagated with ?.
RedisErrorPropagated(t) ==
    /\ "redis" \in faults
    /\ task[t] \in {"delta_publish", "end_publish", "end_live"}
    /\ task' = [task EXCEPT ![t] = "done"]
    /\ UNCHANGED <<redis, faults, status, archived, turn, stage, outcome, log, liveState, handler, channel, sent, opened>>

\* Redis errors are logged and the task goes on.
RedisError(t) ==
    /\ "redis" \in faults
    /\ task[t] \in {"delta_publish", "end_publish", "end_live"}
    /\ task' = [task EXCEPT ![t] = Following(@)]
    /\ UNCHANGED <<redis, faults, status, archived, turn, stage, outcome, log, liveState, handler, channel, sent, opened>>

StageRedisError(t) ==
    /\ "redis" \in faults
    /\ stage[t] = "publish"
    /\ stage' = [stage EXCEPT ![t] = "done"]
    /\ UNCHANGED <<redis, faults, status, archived, turn, task, outcome, log, liveState, handler, channel, sent, opened>>

\* JobRepository::respond: the reply, with its own durable status event, is
\* accepted as soon as the job waits, whatever the task of the turn still does.
Respond ==
    /\ ~archived
    /\ status = "waiting_for_user_input"
    /\ turn < MaxTurns
    /\ status' = "queued"
    /\ turn'   = turn + 1
    /\ stage'  = [stage EXCEPT ![turn + 1] = "insert"]
    /\ task'   = [task EXCEPT ![turn + 1] = "persist"]
    /\ log'    = Append(log, [turn |-> turn + 1, kind |-> "status"])
    /\ UNCHANGED <<redis, faults, archived, outcome, liveState, handler, channel, sent, opened>>

\* SessionRepository::archive_for_user, while the job runs.
ArchiveSession ==
    /\ "archive" \in faults
    /\ ~archived
    /\ archived' = TRUE
    /\ UNCHANGED <<redis, faults, status, turn, stage, task, outcome, log, liveState, handler, channel, sent, opened>>

-----------------------------------------------------------------------------
(* GET /chat/jobs/{id}/stream *)

\* Every read of the job joins its session and finds no job of an archived
\* one: the log then reads as empty, as it does when the read errs.
Readable == IF archived THEN <<>> ELSE log

\* A client without an open stream opens one: the status snapshot.
Open ==
    /\ handler = "closed"
    /\ ~archived
    /\ opened.turn < turn
    /\ handler' = IF status \in TerminalStatus THEN "replay"
                  ELSE IF redis THEN "subscribe" ELSE "poll"
    /\ opened'  = [turn |-> turn, at |-> task[turn]]
    /\ sent'    = <<>>
    /\ channel' = <<>>
    /\ UNCHANGED <<redis, faults, status, archived, turn, stage, task, outcome, log, liveState>>

Subscribe ==
    /\ handler = "subscribe"
    /\ handler' = "check"
    /\ UNCHANGED <<redis, faults, status, archived, turn, stage, task, outcome, log, liveState, channel, sent, opened>>

\* The pubsub connection or the subscribe call failed.
SubscribeError ==
    /\ "redis" \in faults
    /\ handler = "subscribe"
    /\ handler' = "poll"
    /\ UNCHANGED <<redis, faults, status, archived, turn, stage, task, outcome, log, liveState, channel, sent, opened>>

\* Deviation: the handler trusts the channel without looking again.
NoRecheck ==
    /\ handler = "check"
    /\ handler' = "live"
    /\ opened'  = [opened EXCEPT !.at = task[opened.turn]]
    /\ UNCHANGED <<redis, faults, status, archived, turn, stage, task, outcome, log, liveState, channel, sent>>

\* live_state_is_terminal: did the job finish during the subscribe race?
RecheckLiveState ==
    /\ handler = "check"
    /\ handler' = IF liveState \in TerminalStatus THEN "replay" ELSE "live"
    /\ opened'  = [opened EXCEPT !.at = task[opened.turn]]
    /\ UNCHANGED <<redis, faults, status, archived, turn, stage, task, outcome, log, liveState, channel, sent>>

\* live_state_is_terminal is false when Redis does not answer, and a live
\* stream ends when its subscription is lost.
RecheckError ==
    /\ "redis" \in faults
    /\ handler = "check"
    /\ handler' = "live"
    /\ opened'  = [opened EXCEPT !.at = task[opened.turn]]
    /\ UNCHANGED <<redis, faults, status, archived, turn, stage, task, outcome, log, liveState, channel, sent>>

SubscriptionLost ==
    /\ "redis" \in faults
    /\ handler = "live"
    /\ handler' = "closed"
    /\ UNCHANGED <<redis, faults, status, archived, turn, stage, task, outcome, log, liveState, channel, sent, opened>>

\* replay_events: the whole log, then the stream ends.
Replay ==
    /\ handler = "replay"
    /\ sent' = Readable
    /\ handler' = "closed"
    /\ UNCHANGED <<redis, faults, status, archived, turn, stage, task, outcome, log, liveState, channel, opened>>

\* Deviation: only a final event ends a live stream, or a polled one.
ForwardUntilFinal ==
    /\ handler = "live"
    /\ channel # <<>>
    /\ sent'    = Append(sent, Head(channel))
    /\ channel' = Tail(channel)
    /\ handler' = IF Head(channel).kind = "final" THEN "closed" ELSE "live"
    /\ UNCHANGED <<redis, faults, status, archived, turn, stage, task, outcome, log, liveState, opened>>

PollUntilFinal ==
    /\ handler = "poll"
    /\ Len(sent) < Len(Readable)
    /\ LET event == Readable[Len(sent) + 1]
       IN  /\ sent'    = Append(sent, event)
           /\ handler' = IF event.kind = "final" THEN "closed" ELSE "poll"
    /\ UNCHANGED <<redis, faults, status, archived, turn, stage, task, outcome, log, liveState, channel, opened>>

\* The stream ends after the first terminal event it forwards.
Forward ==
    /\ handler = "live"
    /\ channel # <<>>
    /\ sent'    = Append(sent, Head(channel))
    /\ channel' = Tail(channel)
    /\ handler' = IF Head(channel).kind \in TerminalKind THEN "closed" ELSE "live"
    /\ UNCHANGED <<redis, faults, status, archived, turn, stage, task, outcome, log, liveState, opened>>

\* durable_poll_stream: one more event of the log every 250 ms, or a
\* keepalive when there is none that it can read.
Poll ==
    /\ handler = "poll"
    /\ Len(sent) < Len(Readable)
    /\ LET event == Readable[Len(sent) + 1]
       IN  /\ sent'    = Append(sent, event)
           /\ handler' = IF event.kind \in TerminalKind THEN "closed" ELSE "poll"
    /\ UNCHANGED <<redis, faults, status, archived, turn, stage, task, outcome, log, liveState, channel, opened>>

-----------------------------------------------------------------------------
ForwarderStep(t) == InsertStage(t) \/ PublishStage(t)

PipelineStep(t) == PersistOutcome(t) \/ InsertEvent(t) \/ Publish(t) \/ SetLiveState(t)

TaskFault(t) ==
    \/ StageInsertError(t) \/ DeltaInsertError(t) \/ TerminalInsertError(t)
    \/ TerminalEventLost(t) \/ StageRedisError(t) \/ RedisError(t)

HandlerStep == Subscribe \/ RecheckLiveState \/ Replay \/ Forward \/ Poll

Next ==
    \/ \E t \in Turns : ForwarderStep(t) \/ PipelineStep(t) \/ TaskFault(t)
    \/ HandlerStep
    \/ SubscribeError \/ RecheckError \/ SubscriptionLost
    \/ ExpireLiveState
    \/ Open
    \/ Respond
    \/ ArchiveSession

\* The runtime polls the tasks and the streams; a client opens a stream and
\* answers when it likes.
Fairness ==
    /\ \A t \in Turns : WF_vars(ForwarderStep(t)) /\ WF_vars(PipelineStep(t))
    /\ WF_vars(HandlerStep)

Spec == Init /\ [][Next]_vars /\ Fairness

-----------------------------------------------------------------------------
(* Properties *)

Range(s) == {s[i] : i \in DOMAIN s}

\* Statuses, program counters and Redis keys have their types.
TypeOK ==
    /\ redis \in BOOLEAN
    /\ faults \subseteq Faults
    /\ status \in TerminalStatus \union {"queued"}
    /\ archived \in BOOLEAN
    /\ turn \in Turns
    /\ stage \in [Turns -> {"idle", "insert", "publish", "done"}]
    /\ task \in [Turns -> {"idle"} \union Range(Statements)]
    /\ liveState \in TerminalStatus \union {"none"}
    /\ handler \in {"closed", "subscribe", "check", "live", "poll", "replay"}
    /\ opened.turn \in 0..MaxTurns

\* "That ordering is what guarantees a client sees `stage` events before
\* `final`": on the wire, whichever path served the stream, nothing of a turn
\* follows the terminal event of that turn.
NothingAfterTerminal ==
    \A i, k \in DOMAIN sent :
        i < k /\ sent[i].turn = sent[k].turn => sent[i].kind \notin TerminalKind

\* Nothing that was committed is sent twice or out of the order in which the
\* turn's task emitted it: what a stream has sent of a turn is, in order, a
\* part of what the log holds of it.
SentInLogOrder ==
    \A i, k \in DOMAIN sent : i < k /\ sent[i].turn = sent[k].turn =>
        \E a, b \in DOMAIN log : a < b /\ log[a] = sent[i] /\ log[b] = sent[k]

\* "Redis failures are warned but not propagated, since PG is the source of
\* truth": whatever Redis does, a turn that is over has left the event of
\* its outcome in the log.
LogHoldsTheEnd ==
    "insert" \notin faults =>
        \A t \in Turns : task[t] = "done" =>
            [turn |-> t, kind |-> KindOf(outcome[t])] \in Range(log)

\* The stream still follows the channel and will never get another message.
Hung == /\ handler = "live"
        /\ channel = <<>>
        /\ \A t \in Turns : task[t] \in {"idle", "done"}

\* With a working Redis, subscribing before the re-check leaves exactly one
\* window: the terminal event was published and live_state was not yet set
\* when the handler looked.
HungOnlyInWindow ==
    faults \subseteq {"archive"} /\ Hung => opened.at = "end_live"

\* A stream whose subscription stood before the terminal event was published
\* receives it and ends.
InTimeStreamEnds ==
    (/\ faults \subseteq {"archive"}
     /\ handler = "live"
     /\ Position(opened.at) <= Position("end_publish")) ~> handler = "closed"

\* Polling the durable log ends too, whatever Redis does, as long as the
\* session is not archived under it: from then on the log reads as empty, and
\* the stream is kept alive for good, whatever the log holds.
PollingEnds ==
    ("insert" \notin faults /\ handler = "poll") ~> (handler = "closed" \/ archived)

\* "a client watching the stream is never left waiting forever".
StreamEnds == handler # "closed" ~> handler = "closed"

\* "With Redis disabled, chat still works end to end": a polled stream,
\* opened while a turn is being answered, ends with the terminal event of
\* that turn or of a later one, not with the one of the turn before.
EndsWithItsTurn ==
    ~redis /\ opened.at = "persist" /\ handler = "closed" =>
        \E i \in DOMAIN sent : sent[i].turn >= opened.turn /\ sent[i].kind \in TerminalKind
====
