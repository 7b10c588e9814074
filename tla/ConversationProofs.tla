-------------------------- MODULE ConversationProofs --------------------------
(***************************************************************************)
(* The chat jobs implement the safety part of Conversation, for every set  *)
(* of jobs, every bound on the turns and every set of faults, as long as   *)
(* no workflow pauses.  Each step of ChatJob is a step of Conversation or  *)
(* leaves what the client sees alone.                                      *)
(***************************************************************************)
EXTENDS ChatJobProofs

\* The refinement mapping, by name: the turn whose outcome is shown, and
\* whether some task of the job works.
Told == [j \in Jobs |-> IF status[j] \in {"waiting_for_user_input", "completed"}
                        THEN result[j] ELSE 0]
Owed == [j \in Jobs |-> \E t \in Turns : pc[j][t] \in Working]

\* The steps of Conversation, in terms of the mapping.
LEMMA MappedAccept ==
    ASSUME NEW j \in Jobs, status[j] \in {"none", "waiting_for_user_input"},
           ~Owed[j], turns[j] < MaxTurns,
           status' = [status EXCEPT ![j] = "queued"],
           turns'  = [turns EXCEPT ![j] = turns[j] + 1],
           Told'   = [Told EXCEPT ![j] = 0],
           Owed'   = [Owed EXCEPT ![j] = TRUE]
    PROVE  Promise!Next
  BY DEF Told, Owed, Promise!Accept, Promise!Next

\* A turn that ends settles what the conversation owes.
LEMMA MappedConclude ==
    ASSUME NEW j \in Jobs, Owed[j],
           NEW o \in {"waiting_for_user_input", "completed", "failed"},
           status' = [status EXCEPT ![j] = o],
           turns'  = turns,
           Told'   = [Told EXCEPT ![j] = IF o = "failed" THEN 0 ELSE turns[j]],
           Owed'   = [Owed EXCEPT ![j] = FALSE]
    PROVE  Promise!Next
<1>1. Promise!Conclude(j, o)
  BY DEF Told, Owed, Promise!Conclude
<1> QED BY <1>1 DEF Promise!Settle, Promise!Next

\* A failure recorded for a turn nobody runs is one of the promise.
LEMMA MappedFailure ==
    ASSUME NEW j \in Jobs, status[j] \in {"queued", "waiting_for_user_input"},
           status' = [status EXCEPT ![j] = "failed"],
           turns'  = turns,
           Told'   = [Told EXCEPT ![j] = 0],
           Owed'   = Owed
    PROVE  Promise!Next
  BY DEF Told, Owed, Promise!RecordFailure, Promise!Next

\* A crash loses the answers of the turns that were running.
LEMMA MappedLose ==
    ASSUME NEW S \in SUBSET Jobs, \A j \in S : Owed[j],
           status' = status, turns' = turns, Told' = Told,
           Owed' = [j \in Jobs |-> Owed[j] /\ j \notin S]
    PROVE  Promise!Next
<1>1. Promise!Lose(S)
  BY DEF Told, Owed, Promise!Lose
<1> QED BY <1>1 DEF Promise!Next

\* A step that leaves the statuses and the turns alone, starts and ends no
\* working task, and writes only results that are not shown, is not seen.
LEMMA Unseen ==
    ASSUME UNCHANGED <<status, turns>>,
           \A k \in Jobs : status[k] \in {"waiting_for_user_input", "completed"}
                              => result'[k] = result[k],
           \A k \in Jobs, s \in Turns : pc'[k][s] \in Working <=> pc[k][s] \in Working
    PROVE  UNCHANGED Promise!vars
<1>1. Told' = Told
  BY DEF Told
<1>2. Owed' = Owed
  BY DEF Owed
<1> QED BY <1>1, <1>2 DEF Told, Owed, Promise!vars

\* A step that only makes the task of a turn stop working gives up the
\* message of its job: no other task of the job works.
LEMMA GivenUp ==
    ASSUME TypeOK, TurnsInv, NEW j \in Jobs, NEW t \in Turns,
           status' = status, turns' = turns, result' = result,
           pc[j][t] \in Working,
           NEW p \in Closing \union Ended, pc' = [pc EXCEPT ![j][t] = p]
    PROVE  Promise!Next
<1>1. \A s \in Turns : s # t => pc[j][s] \notin Working
  BY DEF TurnsInv, TurnInv
<1>2. Owed[j] /\ Told' = Told
  BY DEF Owed, Told
<1>3. \A k \in Jobs, s \in Turns : pc'[k][s] \in Working <=> (pc[k][s] \in Working /\ k # j)
  BY <1>1 DEF TypeOK, Working, Closing, Ended
<1>4. Owed' = [k \in Jobs |-> Owed[k] /\ k \notin {j}]
  BY <1>3 DEF Owed
<1> DEFINE S == {j}
<1>5. S \in SUBSET Jobs /\ \A k \in S : Owed[k]
  BY <1>2
<1>6. Owed' = [k \in Jobs |-> Owed[k] /\ k \notin S] /\ Told' = Told
  BY <1>2, <1>4
<1> HIDE DEF S
<1> QED BY <1>5, <1>6, MappedLose

\* Every step of the jobs is a step of the conversation, or is not seen.
LEMMA StepKeepsPromise ==
    ~WorkflowPauses /\ TypeOK /\ TurnsInv /\ [Next]_vars => [Promise!Next]_(Promise!vars)
<1> SUFFICES ASSUME ~WorkflowPauses, TypeOK, TurnsInv, [Next]_vars
             PROVE  Promise!Next \/ UNCHANGED Promise!vars
  OBVIOUS
<1> USE ChatJobAssumption
<1> DEFINE Goal == Promise!Next \/ UNCHANGED Promise!vars
<1>0. CASE UNCHANGED vars
  BY <1>0, Unseen DEF vars
<1>1. CASE Client
  <2>a. ASSUME NEW j \in Jobs, status[j] \in {"none", "waiting_for_user_input"},
               turns[j] + 1 \in Turns, status' = [status EXCEPT ![j] = "queued"],
               turns' = [turns EXCEPT ![j] = turns[j] + 1], result' = result,
               pc' = [pc EXCEPT ![j][turns[j] + 1] = "accepted"]
        PROVE  Goal
    <3>0. \A s \in Turns : pc[j][s] \notin Working
      BY <2>a DEF TurnsInv, TurnInv
    <3>1. ~Owed[j] /\ turns[j] < MaxTurns
      BY <2>a, <3>0 DEF TypeOK, Owed, Turns
    <3>2. Told' = [Told EXCEPT ![j] = 0]
      BY <2>a DEF TypeOK, Told
    <3>3. \A k \in Jobs, s \in Turns :
             pc'[k][s] \in Working <=> (pc[k][s] \in Working \/ (k = j /\ s = turns[j] + 1))
      BY <2>a DEF TypeOK, Working
    <3>4. Owed' = [Owed EXCEPT ![j] = TRUE]
      BY <2>a, <3>3 DEF Owed
    <3> QED BY <2>a, <3>1, <3>2, <3>4, MappedAccept
  <2>1. ASSUME NEW j \in Jobs, Create(j) PROVE Goal
    <3>1. turns[j] + 1 = 1 /\ 1 \in Turns
      BY <2>1 DEF Create, TurnsInv, JobInv, Turns
    <3>2. /\ turns' = [turns EXCEPT ![j] = turns[j] + 1] /\ result' = result
          /\ pc' = [pc EXCEPT ![j][turns[j] + 1] = "accepted"]
          /\ status[j] = "none" /\ status' = [status EXCEPT ![j] = "queued"]
      BY <2>1, <3>1 DEF Create
    <3> QED BY <2>a, <3>1, <3>2
  <2>2. ASSUME NEW j \in Jobs, NEW c \in Turns \union {NoTurn}, Respond(j, c) PROVE Goal
    <3>1. turns[j] + 1 \in Turns
      BY <2>2 DEF Respond, TypeOK, Turns
    <3> QED BY <2>2, <2>a, <3>1 DEF Respond, Accepts
  <2>3. CASE ArchiveSession
    BY <2>3, Unseen DEF ArchiveSession
  <2> QED BY <1>1, <2>1, <2>2, <2>3 DEF Client, ResumeWorkflow
<1>2. ASSUME NEW j \in Jobs, NEW t \in Turns, TaskStep(j, t) PROVE Goal
  <2>w. /\ pc[j][t] \in Working =>
             status[j] \in {"queued", "failed"} /\ turns[j] = t /\ t # 0
        /\ \A s \in Turns : pc[j][t] \in Working /\ s # t => pc[j][s] \notin Working
    BY DEF TurnsInv, TurnInv, Turns
  <2>e. ASSUME pc[j][t] \in Working, NEW o \in {"waiting_for_user_input", "completed", "failed"},
               pc' = [pc EXCEPT ![j][t] = "emit"],
               status' = [status EXCEPT ![j] = o], turns' = turns,
               result'[j] = t \/ o = "failed",
               \A k \in Jobs : k # j => result'[k] = result[k]
        PROVE  Goal
    <3>1. Owed[j]
      BY <2>e DEF Owed
    <3>2. Told' = [Told EXCEPT ![j] = IF o = "failed" THEN 0 ELSE turns[j]]
      BY <2>e, <2>w DEF TypeOK, Told
    <3>3. \A k \in Jobs, s \in Turns :
             pc'[k][s] \in Working <=> (pc[k][s] \in Working /\ k # j)
      BY <2>e, <2>w DEF TypeOK, Working
    <3>4. Owed' = [Owed EXCEPT ![j] = FALSE]
      BY <3>3 DEF Owed
    <3> QED BY <2>e, <3>1, <3>2, <3>4, MappedConclude
  <2>1. CASE Spawn(j, t)
    <3>1. CASE archived
      BY <2>1, <3>1, GivenUp DEF Spawn, Working, Ended
    <3>2. CASE ~archived
      BY <2>1, <3>2, Unseen DEF TypeOK, Spawn, Working
    <3> QED BY <3>1, <3>2
  <2>2. CASE SaveMemoryConflict(j, t)
    BY <2>2, GivenUp DEF SaveMemoryConflict, Working, Closing
  <2>3. CASE SaveSessionConflict(j, t)
    BY <2>3, GivenUp DEF SaveSessionConflict, Working, Closing
  <2>4. CASE PersistTerminal(j, t)
    <3>1. local[j][t].outcome \in Outcomes
      BY DEF TypeOK, TaskLocal
    <3> DEFINE o == StatusOf(local[j][t].outcome)
    <3>2. o \in {"waiting_for_user_input", "completed", "failed"}
      BY <3>1 DEF Outcomes, StatusOf
    <3>3. /\ pc[j][t] \in Working /\ pc' = [pc EXCEPT ![j][t] = "emit"]
          /\ status' = [status EXCEPT ![j] = o] /\ turns' = turns
          /\ result'[j] = t /\ \A k \in Jobs : k # j => result'[k] = result[k]
      BY <2>4 DEF TypeOK, PersistTerminal, Working
    <3> HIDE DEF o
    <3> QED BY <2>e, <3>2, <3>3
  <2>5. CASE WaitForUserInput(j, t)
    <3>1. result[j] = t
      BY <2>5 DEF WaitForUserInput, TurnsInv, TurnInv
    <3> QED BY <2>5, <2>e, <3>1 DEF WaitForUserInput, Working
  <2>6. CASE StoreResult(j, t)
    BY <2>6, <2>w, Unseen DEF TypeOK, StoreResult, Working
  <2>7. CASE Fail(j, t)
    <3>1. status[j] \in {"queued", "waiting_for_user_input"}
      BY <2>7 DEF TypeOK, Statuses, Fail, MayFail, TurnsInv, JobInv, TurnInv, Turns
    <3>2. \A k \in Jobs, s \in Turns : pc'[k][s] \in Working <=> pc[k][s] \in Working
      BY <2>7 DEF TypeOK, Fail, Working
    <3>3. Owed' = Owed
      BY <3>2 DEF Owed
    <3>4. Told' = [Told EXCEPT ![j] = 0]
      BY <2>7 DEF TypeOK, Fail, Told
    <3> QED BY <2>7, <3>1, <3>3, <3>4, MappedFailure DEF Fail
  <2>8. ASSUME NEW p, pc' = [pc EXCEPT ![j][t] = p], p \in Working <=> pc[j][t] \in Working,
               status' = status, turns' = turns, result' = result
        PROVE  Goal
    <3>1. \A k \in Jobs, s \in Turns : pc'[k][s] \in Working <=> pc[k][s] \in Working
      BY <2>8 DEF TypeOK
    <3> QED BY <2>8, <3>1, Unseen
  <2>9. CASE LoadMemory(j, t)
    BY <2>8, <2>9 DEF LoadMemory, Working
  <2>10. ASSUME NEW o, NEW p, Route(j, t, o, p) \/ FinishWorkflow(j, t, o, p) PROVE Goal
    BY <2>8, <2>10 DEF Route, FinishWorkflow, Working
  <2>11. CASE InstallWorkflow(j, t)
    BY <2>8, <2>11 DEF InstallWorkflow, Working
  <2>12. ASSUME NEW p, ReadPausedClarification(j, t, p) PROVE Goal
    BY <2>8, <2>12 DEF ReadPausedClarification, Working
  <2>13. CASE SaveMemory(j, t)
    BY <2>8, <2>13 DEF SaveMemory, Working
  <2>14. CASE ReadSession(j, t)
    BY <2>8, <2>14 DEF ReadSession, Working
  <2>15. CASE SaveSession(j, t)
    BY <2>8, <2>15 DEF SaveSession, Working
  <2>16. CASE PersistQuestion(j, t)
    BY <2>8, <2>16 DEF PersistQuestion, Working
  <2>17. CASE EmitTerminal(j, t)
    BY <2>8, <2>17 DEF EmitTerminal, Working
  <2>18. CASE FailAfterTerminal(j, t)
    BY <2>8, <2>18 DEF FailAfterTerminal, Working
  <2>19. CASE EmitError(j, t)
    BY <2>8, <2>19 DEF EmitError, Working
  <2> QED
    BY <1>2, <2>1, <2>2, <2>3, <2>4, <2>5, <2>6, <2>7, <2>9, <2>10, <2>11, <2>12, <2>13,
       <2>14, <2>15, <2>16, <2>17, <2>18, <2>19 DEF TaskStep, PauseStale, PauseWorkflow
<1>3. CASE Fault
  <2>1. ASSUME NEW j \in Jobs, NEW t \in Turns, DropRequest(j, t) PROVE Goal
    BY <2>1, GivenUp DEF DropRequest, Working, Ended
  <2>2. ASSUME NEW j \in Jobs, NEW t \in Turns, PipelineError(j, t) PROVE Goal
    <3>1. CASE pc[j][t] \in Working
      BY <2>2, <3>1, GivenUp DEF PipelineError, Closing
    <3>2. CASE pc[j][t] \notin Working
      BY <2>2, <3>2, Unseen DEF TypeOK, PipelineError, Working
    <3> QED BY <3>1, <3>2
  <2>3. ASSUME NEW j \in Jobs, NEW t \in Turns, FailureUnrecorded(j, t) PROVE Goal
    BY <2>3, Unseen DEF TypeOK, FailureUnrecorded, Working
  <2>4. CASE Crash
    <3> DEFINE S == {j \in Jobs : Owed[j]}
    <3>1. \A j \in Jobs, t \in Turns : pc'[j][t] \notin Working
      BY <2>4 DEF Crash, Working
    <3>2. Owed' = [j \in Jobs |-> Owed[j] /\ j \notin S]
      BY <3>1 DEF Owed
    <3>3. status' = status /\ turns' = turns /\ Told' = Told
      BY <2>4 DEF Crash, Told
    <3>4. S \in SUBSET Jobs /\ \A j \in S : Owed[j]
      OBVIOUS
    <3> HIDE DEF S
    <3> QED BY <3>2, <3>3, <3>4, MappedLose
  <2> QED BY <1>3, <2>1, <2>2, <2>3, <2>4 DEF Fault
<1> QED BY <1>0, <1>1, <1>2, <1>3 DEF Next

\* The jobs implement the conversation: a message is taken only when none is
\* owed an outcome, each gets at most one, what is shown answers the last
\* message, and completed is final, whatever late steps of earlier tasks,
\* errors, lost requests and crashes come in between.
THEOREM ImplementsConversation == ASSUME ~WorkflowPauses PROVE Spec => Promise!Safety
<1>1. Init => Promise!Init
  BY DEF Init, Promise!Init, Working
<1> QED BY <1>1, TurnsInvariant, StepKeepsPromise, PTL DEF Spec, Promise!Safety
====
