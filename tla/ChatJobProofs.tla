---------------------------- MODULE ChatJobProofs ----------------------------
(***************************************************************************)
(* Proofs about ChatJob, for every set of jobs, every bound on the turns   *)
(* and every set of faults.                                                *)
(***************************************************************************)
EXTENDS ChatJob, TLAPS

\* The remembered jobs of a session stay a sequence of jobs.
LEMMA RememberType ==
    ASSUME NEW relevant \in Seq(Jobs), NEW j \in Jobs, NEW o \in Outcomes
    PROVE  Remember(relevant, j, o) \in Seq(Jobs)
<1> DEFINE n == IF Len(relevant) + 1 < MaxRelevant THEN Len(relevant) + 1 ELSE MaxRelevant
<1>1. <<j>> \o relevant \in Seq(Jobs)
  OBVIOUS
<1>2. n \in Nat /\ n <= Len(<<j>> \o relevant)
  BY ChatJobAssumption
<1>3. SubSeq(<<j>> \o relevant, 1, n) \in Seq(Jobs)
  BY <1>1, <1>2
<1> QED BY <1>3 DEF Remember

\* What the steps write into the rows and into the state of a task is again
\* a row, or the state of a task.
LEMMA WorkflowUpdate ==
    ASSUME NEW r \in WorkflowRow
    PROVE  /\ r.id \in 0..MaxTurns /\ r.revision \in Nat
           /\ [r EXCEPT !.revision = @ + 1] \in WorkflowRow
           /\ \A t \in Turns, b \in BOOLEAN :
                [id |-> t, revision |-> r.revision + 1, node |-> b] \in WorkflowRow
  BY ChatJobAssumption DEF WorkflowRow, Turns

\* A memory row that is saved is a memory row.
LEMMA MemoryUpdate ==
    ASSUME NEW r \in MemoryRow, NEW p \in 0..MaxTurns
    PROVE  /\ r.revision \in Nat /\ r.pending \in 0..MaxTurns /\ r.savedBy \in 0..MaxTurns
           /\ [r EXCEPT !.pending = p] \in MemoryRow
           /\ \A t \in Turns :
                [revision |-> r.revision + 1, pending |-> p, savedBy |-> t] \in MemoryRow
  BY ChatJobAssumption DEF MemoryRow, Turns

\* A session row that is saved is a session row.
LEMMA SessionUpdate ==
    ASSUME NEW r \in SessionRow, NEW q \in Seq(Jobs)
    PROVE  /\ r.revision \in Nat /\ r.relevant \in Seq(Jobs)
           /\ [revision |-> r.revision + 1, relevant |-> q] \in SessionRow
  BY DEF SessionRow

\* What a task notes down leaves its locals typed.
LEMMA LocalUpdate ==
    ASSUME NEW r \in TaskLocal, NEW n \in Nat, NEW b \in 0..MaxTurns,
           NEW p \in 0..MaxTurns, NEW o \in Outcomes, NEW q \in Seq(Jobs)
    PROVE  /\ r.pending \in 0..MaxTurns /\ r.outcome \in Outcomes /\ r.relevant \in Seq(Jobs)
           /\ [r EXCEPT !.revision = n, !.base = b, !.pending = p] \in TaskLocal
           /\ [r EXCEPT !.outcome = o, !.pending = p] \in TaskLocal
           /\ [r EXCEPT !.sessionRevision = n, !.relevant = q] \in TaskLocal
  BY ChatJobAssumption DEF TaskLocal

\* Type correctness of the initial state.
LEMMA InitTypeOK == Init => TypeOK
<1> SUFFICES ASSUME Init PROVE TypeOK
  OBVIOUS
<1>1. NoLocal \in TaskLocal
  BY ChatJobAssumption DEF NoLocal, NoTurn, Outcomes, TaskLocal
<1>2. /\ [id |-> NoTurn, revision |-> 0, node |-> FALSE] \in WorkflowRow
      /\ [revision |-> 0, pending |-> NoTurn, savedBy |-> NoTurn] \in MemoryRow
      /\ [revision |-> 0, relevant |-> <<>>] \in SessionRow
  BY ChatJobAssumption DEF NoTurn, WorkflowRow, MemoryRow, SessionRow
<1>3. /\ status \in [Jobs -> Statuses]
      /\ turns \in [Jobs -> 0..MaxTurns] /\ result \in [Jobs -> 0..MaxTurns]
  BY ChatJobAssumption DEF Init, Statuses, NoTurn
<1>4. answered \in [Jobs -> SUBSET Turns] /\ events \in [Jobs -> Seq(Event)]
  BY DEF Init
<1>5. pc \in [Jobs -> [Turns -> Places]] /\ local \in [Jobs -> [Turns -> TaskLocal]]
  BY <1>1 DEF Init, Places
<1> QED
  BY <1>2, <1>3, <1>4, <1>5 DEF Init, TypeOK

\* Type correctness is preserved by every step.
LEMMA NextTypeOK == TypeOK /\ [Next]_vars => TypeOK'
<1> SUFFICES ASSUME TypeOK, [Next]_vars PROVE TypeOK'
  OBVIOUS
<1> USE ChatJobAssumption
<1>0. CASE UNCHANGED vars
  BY <1>0 DEF TypeOK, vars
<1>1. ASSUME NEW j \in Jobs, Create(j) PROVE TypeOK'
  BY <1>1 DEF TypeOK, Create, Statuses, Places, Working, Turns
<1>2. ASSUME NEW j \in Jobs, NEW c \in Turns \union {NoTurn}, Respond(j, c) PROVE TypeOK'
  <2>1. turns[j] + 1 \in Turns
    BY <1>2 DEF TypeOK, Respond, Turns
  <2> QED BY <1>2, <2>1 DEF TypeOK, Respond, Statuses, Places, Working, Turns
<1>3. ASSUME NEW j \in Jobs, ResumeWorkflow(j) PROVE TypeOK'
  <2>1. workflow[j] \in WorkflowRow /\ memory[j] \in MemoryRow
    BY DEF TypeOK
  <2>2. [workflow[j] EXCEPT !.revision = @ + 1] \in WorkflowRow
    BY <2>1, WorkflowUpdate
  <2>3. [memory[j] EXCEPT !.pending = NoTurn] \in MemoryRow
    BY <2>1, MemoryUpdate DEF NoTurn
  <2>4. [kind |-> "workflow_resumed", turn |-> workflow[j].id] \in Event
    BY <2>1, WorkflowUpdate DEF Event
  <2> QED BY <1>3, <2>2, <2>3, <2>4 DEF TypeOK, ResumeWorkflow, Statuses
<1>4. CASE ArchiveSession
  BY <1>4 DEF TypeOK, ArchiveSession
<1>5. ASSUME NEW j \in Jobs, NEW t \in Turns, TaskStep(j, t) PROVE TypeOK'
  <2> t \in 0..MaxTurns /\ NoTurn \in 0..MaxTurns
    BY DEF Turns, NoTurn
  <2>r. /\ workflow[j] \in WorkflowRow /\ memory[j] \in MemoryRow
        /\ session \in SessionRow /\ local[j][t] \in TaskLocal
    BY DEF TypeOK
  <2>a. /\ local[j][t].pending \in 0..MaxTurns
        /\ local[j][t].outcome \in Outcomes
        /\ local[j][t].relevant \in Seq(Jobs)
    BY <2>r DEF TaskLocal
  <2>b. \A o \in Outcomes, p \in 0..MaxTurns :
          [local[j][t] EXCEPT !.outcome = o, !.pending = p] \in TaskLocal
    BY <2>r, <2>a, LocalUpdate
  <2>1. CASE Spawn(j, t)
    BY <2>1 DEF TypeOK, Spawn, Places, Working, Ended
  <2>2. CASE LoadMemory(j, t)
    <3>1. [local[j][t] EXCEPT !.revision = memory[j].revision, !.base = memory[j].savedBy,
                              !.pending = memory[j].pending] \in TaskLocal
      BY <2>r, <2>a, MemoryUpdate, LocalUpdate
    <3> QED BY <2>2, <3>1 DEF TypeOK, LoadMemory, Places, Working
  <2>3. ASSUME NEW o \in Outcomes, NEW p \in {NoTurn, t, local[j][t].pending},
               Route(j, t, o, p) \/ FinishWorkflow(j, t, o, p)
        PROVE TypeOK'
    <3>1. [local[j][t] EXCEPT !.outcome = o, !.pending = p] \in TaskLocal
      BY <2>a, <2>b
    <3>2. CASE Route(j, t, o, p)
      BY <3>1, <3>2 DEF TypeOK, Route, Places, Working
    <3>3. CASE FinishWorkflow(j, t, o, p)
      BY <3>1, <3>3 DEF TypeOK, FinishWorkflow, Places, Working
    <3> QED BY <2>3, <3>2, <3>3
  <2>4. CASE InstallWorkflow(j, t)
    <3>1. [id |-> t, revision |-> workflow[j].revision + 1, node |-> FALSE] \in WorkflowRow
      BY <2>r, WorkflowUpdate
    <3> QED BY <2>4, <3>1 DEF TypeOK, InstallWorkflow, Places, Working
  <2>5. CASE PauseWorkflow(j, t)
    <3>1. [id |-> t, revision |-> workflow[j].revision + 1, node |-> TRUE] \in WorkflowRow
      BY <2>r, WorkflowUpdate
    <3>2. [memory[j] EXCEPT !.pending = t] \in MemoryRow
      BY <2>r, MemoryUpdate
    <3>3. [kind |-> "workflow_paused", turn |-> t] \in Event
      BY DEF Event
    <3> QED
      BY <2>5, <3>1, <3>2, <3>3 DEF TypeOK, PauseWorkflow, Places, Working, Statuses
  <2>17. ASSUME NEW p \in {NoTurn, local[j][t].pending}, PauseStale(j, t, p)
        PROVE TypeOK'
    <3>1. [local[j][t] EXCEPT !.outcome = "failed", !.pending = p] \in TaskLocal
      BY <2>a, <2>b DEF Outcomes
    <3> QED BY <2>17, <3>1 DEF TypeOK, PauseStale, Places, Working
  <2>6. ASSUME NEW p \in {NoTurn, local[j][t].pending}, ReadPausedClarification(j, t, p)
        PROVE TypeOK'
    <3>1. memory[j].pending \in 0..MaxTurns
      BY <2>r, MemoryUpdate
    <3>2. {"failed", "waiting_for_user_input"} \subseteq Outcomes
      BY DEF Outcomes
    <3> QED
      BY <2>6, <3>1, <3>2, <2>a, <2>b DEF TypeOK, ReadPausedClarification, Places, Working
  <2>7. CASE SaveMemory(j, t)
    <3>1. [revision |-> memory[j].revision + 1, pending |-> local[j][t].pending,
           savedBy |-> t] \in MemoryRow
      BY <2>r, <2>a, MemoryUpdate
    <3> QED BY <2>7, <3>1 DEF TypeOK, SaveMemory, Places, Working
  <2>18. CASE SaveMemoryConflict(j, t)
    BY <2>18 DEF TypeOK, SaveMemoryConflict, Places, Closing
  <2>8. CASE ReadSession(j, t)
    <3>1. [local[j][t] EXCEPT !.sessionRevision = session.revision,
                              !.relevant = session.relevant] \in TaskLocal
      BY <2>r, <2>a, SessionUpdate, LocalUpdate
    <3> QED BY <2>8, <3>1 DEF TypeOK, ReadSession, Places, Working
  <2>9. CASE SaveSession(j, t)
    <3>1. Remember(local[j][t].relevant, j, local[j][t].outcome) \in Seq(Jobs)
      BY <2>a, RememberType
    <3>2. [revision |-> session.revision + 1,
           relevant |-> Remember(local[j][t].relevant, j, local[j][t].outcome)] \in SessionRow
      BY <2>r, <3>1, SessionUpdate
    <3> QED BY <2>9, <3>2 DEF TypeOK, SaveSession, Places, Working
  <2>19. CASE SaveSessionConflict(j, t)
    BY <2>19 DEF TypeOK, SaveSessionConflict, Places, Closing
  <2>10. CASE PersistTerminal(j, t)
    <3>1. StatusOf(local[j][t].outcome) \in Statuses
      BY <2>a DEF Outcomes, Statuses, StatusOf
    <3> QED BY <2>10, <3>1 DEF TypeOK, PersistTerminal, Places, Closing
  <2>11. CASE PersistQuestion(j, t)
    BY <2>11 DEF TypeOK, PersistQuestion, Places, Working
  <2>12. CASE StoreResult(j, t)
    BY <2>12 DEF TypeOK, StoreResult, Places, Working
  <2>13. CASE WaitForUserInput(j, t)
    BY <2>13 DEF TypeOK, WaitForUserInput, Places, Closing, Statuses
  <2>14. CASE EmitTerminal(j, t)
    <3>1. [kind |-> EventKind(local[j][t].outcome), turn |-> t] \in Event
      BY DEF Event, EventKind
    <3> QED BY <2>14, <3>1 DEF TypeOK, EmitTerminal, Places, Ended
  <2>15. CASE Fail(j, t)
    BY <2>15 DEF TypeOK, Fail, Places, Closing, Statuses
  <2>20. CASE FailAfterTerminal(j, t)
    BY <2>20 DEF TypeOK, FailAfterTerminal, Places, Ended
  <2>16. CASE EmitError(j, t)
    <3>1. [kind |-> "error", turn |-> t] \in Event
      BY DEF Event
    <3> QED BY <2>16, <3>1 DEF TypeOK, EmitError, Places, Ended
  <2> QED
    BY <1>5, <2>1, <2>2, <2>3, <2>4, <2>5, <2>6, <2>7, <2>8, <2>9, <2>10, <2>11,
       <2>12, <2>13, <2>14, <2>15, <2>16, <2>17, <2>18, <2>19, <2>20 DEF TaskStep
<1>6. ASSUME NEW j \in Jobs, NEW t \in Turns,
             DropRequest(j, t) \/ PipelineError(j, t) \/ FailureUnrecorded(j, t)
      PROVE TypeOK'
  <2>1. CASE DropRequest(j, t)
    BY <2>1 DEF TypeOK, DropRequest, Places, Ended
  <2>2. CASE PipelineError(j, t)
    BY <2>2 DEF TypeOK, PipelineError, Places, Closing
  <2>3. CASE FailureUnrecorded(j, t)
    BY <2>3 DEF TypeOK, FailureUnrecorded, Places, Ended
  <2> QED BY <1>6, <2>1, <2>2, <2>3
<1>7. CASE Crash
  <2>1. \A j \in Jobs, t \in Turns : pc'[j][t] \in Places
    BY <1>7 DEF TypeOK, Crash, Places, Ended
  <2>2. pc' \in [Jobs -> [Turns -> Places]]
    BY <1>7, <2>1 DEF Crash
  <2> QED BY <1>7, <2>2 DEF TypeOK, Crash
<1> QED
  BY <1>0, <1>1, <1>2, <1>3, <1>4, <1>5, <1>6, <1>7 DEF Next, Client, Fault

\* Every reachable state is well typed.
THEOREM TypeCorrect == Spec => []TypeOK
  BY InitTypeOK, NextTypeOK, PTL DEF Spec

-----------------------------------------------------------------------------
(* No task overwrites job memory it has not read *)

\* A task between its read and its save of the job memory holds a revision
\* that is not newer than the row's; if it is the row's, the task has read
\* what is saved there.
Reading == {"route", "execute", "paused", "save"}

ReadIsCurrent(j, t) ==
    pc[j][t] \in Reading =>
        /\ local[j][t].revision <= memory[j].revision
        /\ local[j][t].revision = memory[j].revision => local[j][t].base = memory[j].savedBy

MemoryInv == \A j \in Jobs, t \in Turns : ReadIsCurrent(j, t)

\* The steps that decide an outcome, or read the session, keep what the
\* task has read of the job memory.
LEMMA LocalKept ==
    ASSUME NEW r \in TaskLocal, NEW o, NEW p, NEW n, NEW q
    PROVE  /\ [r EXCEPT !.outcome = o, !.pending = p].revision = r.revision
           /\ [r EXCEPT !.outcome = o, !.pending = p].base = r.base
           /\ [r EXCEPT !.sessionRevision = n, !.relevant = q].revision = r.revision
           /\ [r EXCEPT !.sessionRevision = n, !.relevant = q].base = r.base
  BY DEF TaskLocal

\* The compare-and-swap discipline is inductive: only SaveMemory writes
\* savedBy, and it moves the revision past that of every other reader.
LEMMA NextMemoryInv == TypeOK /\ MemoryInv /\ [Next]_vars => MemoryInv'
<1> SUFFICES ASSUME TypeOK, MemoryInv, [Next]_vars,
                    NEW k \in Jobs, NEW s \in Turns
             PROVE  ReadIsCurrent(k, s)'
  BY DEF MemoryInv
<1> DEFINE Kept == /\ memory'[k].revision = memory[k].revision
                   /\ memory'[k].savedBy = memory[k].savedBy
                   /\ local'[k][s].revision = local[k][s].revision
                   /\ local'[k][s].base = local[k][s].base
                   /\ pc'[k][s] \in Reading => pc[k][s] \in Reading
<1>0. /\ ReadIsCurrent(k, s)
      /\ memory[k].revision \in Nat
      /\ local[k][s].revision \in Nat
  BY DEF MemoryInv, TypeOK, MemoryRow, TaskLocal
<1>k. Kept => ReadIsCurrent(k, s)'
  BY <1>0 DEF ReadIsCurrent
<1>1. CASE UNCHANGED vars
  BY <1>k, <1>1 DEF vars
<1>2. CASE Client
  <2>1. ASSUME NEW j \in Jobs, Create(j) PROVE Kept
    BY <2>1 DEF TypeOK, Reading, Create
  <2>2. ASSUME NEW j \in Jobs, ResumeWorkflow(j) PROVE Kept
    BY <2>2 DEF TypeOK, ResumeWorkflow, MemoryRow
  <2>3. ASSUME NEW j \in Jobs, NEW c \in Turns \union {NoTurn}, Respond(j, c) PROVE Kept
    BY <2>3 DEF TypeOK, Reading, Respond
  <2>4. CASE ArchiveSession
    BY <1>k, <2>4 DEF ArchiveSession
  <2> QED BY <1>k, <1>2, <2>1, <2>2, <2>3, <2>4 DEF Client
<1>3. ASSUME NEW j \in Jobs, NEW t \in Turns, TaskStep(j, t) PROVE ReadIsCurrent(k, s)'
  <2>r. local[j][t] \in TaskLocal /\ local[k][s] \in TaskLocal
    BY DEF TypeOK
  <2>1. CASE LoadMemory(j, t)
    <3>1. CASE k = j /\ s = t
      <4>1. local'[k][s] = [local[k][s] EXCEPT !.revision = memory[k].revision,
                                               !.base     = memory[k].savedBy,
                                               !.pending  = memory[k].pending]
        BY <2>1, <3>1 DEF TypeOK, LoadMemory
      <4>2. local'[k][s].revision = memory[k].revision /\ local'[k][s].base = memory[k].savedBy
        BY <4>1, <2>r DEF TaskLocal
      <4> QED BY <1>0, <2>1, <4>2 DEF ReadIsCurrent, LoadMemory
    <3>2. CASE ~(k = j /\ s = t)
      <4>1. local'[k][s] = local[k][s] /\ pc'[k][s] = pc[k][s] /\ memory' = memory
        BY <2>1, <3>2 DEF TypeOK, LoadMemory
      <4> QED BY <1>k, <4>1
    <3> QED BY <3>1, <3>2
  <2>2. ASSUME NEW o, NEW p, Route(j, t, o, p) PROVE Kept
    <3>1. local' = [local EXCEPT ![j][t] = [local[j][t] EXCEPT !.outcome = o, !.pending = p]]
      BY <2>2 DEF Route
    <3>2. local'[k][s] \in {local[k][s], [local[k][s] EXCEPT !.outcome = o, !.pending = p]}
      BY <3>1 DEF TypeOK
    <3>3. memory' = memory /\ pc'[k][s] \in Reading => pc[k][s] \in Reading
      BY <2>2 DEF TypeOK, Route, Reading
    <3> QED BY <2>2, <2>r, <3>2, <3>3, LocalKept DEF Route
  <2>3. ASSUME NEW o, NEW p, FinishWorkflow(j, t, o, p) PROVE Kept
    <3>1. local' = [local EXCEPT ![j][t] = [local[j][t] EXCEPT !.outcome = o, !.pending = p]]
      BY <2>3 DEF FinishWorkflow
    <3>2. local'[k][s] \in {local[k][s], [local[k][s] EXCEPT !.outcome = o, !.pending = p]}
      BY <3>1 DEF TypeOK
    <3>3. pc'[k][s] \in Reading => pc[k][s] \in Reading
      BY <2>3 DEF TypeOK, FinishWorkflow, Reading
    <3> QED BY <2>3, <2>r, <3>2, <3>3, LocalKept DEF FinishWorkflow
  <2>4. ASSUME NEW p, PauseStale(j, t, p) PROVE Kept
    <3>1. local' = [local EXCEPT ![j][t] = [local[j][t] EXCEPT !.outcome = "failed",
                                                               !.pending = p]]
      BY <2>4 DEF PauseStale
    <3>2. local'[k][s] \in {local[k][s],
                            [local[k][s] EXCEPT !.outcome = "failed", !.pending = p]}
      BY <3>1 DEF TypeOK
    <3>3. pc'[k][s] \in Reading => pc[k][s] \in Reading
      BY <2>4 DEF TypeOK, PauseStale, Reading
    <3> QED BY <2>4, <2>r, <3>2, <3>3, LocalKept DEF PauseStale
  <2>5. ASSUME NEW p, ReadPausedClarification(j, t, p) PROVE Kept
    <3>1. PICK o, q : local' = [local EXCEPT ![j][t] = [local[j][t] EXCEPT !.outcome = o,
                                                                           !.pending = q]]
      <4>1. CASE memory[j].pending # NoTurn
        BY <2>5, <4>1 DEF ReadPausedClarification
      <4>2. CASE memory[j].pending = NoTurn
        BY <2>5, <4>2 DEF ReadPausedClarification
      <4> QED BY <4>1, <4>2
    <3>2. local'[k][s] \in {local[k][s], [local[k][s] EXCEPT !.outcome = o, !.pending = q]}
      BY <3>1 DEF TypeOK
    <3>3. pc'[k][s] \in Reading => pc[k][s] \in Reading
      BY <2>5 DEF TypeOK, ReadPausedClarification, Reading
    <3> QED BY <2>5, <2>r, <3>2, <3>3, LocalKept DEF ReadPausedClarification
  <2>6. CASE ReadSession(j, t)
    <3>1. local' = [local EXCEPT ![j][t] =
                      [local[j][t] EXCEPT !.sessionRevision = session.revision,
                                          !.relevant = session.relevant]]
      BY <2>6 DEF ReadSession
    <3>2. local'[k][s] \in {local[k][s],
                            [local[k][s] EXCEPT !.sessionRevision = session.revision,
                                                !.relevant = session.relevant]}
      BY <3>1 DEF TypeOK
    <3>3. pc'[k][s] \in Reading => pc[k][s] \in Reading
      BY <2>6 DEF TypeOK, ReadSession, Reading
    <3>4. Kept
      BY <2>6, <2>r, <3>2, <3>3, LocalKept DEF ReadSession
    <3> QED BY <1>k, <3>4
  <2>7. CASE InstallWorkflow(j, t)
    BY <1>k, <2>7 DEF TypeOK, InstallWorkflow, Reading
  <2>8. CASE PauseWorkflow(j, t)
    <3>1. memory'[k].revision = memory[k].revision /\ memory'[k].savedBy = memory[k].savedBy
      BY <2>8 DEF TypeOK, PauseWorkflow, MemoryRow
    <3>2. local' = local /\ (pc'[k][s] \in Reading => pc[k][s] \in Reading)
      BY <2>8 DEF TypeOK, PauseWorkflow, Reading
    <3> QED BY <1>k, <3>1, <3>2
  <2>9. CASE SaveMemory(j, t)
    <3>1. CASE k # j
      BY <1>k, <2>9, <3>1 DEF TypeOK, SaveMemory
    <3>2. CASE k = j
      <4>1. memory'[k].revision = memory[k].revision + 1 /\ local' = local
        BY <2>9, <3>2 DEF TypeOK, SaveMemory
      <4>2. pc'[k][s] \in Reading => pc[k][s] \in Reading
        BY <2>9 DEF TypeOK, SaveMemory, Reading
      <4> QED BY <1>0, <4>1, <4>2 DEF ReadIsCurrent
    <3> QED BY <3>1, <3>2
  <2>10. CASE Spawn(j, t)
    BY <1>k, <2>10 DEF TypeOK, Reading, Spawn
  <2>11. CASE SaveMemoryConflict(j, t)
    BY <1>k, <2>11 DEF TypeOK, Reading, SaveMemoryConflict
  <2>12. CASE SaveSession(j, t)
    BY <1>k, <2>12 DEF TypeOK, Reading, SaveSession
  <2>13. CASE SaveSessionConflict(j, t)
    BY <1>k, <2>13 DEF TypeOK, Reading, SaveSessionConflict
  <2>14. CASE PersistTerminal(j, t)
    BY <1>k, <2>14 DEF TypeOK, Reading, PersistTerminal
  <2>15. CASE PersistQuestion(j, t)
    BY <1>k, <2>15 DEF TypeOK, Reading, PersistQuestion
  <2>16. CASE StoreResult(j, t)
    BY <1>k, <2>16 DEF TypeOK, Reading, StoreResult
  <2>17. CASE WaitForUserInput(j, t)
    BY <1>k, <2>17 DEF TypeOK, Reading, WaitForUserInput
  <2>18. CASE EmitTerminal(j, t)
    BY <1>k, <2>18 DEF TypeOK, Reading, EmitTerminal
  <2>19. CASE Fail(j, t)
    BY <1>k, <2>19 DEF TypeOK, Reading, Fail
  <2>20. CASE FailAfterTerminal(j, t)
    BY <1>k, <2>20 DEF TypeOK, Reading, FailAfterTerminal
  <2>21. CASE EmitError(j, t)
    BY <1>k, <2>21 DEF TypeOK, Reading, EmitError
  <2> QED
    BY <1>3, <1>k, <2>1, <2>2, <2>3, <2>4, <2>5, <2>6, <2>7, <2>8, <2>9, <2>10, <2>11,
       <2>12, <2>13, <2>14, <2>15, <2>16, <2>17, <2>18, <2>19, <2>20, <2>21 DEF TaskStep
<1>4. CASE Fault
  <2>1. memory' = memory /\ local' = local
    BY <1>4 DEF Fault, DropRequest, PipelineError, FailureUnrecorded, Crash
  <2>2. pc'[k][s] \in Reading => pc[k][s] \in Reading
    <3>1. ASSUME NEW j \in Jobs, NEW t \in Turns, DropRequest(j, t)
          PROVE  pc'[k][s] \in Reading => pc[k][s] \in Reading
      BY <3>1 DEF TypeOK, DropRequest, Reading
    <3>2. ASSUME NEW j \in Jobs, NEW t \in Turns, PipelineError(j, t)
          PROVE  pc'[k][s] \in Reading => pc[k][s] \in Reading
      BY <3>2 DEF TypeOK, PipelineError, Reading
    <3>3. ASSUME NEW j \in Jobs, NEW t \in Turns, FailureUnrecorded(j, t)
          PROVE  pc'[k][s] \in Reading => pc[k][s] \in Reading
      BY <3>3 DEF TypeOK, FailureUnrecorded, Reading
    <3>4. CASE Crash
      BY <3>4 DEF Reading, Crash
    <3> QED BY <1>4, <3>1, <3>2, <3>3, <3>4 DEF Fault
  <2> QED BY <1>k, <2>1, <2>2
<1> QED BY <1>1, <1>2, <1>3, <1>4 DEF Next

\* A step that changes who saved the memory of a job is a SaveMemory.
LEMMA OnlySaveMemorySaves ==
    ASSUME TypeOK, [Next]_vars, NEW k \in Jobs, NEW s \in Turns,
           memory'[k].savedBy = s, memory[k].savedBy # s
    PROVE  SaveMemory(k, s)
<1>1. CASE UNCHANGED vars
  BY <1>1 DEF vars
<1>2. CASE Client
  <2>1. ASSUME NEW j \in Jobs, ResumeWorkflow(j) PROVE memory'[k].savedBy = memory[k].savedBy
    BY <2>1 DEF TypeOK, MemoryRow, ResumeWorkflow
  <2>2. memory' = memory \/ \E j \in Jobs : ResumeWorkflow(j)
    BY <1>2 DEF Client, Create, Respond, ArchiveSession
  <2> QED BY <2>1, <2>2
<1>3. ASSUME NEW j \in Jobs, NEW t \in Turns, TaskStep(j, t) PROVE SaveMemory(k, s)
  <2>1. CASE SaveMemory(j, t)
    <3>1. j = k /\ t = s
      BY <2>1 DEF TypeOK, SaveMemory
    <3> QED BY <2>1, <3>1
  <2>2. CASE PauseWorkflow(j, t)
    BY <2>2 DEF TypeOK, MemoryRow, PauseWorkflow
  <2>3. CASE memory' = memory
    BY <2>3
  <2>4. SaveMemory(j, t) \/ PauseWorkflow(j, t) \/ memory' = memory
    BY <1>3 DEF TaskStep, Spawn, LoadMemory, Route, InstallWorkflow, FinishWorkflow, PauseStale,
                ReadPausedClarification, SaveMemoryConflict, ReadSession, SaveSession,
                SaveSessionConflict, PersistTerminal, PersistQuestion, StoreResult,
                WaitForUserInput, EmitTerminal, Fail, FailAfterTerminal, EmitError
  <2> QED BY <2>1, <2>2, <2>3, <2>4
<1>4. CASE Fault
  BY <1>4 DEF Fault, DropRequest, PipelineError, FailureUnrecorded, Crash
<1> QED BY <1>1, <1>2, <1>3, <1>4 DEF Next

\* Whatever tasks of a job overlap, pauses and faults included, the job
\* memory a task saves was computed from the one it replaces.
THEOREM MemoryNeverLost == Spec => NoLostMemory
<1>1. Init => MemoryInv
  BY DEF Init, MemoryInv, ReadIsCurrent, Reading
<1>2. TypeOK /\ MemoryInv /\ [Next]_vars =>
        [\A j \in Jobs : \A t \in Turns :
            memory'[j].savedBy = t /\ memory[j].savedBy # t
               => local[j][t].base = memory[j].savedBy]_vars
  <2> SUFFICES ASSUME TypeOK, MemoryInv, [Next]_vars, NEW j \in Jobs, NEW t \in Turns,
                      memory'[j].savedBy = t, memory[j].savedBy # t
               PROVE  local[j][t].base = memory[j].savedBy
    OBVIOUS
  <2>1. SaveMemory(j, t)
    BY OnlySaveMemorySaves
  <2> QED BY <2>1 DEF MemoryInv, ReadIsCurrent, Reading, SaveMemory
<1> QED BY <1>1, <1>2, TypeCorrect, NextMemoryInv, PTL DEF Spec, NoLostMemory

-----------------------------------------------------------------------------
(* One task of a job at a time, when no workflow pauses *)

\* The turns of a job start one after the other, and a task that works is
\* the one of the last turn; its job is neither waiting nor completed, and
\* what it has made durable so far is its own.
AfterSave == {"session", "session_save", "persist", "persist_result", "persist_wait"}

TurnInv(j, t) ==
    /\ pc[j][t] = "idle" <=> turns[j] < t
    /\ pc[j][t] \in Working =>
          /\ turns[j] = t
          /\ status[j] \in {"queued", "failed"}
    /\ pc[j][t] \in AfterSave => memory[j].savedBy = t
    /\ pc[j][t] \in {"persist_result", "persist_wait"} => t \in answered[j]
    /\ pc[j][t] = "persist_wait" => result[j] = t

JobInv(j) ==
    /\ status[j] = "none" <=> turns[j] = 0
    /\ status[j] \in {"waiting_for_user_input", "completed"} =>
          /\ result[j] = turns[j]
          /\ turns[j] \in answered[j]
          /\ memory[j].savedBy = turns[j]

TurnsInv == \A j \in Jobs : JobInv(j) /\ \A t \in Turns : TurnInv(j, t)

\* The invariant of the turns is inductive.  Respond needs the waiting
\* status to exclude a working task; the unguarded writes of
\* PersistTerminal and WaitForUserInput need the working task to be the
\* only one; and a late Fail of an earlier turn may flip the status of the
\* job to failed under the task that works.
LEMMA NextTurnsInv ==
    ~WorkflowPauses /\ TypeOK /\ TurnsInv /\ [Next]_vars => TurnsInv'
<1>0. 1 \in Turns
  BY ChatJobAssumption DEF Turns
<1> SUFFICES ASSUME ~WorkflowPauses, TypeOK, TurnsInv, [Next]_vars,
                    NEW k \in Jobs, NEW s \in Turns
             PROVE  JobInv(k)' /\ TurnInv(k, s)'
  BY <1>0 DEF TurnsInv
<1> DEFINE Same == /\ status'[k] = status[k] /\ turns'[k] = turns[k]
                   /\ result'[k] = result[k] /\ answered'[k] = answered[k]
                   /\ memory'[k].savedBy = memory[k].savedBy /\ pc'[k] = pc[k]
           Goal == JobInv(k)' /\ TurnInv(k, s)'
<1> USE ChatJobAssumption
<1>i. JobInv(k) /\ TurnInv(k, s)
  BY DEF TurnsInv
<1>n. turns[k] \in 0..MaxTurns /\ s \in 1..MaxTurns
  BY DEF TypeOK, Turns
<1>s. Same => Goal
  BY <1>i DEF JobInv, TurnInv
<1>1. CASE UNCHANGED vars
  BY <1>s, <1>1 DEF vars
<1>2. CASE Client
  <2>1. ASSUME NEW j \in Jobs, Create(j) PROVE Goal
    <3>1. CASE k # j
      BY <1>s, <2>1, <3>1 DEF TypeOK, Create
    <3>2. CASE k = j
      BY <1>i, <1>n, <2>1, <3>2 DEF TypeOK, Create, JobInv, TurnInv, Working, AfterSave, Turns
    <3> QED BY <3>1, <3>2
  <2>2. ASSUME NEW j \in Jobs, NEW c \in Turns \union {NoTurn}, Respond(j, c) PROVE Goal
    <3>1. CASE k # j
      BY <1>s, <2>2, <3>1 DEF TypeOK, Respond
    <3>2. CASE k = j
      BY <1>i, <1>n, <2>2, <3>2
         DEF TypeOK, Respond, Accepts, JobInv, TurnInv, Working, AfterSave, Turns
    <3> QED BY <3>1, <3>2
  <2>3. CASE ArchiveSession
    BY <1>s, <2>3 DEF ArchiveSession
  <2> QED BY <1>2, <2>1, <2>2, <2>3 DEF Client, ResumeWorkflow
<1>3. ASSUME NEW j \in Jobs, NEW t \in Turns, TaskStep(j, t) PROVE Goal
  <2>i. JobInv(j) /\ TurnInv(j, t) /\ TurnInv(j, s)
    BY DEF TurnsInv
  <2>n. turns[j] \in 0..MaxTurns /\ t \in 1..MaxTurns
    BY DEF TypeOK, Turns
  <2>o. local[j][t].outcome \in Outcomes
    BY DEF TypeOK, TaskLocal
  <2>1. CASE LoadMemory(j, t)
    <3>1. CASE k # j
      BY <1>s, <2>1, <3>1 DEF TypeOK, LoadMemory
    <3>2. CASE k = j
      BY <1>n, <2>i, <2>n, <2>o, <2>1, <3>2
         DEF TypeOK, LoadMemory, JobInv, TurnInv, Working, AfterSave, Outcomes
    <3> QED BY <3>1, <3>2
  <2>2. CASE InstallWorkflow(j, t)
    <3>1. CASE k # j
      BY <1>s, <2>2, <3>1 DEF TypeOK, InstallWorkflow
    <3>2. CASE k = j
      BY <1>n, <2>i, <2>n, <2>o, <2>2, <3>2
         DEF TypeOK, InstallWorkflow, JobInv, TurnInv, Working, AfterSave, Outcomes
    <3> QED BY <3>1, <3>2
  <2>3. CASE SaveMemory(j, t)
    <3>1. CASE k # j
      BY <1>s, <2>3, <3>1 DEF TypeOK, SaveMemory
    <3>2. CASE k = j
      BY <1>n, <2>i, <2>n, <2>o, <2>3, <3>2
         DEF TypeOK, SaveMemory, JobInv, TurnInv, Working, AfterSave, Outcomes
    <3> QED BY <3>1, <3>2
  <2>4. CASE SaveMemoryConflict(j, t)
    <3>1. CASE k # j
      BY <1>s, <2>4, <3>1 DEF TypeOK, SaveMemoryConflict
    <3>2. CASE k = j
      BY <1>n, <2>i, <2>n, <2>o, <2>4, <3>2
         DEF TypeOK, SaveMemoryConflict, JobInv, TurnInv, Working, AfterSave, Outcomes
    <3> QED BY <3>1, <3>2
  <2>5. CASE ReadSession(j, t)
    <3>1. CASE k # j
      BY <1>s, <2>5, <3>1 DEF TypeOK, ReadSession
    <3>2. CASE k = j
      BY <1>n, <2>i, <2>n, <2>o, <2>5, <3>2
         DEF TypeOK, ReadSession, JobInv, TurnInv, Working, AfterSave, Outcomes
    <3> QED BY <3>1, <3>2
  <2>6. CASE SaveSession(j, t)
    <3>1. CASE k # j
      BY <1>s, <2>6, <3>1 DEF TypeOK, SaveSession
    <3>2. CASE k = j
      BY <1>n, <2>i, <2>n, <2>o, <2>6, <3>2
         DEF TypeOK, SaveSession, JobInv, TurnInv, Working, AfterSave, Outcomes
    <3> QED BY <3>1, <3>2
  <2>7. CASE SaveSessionConflict(j, t)
    <3>1. CASE k # j
      BY <1>s, <2>7, <3>1 DEF TypeOK, SaveSessionConflict
    <3>2. CASE k = j
      BY <1>n, <2>i, <2>n, <2>o, <2>7, <3>2
         DEF TypeOK, SaveSessionConflict, JobInv, TurnInv, Working, AfterSave, Outcomes
    <3> QED BY <3>1, <3>2
  <2>8. CASE PersistTerminal(j, t)
    <3>1. CASE k # j
      BY <1>s, <2>8, <3>1 DEF TypeOK, PersistTerminal
    <3>2. CASE k = j
      BY <1>n, <2>i, <2>n, <2>o, <2>8, <3>2
         DEF TypeOK, PersistTerminal, JobInv, TurnInv, Working, AfterSave, Outcomes, StatusOf
    <3> QED BY <3>1, <3>2
  <2>9. CASE PersistQuestion(j, t)
    <3>1. CASE k # j
      BY <1>s, <2>9, <3>1 DEF TypeOK, PersistQuestion
    <3>2. CASE k = j
      BY <1>n, <2>i, <2>n, <2>o, <2>9, <3>2
         DEF TypeOK, PersistQuestion, JobInv, TurnInv, Working, AfterSave, Outcomes
    <3> QED BY <3>1, <3>2
  <2>10. CASE StoreResult(j, t)
    <3>1. CASE k # j
      BY <1>s, <2>10, <3>1 DEF TypeOK, StoreResult
    <3>2. CASE k = j
      BY <1>n, <2>i, <2>n, <2>o, <2>10, <3>2
         DEF TypeOK, StoreResult, JobInv, TurnInv, Working, AfterSave, Outcomes
    <3> QED BY <3>1, <3>2
  <2>11. CASE WaitForUserInput(j, t)
    <3>1. CASE k # j
      BY <1>s, <2>11, <3>1 DEF TypeOK, WaitForUserInput
    <3>2. CASE k = j
      BY <1>n, <2>i, <2>n, <2>o, <2>11, <3>2
         DEF TypeOK, WaitForUserInput, JobInv, TurnInv, Working, AfterSave, Outcomes
    <3> QED BY <3>1, <3>2
  <2>12. CASE EmitTerminal(j, t)
    <3>1. CASE k # j
      BY <1>s, <2>12, <3>1 DEF TypeOK, EmitTerminal
    <3>2. CASE k = j
      BY <1>n, <2>i, <2>n, <2>o, <2>12, <3>2
         DEF TypeOK, EmitTerminal, JobInv, TurnInv, Working, AfterSave, Outcomes
    <3> QED BY <3>1, <3>2
  <2>13. CASE Fail(j, t)
    <3>1. CASE k # j
      BY <1>s, <2>13, <3>1 DEF TypeOK, Fail
    <3>2. CASE k = j
      BY <1>n, <2>i, <2>n, <2>o, <2>13, <3>2
         DEF TypeOK, Fail, JobInv, TurnInv, Working, AfterSave, Outcomes, MayFail
    <3> QED BY <3>1, <3>2
  <2>14. CASE FailAfterTerminal(j, t)
    <3>1. CASE k # j
      BY <1>s, <2>14, <3>1 DEF TypeOK, FailAfterTerminal
    <3>2. CASE k = j
      BY <1>n, <2>i, <2>n, <2>o, <2>14, <3>2
         DEF TypeOK, FailAfterTerminal, JobInv, TurnInv, Working, AfterSave, Outcomes
    <3> QED BY <3>1, <3>2
  <2>15. CASE EmitError(j, t)
    <3>1. CASE k # j
      BY <1>s, <2>15, <3>1 DEF TypeOK, EmitError
    <3>2. CASE k = j
      BY <1>n, <2>i, <2>n, <2>o, <2>15, <3>2
         DEF TypeOK, EmitError, JobInv, TurnInv, Working, AfterSave, Outcomes
    <3> QED BY <3>1, <3>2
  <2>16. CASE Spawn(j, t)
    <3>1. CASE k # j
      BY <1>s, <2>16, <3>1 DEF TypeOK, Spawn
    <3>2. CASE k = j
      BY <1>n, <2>i, <2>n, <2>o, <2>16, <3>2
         DEF TypeOK, Spawn, JobInv, TurnInv, Working, AfterSave, Outcomes
    <3> QED BY <3>1, <3>2
  <2>17. ASSUME NEW o, NEW p, Route(j, t, o, p) PROVE Goal
    <3>1. CASE k # j
      BY <1>s, <2>17, <3>1 DEF TypeOK, Route
    <3>2. CASE k = j
      BY <1>n, <2>i, <2>n, <2>o, <2>17, <3>2
         DEF TypeOK, Route, JobInv, TurnInv, Working, AfterSave, Outcomes
    <3> QED BY <3>1, <3>2
  <2>18. ASSUME NEW o, NEW p, FinishWorkflow(j, t, o, p) PROVE Goal
    <3>1. CASE k # j
      BY <1>s, <2>18, <3>1 DEF TypeOK, FinishWorkflow
    <3>2. CASE k = j
      BY <1>n, <2>i, <2>n, <2>o, <2>18, <3>2
         DEF TypeOK, FinishWorkflow, JobInv, TurnInv, Working, AfterSave, Outcomes
    <3> QED BY <3>1, <3>2
  <2>19. ASSUME NEW p, ReadPausedClarification(j, t, p) PROVE Goal
    <3>1. CASE k # j
      BY <1>s, <2>19, <3>1 DEF TypeOK, ReadPausedClarification
    <3>2. CASE k = j
      BY <1>n, <2>i, <2>n, <2>o, <2>19, <3>2
         DEF TypeOK, ReadPausedClarification, JobInv, TurnInv, Working, AfterSave, Outcomes
    <3> QED BY <3>1, <3>2
  <2> QED
    BY <1>3, <2>1, <2>2, <2>3, <2>4, <2>5, <2>6, <2>7, <2>8, <2>9, <2>10, <2>11, <2>12, <2>13, <2>14, <2>15, <2>16, <2>17, <2>18, <2>19
       DEF TaskStep, PauseStale, PauseWorkflow
<1>4. CASE Fault
  <2>1. ASSUME NEW j \in Jobs, NEW t \in Turns, DropRequest(j, t) PROVE Goal
    BY <1>i, <1>n, <2>1 DEF TypeOK, DropRequest, JobInv, TurnInv, Working, AfterSave
  <2>2. ASSUME NEW j \in Jobs, NEW t \in Turns, PipelineError(j, t) PROVE Goal
    BY <1>i, <1>n, <2>2 DEF TypeOK, PipelineError, JobInv, TurnInv, Working, AfterSave
  <2>3. ASSUME NEW j \in Jobs, NEW t \in Turns, FailureUnrecorded(j, t) PROVE Goal
    BY <1>i, <1>n, <2>3 DEF TypeOK, FailureUnrecorded, JobInv, TurnInv, Working, AfterSave
  <2>4. CASE Crash
    <3>1. /\ status' = status /\ turns' = turns /\ result' = result
          /\ answered' = answered /\ memory' = memory
      BY <2>4 DEF Crash
    <3>2. pc'[k][s] = pc[k][s] \/ (pc'[k][s] = "dead" /\ pc[k][s] # "idle")
      BY <2>4 DEF Crash, Working, Closing
    <3> QED BY <1>i, <3>1, <3>2 DEF JobInv, TurnInv, Working, AfterSave
  <2> QED BY <1>4, <2>1, <2>2, <2>3, <2>4 DEF Fault
<1> QED BY <1>1, <1>2, <1>3, <1>4 DEF Next

\* Without pauses every reachable state satisfies the turn invariant.
LEMMA TurnsInvariant == ASSUME ~WorkflowPauses PROVE Spec => [](TypeOK /\ TurnsInv)
<1>1. Init => TurnsInv
  BY ChatJobAssumption
     DEF Init, TurnsInv, JobInv, TurnInv, Working, AfterSave, Turns, NoTurn
<1> QED BY <1>1, TypeCorrect, NextTurnsInv, PTL DEF Spec

\* At most one task of a job works, whatever errors, dropped requests,
\* crashes and late closing steps of earlier turns occur, as long as no
\* workflow pauses.
THEOREM OneTask == ASSUME ~WorkflowPauses PROVE Spec => []OneTaskPerJob
<1>1. TurnsInv => OneTaskPerJob
  BY DEF TurnsInv, TurnInv, OneTaskPerJob
<1> QED BY <1>1, TurnsInvariant, PTL

\* What a waiting or completed job shows is the outcome of its last turn.
THEOREM LastTurnOutcome == ASSUME ~WorkflowPauses PROVE Spec => []OutcomeIsOfLastTurn
<1>1. TurnsInv => OutcomeIsOfLastTurn
  BY DEF TurnsInv, JobInv, OutcomeIsOfLastTurn
<1> QED BY <1>1, TurnsInvariant, PTL

\* A completed job stays completed: its terminal writes carry no status
\* guard, and it is the turn discipline that makes them harmless.
THEOREM CompletedForever == ASSUME ~WorkflowPauses PROVE Spec => CompletedIsFinal
<1>1. ASSUME TypeOK, TurnsInv, [Next]_vars, NEW k \in Jobs, status[k] = "completed"
      PROVE  status'[k] = "completed"
  <2>1. CASE UNCHANGED vars
    BY <1>1, <2>1 DEF vars
  <2>2. CASE Client
    BY <1>1, <2>2 DEF TypeOK, Client, Create, Respond, Accepts, ResumeWorkflow, ArchiveSession
  <2>3. ASSUME NEW j \in Jobs, NEW t \in Turns, TaskStep(j, t) PROVE status'[k] = "completed"
    <3>1. pc[k][t] \notin Working
      BY <1>1 DEF TurnsInv, TurnInv
    <3>2. CASE PersistTerminal(j, t)
      BY <1>1, <3>1, <3>2 DEF TypeOK, PersistTerminal, Working
    <3>3. CASE WaitForUserInput(j, t)
      BY <1>1, <3>1, <3>3 DEF TypeOK, WaitForUserInput, Working
    <3>4. CASE PauseWorkflow(j, t)
      BY <1>1, <3>1, <3>4 DEF TypeOK, PauseWorkflow, Working
    <3>5. CASE Fail(j, t)
      BY <1>1, <3>5 DEF TypeOK, Fail, MayFail
    <3>6. \/ PersistTerminal(j, t) \/ WaitForUserInput(j, t) \/ PauseWorkflow(j, t)
          \/ Fail(j, t) \/ status' = status
      BY <2>3 DEF TaskStep, Spawn, LoadMemory, Route, InstallWorkflow, FinishWorkflow, PauseStale,
                  ReadPausedClarification, SaveMemory, SaveMemoryConflict, ReadSession,
                  SaveSession, SaveSessionConflict, PersistQuestion, StoreResult,
                  EmitTerminal, FailAfterTerminal, EmitError
    <3> QED BY <1>1, <3>2, <3>3, <3>4, <3>5, <3>6
  <2>4. CASE Fault
    BY <1>1, <2>4 DEF Fault, DropRequest, PipelineError, FailureUnrecorded, Crash
  <2> QED BY <1>1, <2>1, <2>2, <2>3, <2>4 DEF Next
<1>2. TypeOK /\ TurnsInv /\ [Next]_vars =>
        [\A j \in Jobs : status[j] = "completed" => status'[j] = "completed"]_vars
  BY <1>1
<1> QED BY <1>2, TurnsInvariant, PTL DEF Spec, CompletedIsFinal

-----------------------------------------------------------------------------
(* No completed job is lost from the session memory *)

\* j is among the relevant jobs, or there are as many of them as are kept.
Remembered(relevant, j) ==
    \/ Len(relevant) = MaxRelevant
    \/ \E i \in 1..Len(relevant) : relevant[i] = j

\* Where a task is once its answer is durable.
Answered == {"persist_result", "persist_wait"} \union Closing \union Ended

\* An answered job is remembered before its answer is durable, what a turn
\* decided does not change after that, and a task between its read and its
\* save of the session memory holds either an older revision or what is
\* saved there.
SessionInv(j, t) ==
    /\ status[j] = "none" => turns[j] = 0
    /\ pc[j][t] # "idle" => t <= turns[j]
    /\ t \in answered[j] => pc[j][t] \in Answered
    /\ local[j][t].outcome = "completed" /\ (t \in answered[j] \/ pc[j][t] = "persist")
         => Remembered(session.relevant, j)
    /\ pc[j][t] = "session_save" =>
         /\ local[j][t].sessionRevision <= session.revision
         /\ local[j][t].sessionRevision = session.revision
              => local[j][t].relevant = session.relevant

SessionsInv == /\ Len(session.relevant) <= MaxRelevant
               /\ \A j \in Jobs, t \in Turns : SessionInv(j, t)

\* jobs.insert(0, job); jobs.truncate(10): the list never outgrows its
\* bound, it remembers the job it is given, and it forgets a job only when
\* it is full.
LEMMA RememberKeeps ==
    ASSUME NEW q \in Seq(Jobs), Len(q) <= MaxRelevant, NEW j \in Jobs, NEW o \in Outcomes
    PROVE  /\ Len(Remember(q, j, o)) <= MaxRelevant
           /\ o = "completed" => Remembered(Remember(q, j, o), j)
           /\ \A k \in Jobs : Remembered(q, k) => Remembered(Remember(q, j, o), k)
<1>1. CASE o # "completed"
  BY <1>1 DEF Remember
<1>2. CASE o = "completed"
  <2> DEFINE n == IF Len(q) + 1 < MaxRelevant THEN Len(q) + 1 ELSE MaxRelevant
             r == SubSeq(<<j>> \o q, 1, n)
  <2>1. /\ <<j>> \o q \in Seq(Jobs) /\ Len(<<j>> \o q) = Len(q) + 1
        /\ (<<j>> \o q)[1] = j
        /\ \A i \in 1..Len(q) : (<<j>> \o q)[i + 1] = q[i]
    OBVIOUS
  <2>2. n \in Nat /\ 1 <= n /\ n <= Len(q) + 1 /\ n <= MaxRelevant
    BY ChatJobAssumption
  <2>3. Len(r) = n /\ \A i \in 1..n : r[i] = (<<j>> \o q)[i]
    BY <2>1, <2>2
  <2>4. Remember(q, j, o) = r
    BY <1>2 DEF Remember
  <2>5. Remembered(r, j)
    BY <2>1, <2>2, <2>3 DEF Remembered
  <2>6. ASSUME NEW k \in Jobs, Remembered(q, k) PROVE Remembered(r, k)
    <3>1. CASE n = MaxRelevant
      BY <2>3, <3>1 DEF Remembered
    <3>2. CASE n # MaxRelevant
      <4>1. n = Len(q) + 1 /\ Len(q) # MaxRelevant
        BY <3>2, ChatJobAssumption
      <4>2. PICK i \in 1..Len(q) : q[i] = k
        BY <2>6, <4>1 DEF Remembered
      <4>3. i + 1 \in 1..n /\ r[i + 1] = k
        BY <2>1, <2>3, <4>1, <4>2
      <4> QED BY <2>3, <4>3 DEF Remembered
    <3> QED BY <3>1, <3>2
  <2> QED BY <2>2, <2>3, <2>4, <2>5, <2>6
<1> QED BY <1>1, <1>2

\* The invariant is inductive: only SaveSession writes the session memory,
\* and it saves what its task read there, with its own job in front.
LEMMA NextSessionsInv == TypeOK /\ SessionsInv /\ [Next]_vars => SessionsInv'
<1> SUFFICES ASSUME TypeOK, SessionsInv, [Next]_vars PROVE SessionsInv'
  OBVIOUS
<1>a. ASSUME NEW j \in Jobs, NEW t \in Turns, SaveSession(j, t)
      PROVE  /\ session'.relevant = Remember(session.relevant, j, local[j][t].outcome)
             /\ session'.revision = session.revision + 1
             /\ session.revision \in Nat
             /\ Len(session'.relevant) <= MaxRelevant
             /\ local[j][t].outcome = "completed" => Remembered(session'.relevant, j)
             /\ \A k \in Jobs : Remembered(session.relevant, k) => Remembered(session'.relevant, k)
  <2>1. SessionInv(j, t) /\ Len(session.relevant) <= MaxRelevant
    BY DEF SessionsInv
  <2>2. local[j][t].relevant = session.relevant
    BY <1>a, <2>1 DEF SaveSession, SessionInv
  <2>3. local[j][t].outcome \in Outcomes /\ session.relevant \in Seq(Jobs) /\ session.revision \in Nat
    BY DEF TypeOK, TaskLocal, SessionRow
  <2>4. /\ session'.relevant = Remember(session.relevant, j, local[j][t].outcome)
        /\ session'.revision = session.revision + 1
    BY <1>a, <2>2 DEF SaveSession
  <2> QED BY <2>1, <2>3, <2>4, RememberKeeps
<1>b. session' = session \/ \E j \in Jobs, t \in Turns : SaveSession(j, t)
  <2>1. Client \/ Fault => session' = session
    BY DEF Client, Create, Respond, ResumeWorkflow, ArchiveSession, Fault, DropRequest,
           PipelineError, FailureUnrecorded, Crash
  <2>2. ASSUME NEW j \in Jobs, NEW t \in Turns, TaskStep(j, t)
        PROVE  session' = session \/ SaveSession(j, t)
    BY <2>2 DEF TaskStep, Spawn, LoadMemory, Route, InstallWorkflow, FinishWorkflow, PauseStale,
                PauseWorkflow, ReadPausedClarification, SaveMemory, SaveMemoryConflict,
                ReadSession, SaveSessionConflict, PersistTerminal, PersistQuestion, StoreResult,
                WaitForUserInput, EmitTerminal, Fail, FailAfterTerminal, EmitError
  <2> QED BY <2>1, <2>2 DEF Next, vars
<1>c. Len(session'.relevant) <= MaxRelevant
  BY <1>a, <1>b DEF SessionsInv
<1>d. ASSUME NEW k \in Jobs, NEW s \in Turns PROVE SessionInv(k, s)'
  <2> DEFINE Kept == /\ session' = session
                     /\ status'[k] = "none" => status[k] = "none"
                     /\ turns'[k] = turns[k] /\ answered'[k] = answered[k]
                     /\ pc'[k][s] # "idle" => pc[k][s] # "idle"
                     /\ s \in answered[k] => /\ pc'[k][s] \in Answered
                                             /\ local'[k][s].outcome = local[k][s].outcome
                     /\ pc'[k][s] \in {"persist", "session_save"} =>
                           pc'[k][s] = pc[k][s] /\ local'[k][s] = local[k][s]
             Goal == SessionInv(k, s)'
  <2>i. SessionInv(k, s)
    BY DEF SessionsInv
  <2>k. Kept => Goal
    <3> SUFFICES ASSUME Kept PROVE Goal
      OBVIOUS
    <3>1. /\ status'[k] = "none" => turns'[k] = 0
          /\ pc'[k][s] # "idle" => s <= turns'[k]
          /\ s \in answered'[k] => pc'[k][s] \in Answered
      BY <2>i DEF SessionInv
    <3>2. ASSUME local'[k][s].outcome = "completed",
                 s \in answered'[k] \/ pc'[k][s] = "persist"
          PROVE  Remembered(session.relevant, k)
      <4>1. CASE s \in answered'[k]
        BY <2>i, <3>2, <4>1 DEF SessionInv
      <4>2. CASE pc'[k][s] = "persist"
        BY <2>i, <3>2, <4>2 DEF SessionInv
      <4> QED BY <3>2, <4>1, <4>2
    <3>3. ASSUME pc'[k][s] = "session_save"
          PROVE  /\ local'[k][s].sessionRevision <= session'.revision
                 /\ local'[k][s].sessionRevision = session'.revision
                      => local'[k][s].relevant = session'.relevant
      BY <2>i, <3>3 DEF SessionInv
    <3> QED BY <3>1, <3>2, <3>3 DEF SessionInv
  <2>1. CASE UNCHANGED vars
    BY <2>i, <2>1 DEF vars, SessionInv
  <2>2. CASE Client
    <3>1. ASSUME NEW j \in Jobs, NEW n \in Turns, n > turns[j],
                 turns' = [turns EXCEPT ![j] = n], status' = [status EXCEPT ![j] = "queued"],
                 pc' = [pc EXCEPT ![j][n] = "accepted"],
                 UNCHANGED <<answered, session, local>>
          PROVE  Goal
      <4>1. CASE k = j
        <5>1. /\ turns'[k] = n /\ status'[k] = "queued"
              /\ pc'[k][s] = IF s = n THEN "accepted" ELSE pc[k][s]
          BY <3>1, <4>1 DEF TypeOK
        <5>2. s \in answered[k] => s # n
          BY <2>i, <3>1, <4>1 DEF SessionInv, TypeOK, Turns, Answered, Closing, Ended
        <5>3. turns[k] \in Int /\ s \in Int /\ n \in Int
          BY DEF TypeOK, Turns
        <5> QED BY <2>i, <3>1, <4>1, <5>1, <5>2, <5>3 DEF SessionInv
      <4>2. CASE k # j
        BY <2>i, <3>1, <4>2 DEF SessionInv, TypeOK
      <4> QED BY <4>1, <4>2
    <3>2. ASSUME NEW j \in Jobs, Create(j) PROVE Goal
      <4>1. 1 \in Turns
        BY ChatJobAssumption DEF Turns
      <4>2. SessionInv(j, 1)
        BY <4>1 DEF SessionsInv
      <4>3. 1 > turns[j]
        BY <3>2, <4>2 DEF Create, SessionInv
      <4> QED BY <3>1, <3>2, <4>1, <4>3 DEF Create
    <3>5. ASSUME NEW j \in Jobs, NEW c \in Turns \union {NoTurn}, Respond(j, c) PROVE Goal
      <4>1. turns[j] + 1 \in Turns /\ turns[j] + 1 > turns[j]
        BY <3>5, ChatJobAssumption DEF Respond, TypeOK, Turns
      <4> QED BY <3>1, <3>5, <4>1 DEF Respond
    <3>3. ASSUME NEW j \in Jobs, ResumeWorkflow(j) PROVE Kept
      BY <2>i, <3>3 DEF TypeOK, ResumeWorkflow, SessionInv, Answered, Closing, Ended
    <3>4. CASE ArchiveSession
      BY <2>i, <3>4 DEF ArchiveSession, SessionInv
    <3> QED BY <2>2, <2>k, <3>2, <3>3, <3>4, <3>5 DEF Client
  <2>3. ASSUME NEW j \in Jobs, NEW t \in Turns, TaskStep(j, t) PROVE Goal
    <3>1. CASE SaveSession(j, t)
      <4>1. UNCHANGED <<status, local, turns, answered>>
        BY <3>1 DEF SaveSession
      <4>2. CASE k = j /\ s = t
        <5>1. pc[k][s] = "session_save" /\ pc'[k][s] = "persist"
          BY <3>1, <4>2 DEF TypeOK, SaveSession
        <5>2. s \notin answered[k]
          BY <2>i, <5>1 DEF SessionInv, Answered, Closing, Ended
        <5> QED BY <1>a, <2>i, <3>1, <4>1, <4>2, <5>1, <5>2 DEF SessionInv
      <4>3. CASE ~(k = j /\ s = t)
        <5>1. pc'[k][s] = pc[k][s]
          BY <3>1, <4>3 DEF TypeOK, SaveSession
        <5>2. local[k][s].sessionRevision \in Nat
          BY DEF TypeOK, TaskLocal
        <5> QED BY <1>a, <2>i, <3>1, <4>1, <5>1, <5>2 DEF SessionInv
      <4> QED BY <4>2, <4>3
    <3>2. CASE ReadSession(j, t)
      <4>1. UNCHANGED <<status, session, turns, answered>>
        BY <3>2 DEF ReadSession
      <4>2. CASE k = j /\ s = t
        <5>1. local'[k][s] = [local[k][s] EXCEPT !.sessionRevision = session.revision,
                                                 !.relevant = session.relevant]
          BY <3>2, <4>2 DEF TypeOK, ReadSession
        <5>2. /\ local'[k][s].sessionRevision = session.revision
              /\ local'[k][s].relevant = session.relevant
              /\ session.revision \in Nat
          BY <5>1 DEF TypeOK, TaskLocal, SessionRow
        <5>3. pc[k][s] = "session" /\ pc'[k][s] = "session_save"
          BY <3>2, <4>2 DEF TypeOK, ReadSession
        <5>4. s \notin answered[k]
          BY <2>i, <5>3 DEF SessionInv, Answered, Closing, Ended
        <5> QED BY <2>i, <4>1, <5>2, <5>3, <5>4 DEF SessionInv
      <4>3. CASE ~(k = j /\ s = t)
        BY <2>i, <2>k, <3>2, <4>3 DEF TypeOK, ReadSession, SessionInv, Answered, Closing, Ended
      <4> QED BY <4>2, <4>3
    <3>3. CASE PersistTerminal(j, t) \/ PersistQuestion(j, t)
      <4>1. /\ local' = local /\ session' = session /\ turns' = turns
            /\ answered' = [answered EXCEPT ![j] = @ \union {t}]
            /\ pc[j][t] = "persist"
            /\ \/ pc' = [pc EXCEPT ![j][t] = "emit"]
               \/ pc' = [pc EXCEPT ![j][t] = "persist_result"]
        BY <3>3 DEF PersistTerminal, PersistQuestion
      <4>2. status'[k] # "none" \/ status'[k] = status[k]
        <5>1. local[j][t].outcome \in Outcomes
          BY DEF TypeOK, TaskLocal
        <5>2. StatusOf(local[j][t].outcome) # "none"
          BY <5>1 DEF StatusOf, Outcomes
        <5> QED BY <3>3, <5>2 DEF TypeOK, PersistTerminal, PersistQuestion
      <4>3. pc'[k][s] \notin {"persist", "session_save"} \/ pc'[k][s] = pc[k][s]
        <5>1. CASE pc' = [pc EXCEPT ![j][t] = "emit"]
          BY <5>1 DEF TypeOK
        <5>2. CASE pc' = [pc EXCEPT ![j][t] = "persist_result"]
          BY <5>2 DEF TypeOK
        <5> QED BY <4>1, <5>1, <5>2
      <4>4. CASE k = j /\ s = t
        BY <2>i, <4>1, <4>2, <4>4 DEF TypeOK, SessionInv, Answered, Closing
      <4>5. CASE ~(k = j /\ s = t)
        <5>1. pc'[k][s] = pc[k][s] /\ (s \in answered'[k] <=> s \in answered[k])
          BY <4>1, <4>5 DEF TypeOK
        <5> QED BY <2>i, <4>1, <4>2, <5>1 DEF SessionInv
      <4> QED BY <4>4, <4>5
    <3>4. CASE Spawn(j, t)
      BY <2>i, <2>k, <3>4 DEF TypeOK, Spawn, SessionInv, Answered, Closing, Ended
    <3>5. CASE LoadMemory(j, t)
      BY <2>i, <2>k, <3>5 DEF TypeOK, LoadMemory, SessionInv, Answered, Closing, Ended
    <3>6. CASE InstallWorkflow(j, t)
      BY <2>i, <2>k, <3>6 DEF TypeOK, InstallWorkflow, SessionInv, Answered, Closing, Ended
    <3>7. CASE PauseWorkflow(j, t)
      BY <2>i, <2>k, <3>7 DEF TypeOK, PauseWorkflow, SessionInv, Answered, Closing, Ended
    <3>8. CASE SaveMemory(j, t)
      BY <2>i, <2>k, <3>8 DEF TypeOK, SaveMemory, SessionInv, Answered, Closing, Ended
    <3>9. CASE SaveMemoryConflict(j, t)
      BY <2>i, <2>k, <3>9 DEF TypeOK, SaveMemoryConflict, SessionInv, Answered, Closing, Ended
    <3>10. CASE SaveSessionConflict(j, t)
      BY <2>i, <2>k, <3>10 DEF TypeOK, SaveSessionConflict, SessionInv, Answered, Closing, Ended
    <3>12. CASE StoreResult(j, t)
      BY <2>i, <2>k, <3>12 DEF TypeOK, StoreResult, SessionInv, Answered, Closing, Ended
    <3>13. CASE WaitForUserInput(j, t)
      BY <2>i, <2>k, <3>13 DEF TypeOK, WaitForUserInput, SessionInv, Answered, Closing, Ended
    <3>14. CASE EmitTerminal(j, t)
      BY <2>i, <2>k, <3>14 DEF TypeOK, EmitTerminal, SessionInv, Answered, Closing, Ended
    <3>15. CASE Fail(j, t)
      BY <2>i, <2>k, <3>15 DEF TypeOK, Fail, SessionInv, Answered, Closing, Ended
    <3>16. CASE FailAfterTerminal(j, t)
      BY <2>i, <2>k, <3>16 DEF TypeOK, FailAfterTerminal, SessionInv, Answered, Closing, Ended
    <3>17. CASE EmitError(j, t)
      BY <2>i, <2>k, <3>17 DEF TypeOK, EmitError, SessionInv, Answered, Closing, Ended
    <3>18. ASSUME NEW o, NEW p, Route(j, t, o, p) PROVE Kept
      BY <2>i, <3>18 DEF TypeOK, Route, SessionInv, Answered, Closing, Ended
    <3>19. ASSUME NEW o, NEW p, FinishWorkflow(j, t, o, p) PROVE Kept
      BY <2>i, <3>19 DEF TypeOK, FinishWorkflow, SessionInv, Answered, Closing, Ended
    <3>20. ASSUME NEW p, ReadPausedClarification(j, t, p) PROVE Kept
      BY <2>i, <3>20 DEF TypeOK, ReadPausedClarification, SessionInv, Answered, Closing, Ended
    <3>21. ASSUME NEW p, PauseStale(j, t, p) PROVE Kept
      BY <2>i, <3>21 DEF TypeOK, PauseStale, SessionInv, Answered, Closing, Ended
    <3> QED
      BY <2>3, <2>k, <3>1, <3>2, <3>3, <3>4, <3>5, <3>6, <3>7, <3>8, <3>9, <3>10,
         <3>12, <3>13, <3>14, <3>15, <3>16, <3>17, <3>18, <3>19, <3>20, <3>21 DEF TaskStep
  <2>4. CASE Fault
    <3>1. ASSUME NEW j \in Jobs, NEW t \in Turns, DropRequest(j, t) PROVE Kept
      BY <2>i, <3>1 DEF TypeOK, DropRequest, SessionInv, Answered, Closing, Ended
    <3>2. ASSUME NEW j \in Jobs, NEW t \in Turns, PipelineError(j, t) PROVE Kept
      BY <2>i, <3>2 DEF TypeOK, PipelineError, SessionInv, Answered, Working, Closing, Ended
    <3>3. ASSUME NEW j \in Jobs, NEW t \in Turns, FailureUnrecorded(j, t) PROVE Kept
      BY <2>i, <3>3 DEF TypeOK, FailureUnrecorded, SessionInv, Answered, Closing, Ended
    <3>4. CASE Crash
      <4>1. UNCHANGED <<status, session, local, turns, answered>>
        BY <3>4 DEF Crash
      <4>2. pc'[k][s] = pc[k][s] \/ (pc[k][s] # "idle" /\ pc'[k][s] = "dead")
        BY <3>4 DEF Crash, Working, Closing
      <4> QED BY <2>i, <2>k, <4>1, <4>2 DEF Answered, Ended, SessionInv
    <3> QED BY <2>4, <2>k, <3>1, <3>2, <3>3, <3>4 DEF Fault
  <2> QED BY <2>1, <2>2, <2>3, <2>4 DEF Next
<1> QED BY <1>c, <1>d DEF SessionsInv

\* The tasks of the jobs of a session never lose each other's update: a
\* completed job is remembered until newer ones push it out.
THEOREM CompletedRemembered == Spec => []CompletedJobsRemembered
<1>1. Init => SessionsInv
  BY ChatJobAssumption DEF Init, SessionsInv, SessionInv
<1>2. TypeOK /\ SessionsInv => CompletedJobsRemembered
  <2> SUFFICES ASSUME TypeOK, SessionsInv PROVE CompletedJobsRemembered
    OBVIOUS
  <2>1. \A j \in Jobs : \A t \in answered[j] : t \in Turns
    BY DEF TypeOK
  <2> QED BY <2>1 DEF SessionsInv, SessionInv, Remembered, CompletedJobsRemembered
<1> QED BY <1>1, <1>2, TypeCorrect, NextSessionsInv, PTL DEF Spec
====
