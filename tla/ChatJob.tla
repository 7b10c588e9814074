------------------------------- MODULE ChatJob -------------------------------
(***************************************************************************)
(* The life of the chat jobs of one session (crates/chat/src/job).         *)
(*                                                                         *)
(* A job is one row of chat_jobs.  Its first user message (POST            *)
(* /chat/jobs) and every accepted reply (POST /chat/jobs/{id}/responses)   *)
(* start a detached task that loads the job memory, runs the assistant,    *)
(* saves the job memory and the session memory by compare-and-swap,        *)
(* persists the outcome and emits the terminal event.  Nothing joins the   *)
(* task of one turn before the next one starts, so the tasks of a job, and *)
(* of the jobs of a session, interleave at every database statement.       *)
(*                                                                         *)
(* Data abstracted: a clarification is named by the turn whose task        *)
(* planned it (its id is fresh, or its revision is incremented, each time  *)
(* a task plans one); a workflow is named by the turn that compiled it;    *)
(* the content of messages, plans and answers is left out.                 *)
(***************************************************************************)
EXTENDS Integers, Sequences, FiniteSets

CONSTANTS
    Jobs,            \* the jobs of the session
    MaxTurns,        \* bound: user messages accepted by one job
    MaxMessages,     \* bound: user messages accepted by all the jobs
    MaxRelevant,     \* RelevantJobSummary entries a session keeps (10 in the code)
    WorkflowPauses,  \* does some compiled workflow hold a ClarificationInterrupt?
    Faults           \* the faults the environment may inject, see below

(***************************************************************************)
(* "error": any fallible step of a task returns Err, or panics;            *)
(* "fail":  JobRepository::fail or the insert of the error event errs;     *)
(* "drop":  an HTTP handler is cancelled, or errs, after its commit and    *)
(*          before tokio::spawn;                                           *)
(* "crash": the process stops; nothing restarts the tasks it carried;      *)
(* "archive": the client archives the session while its jobs run.          *)
(***************************************************************************)
FaultKinds == {"error", "fail", "drop", "crash", "archive"}

ASSUME ChatJobAssumption ==
    /\ MaxTurns \in Nat \ {0}
    /\ MaxMessages \in Nat
    /\ MaxRelevant \in Nat \ {0}
    /\ WorkflowPauses \in BOOLEAN
    /\ Faults \subseteq FaultKinds

Turns == 1..MaxTurns
NoTurn == 0

VARIABLES
    status,       \* chat_jobs.status; "none" before the row is inserted
    turns,        \* user messages accepted so far: creation and replies
    result,       \* chat_jobs.result_json, as the turn that stored it
    workflow,     \* chat_jobs.workflow_id (a turn), workflow_revision, current_node_id set?
    memory,       \* the assistant_job_memory row
    answered,     \* messages of role 'assistant', as the turns that inserted one
    events,       \* chat_job_events of terminal and workflow kinds, in insertion order
    archived,     \* chat_sessions.archived_at is set
    session,      \* the assistant_session_memory row
    pc,           \* pc[j][t]: where the task of turn t stands
    local         \* local[j][t]: what that task read and decided

vars == <<status, turns, result, workflow, memory, answered, events,
          archived, session, pc, local>>

Statuses == {"none", "queued", "waiting_for_user_input", "completed", "failed"}

\* How a turn ends (TerminalState): "completed" is Completed, "declined" is
\* BlockedByPolicy, Unsupported, OutOfDomain or ContextWindowExceeded.
Outcomes == {"waiting_for_user_input", "completed", "declined", "failed"}

\* The status its outcome is stored as: a declined turn completes the job too.
StatusOf(outcome) == IF outcome = "declined" THEN "completed" ELSE outcome

\* The steps of a task before its outcome is durable, in order ...
Working == {"accepted", "load", "route", "execute", "paused", "save",
            "session", "session_save", "persist", "persist_result", "persist_wait"}
\* ... and after it.
Closing == {"emit", "fail", "emit_error"}
Ended   == {"done", "dead"}
Places  == {"idle"} \union Working \union Closing \union Ended

\* Deviation: the event is named after the status.
EventKindIsStatus(o) == o

\* JobRunOutcome::from_terminal_state: the event that closes a turn.
EventKind(o) == CASE o = "waiting_for_user_input" -> "clarification"
                  [] o = "failed" -> "error"
                  [] OTHER -> "final"

NoLocal == [revision |-> 0, base |-> NoTurn, pending |-> NoTurn,
            outcome |-> "failed", sessionRevision |-> 0, relevant |-> <<>>]

Init ==
    /\ status   = [j \in Jobs |-> "none"]
    /\ turns    = [j \in Jobs |-> 0]
    /\ result   = [j \in Jobs |-> NoTurn]
    /\ workflow = [j \in Jobs |-> [id |-> NoTurn, revision |-> 0, node |-> FALSE]]
    /\ memory   = [j \in Jobs |-> [revision |-> 0, pending |-> NoTurn, savedBy |-> NoTurn]]
    /\ answered = [j \in Jobs |-> {}]
    /\ events   = [j \in Jobs |-> <<>>]
    /\ archived = FALSE
    /\ session  = [revision |-> 0, relevant |-> <<>>]
    /\ pc       = [j \in Jobs |-> [t \in Turns |-> "idle"]]
    /\ local    = [j \in Jobs |-> [t \in Turns |-> NoLocal]]

-----------------------------------------------------------------------------
(* The request handlers *)

MoreMessages ==
    Cardinality({x \in Jobs \X Turns : pc[x[1]][x[2]] # "idle"}) < MaxMessages

\* JobService::create up to the commit of JobRepository::create.
Create(j) ==
    /\ MoreMessages
    /\ status[j] = "none"
    /\ ~archived
    /\ status' = [status EXCEPT ![j] = "queued"]
    /\ turns'  = [turns EXCEPT ![j] = 1]
    /\ pc'     = [pc EXCEPT ![j][1] = "accepted"]
    /\ UNCHANGED <<result, workflow, memory, answered, events, session, local, archived>>

\* Deviation: the status of the job is not looked at.
AcceptsAnyStatus(j, clar) ==
    /\ ~archived
    /\ status[j] # "none"
    /\ clar # NoTurn => memory[j].pending = clar

\* JobRepository::respond accepts a reply: the job waits and, when the reply
\* is structured, it names the clarification that is pending (clar); a
\* legacy reply (clar = NoTurn) names none and is not compared.  Every other
\* reply is answered 404 or 409 and changes nothing.
Accepts(j, clar) ==
    /\ ~archived
    /\ status[j] = "waiting_for_user_input"
    /\ clar # NoTurn => memory[j].pending = clar

Respond(j, clar) ==
    /\ turns[j] < MaxTurns
    /\ MoreMessages
    /\ Accepts(j, clar)
    /\ status' = [status EXCEPT ![j] = "queued"]
    /\ turns'  = [turns EXCEPT ![j] = @ + 1]
    /\ pc'     = [pc EXCEPT ![j][turns[j] + 1] = "accepted"]
    /\ UNCHANGED <<result, workflow, memory, answered, events, session, local, archived>>

\* WorkflowStateRepository::resume, reached when the reply carries the
\* workflow identity: the handler answers 201 and spawns no task.
ResumeWorkflow(j) ==
    /\ WorkflowPauses
    /\ status[j] = "waiting_for_user_input"
    /\ workflow[j].id # NoTurn
    /\ workflow[j].node
    /\ memory[j].pending # NoTurn
    /\ status'   = [status EXCEPT ![j] = "queued"]
    /\ workflow' = [workflow EXCEPT ![j].revision = @ + 1]
    /\ memory'   = [memory EXCEPT ![j].pending = NoTurn]
    /\ events'   = [events EXCEPT ![j] = Append(@, [kind |-> "workflow_resumed",
                                                    turn |-> workflow[j].id])]
    /\ UNCHANGED <<turns, result, answered, session, pc, local, archived>>

\* The rest of JobService::create and JobService::respond: the job is read
\* back (the read joins the session and sees no job of an archived one, and
\* the handler panics on None) and the task is spawned.
Spawn(j, t) ==
    /\ pc[j][t] = "accepted"
    /\ pc' = [pc EXCEPT ![j][t] = IF archived THEN "dead" ELSE "load"]
    /\ UNCHANGED <<status, turns, result, workflow, memory, answered, events, session, local, archived>>

DropRequest(j, t) ==
    /\ "drop" \in Faults
    /\ pc[j][t] = "accepted"
    /\ pc' = [pc EXCEPT ![j][t] = "dead"]
    /\ UNCHANGED <<status, turns, result, workflow, memory, answered, events, session, local, archived>>

\* SessionRepository::archive_for_user.
ArchiveSession ==
    /\ "archive" \in Faults
    /\ ~archived
    /\ archived' = TRUE
    /\ UNCHANGED <<status, turns, result, workflow, memory, answered, events, session, pc, local>>

-----------------------------------------------------------------------------
(* The task of a turn: run_graph_skeleton_body *)

\* JobMemoryRepository::get, or create: the revision is the one the task
\* will expect when it saves, the pending clarification the one it resolves.
LoadMemory(j, t) ==
    /\ pc[j][t] = "load"
    /\ local' = [local EXCEPT ![j][t] = [@ EXCEPT !.revision = memory[j].revision,
                                                  !.base     = memory[j].savedBy,
                                                  !.pending  = memory[j].pending]]
    /\ pc'    = [pc EXCEPT ![j][t] = "route"]
    /\ UNCHANGED <<status, turns, result, workflow, memory, answered, events, session, archived>>

\* run_with_router ends without a workflow.  A waiting outcome asks a new
\* clarification (t), clears the pending one, or asks the same one again;
\* the others clear the pending clarification or leave it as it is.
Route(j, t, outcome, pending) ==
    /\ pc[j][t] = "route"
    /\ \/ pending = t /\ outcome = "waiting_for_user_input"
       \/ pending \in {NoTurn, local[j][t].pending}
    /\ local' = [local EXCEPT ![j][t] = [@ EXCEPT !.outcome = outcome, !.pending = pending]]
    /\ pc'    = [pc EXCEPT ![j][t] = "save"]
    /\ UNCHANGED <<status, turns, result, workflow, memory, answered, events, session, archived>>

\* WorkflowStateRepository::install_workflow, before the runner starts.
InstallWorkflow(j, t) ==
    /\ pc[j][t] = "route"
    /\ workflow' = [workflow EXCEPT ![j] = [id |-> t, revision |-> @.revision + 1,
                                            node |-> FALSE]]
    /\ pc'       = [pc EXCEPT ![j][t] = "execute"]
    /\ UNCHANGED <<status, turns, result, memory, answered, events, session, local, archived>>

\* The runner ends, or errs; a lookup that matched several clients asks.
\* Once a workflow is installed nothing declines the turn any more.
FinishWorkflow(j, t, outcome, pending) ==
    /\ pc[j][t] = "execute"
    /\ outcome # "declined"
    /\ \/ pending = t /\ outcome = "waiting_for_user_input"
       \/ pending \in {NoTurn, local[j][t].pending} /\ outcome # "waiting_for_user_input"
    /\ local' = [local EXCEPT ![j][t] = [@ EXCEPT !.outcome = outcome, !.pending = pending]]
    /\ pc'    = [pc EXCEPT ![j][t] = "save"]
    /\ UNCHANGED <<status, turns, result, workflow, memory, answered, events, session, archived>>

\* mark_workflow_paused, one transaction: it publishes the waiting status
\* and the clarification while the task still has everything to save.
PauseWorkflow(j, t) ==
    /\ WorkflowPauses
    /\ pc[j][t] = "execute"
    /\ workflow[j].id = t
    /\ status'   = [status EXCEPT ![j] = "waiting_for_user_input"]
    /\ workflow' = [workflow EXCEPT ![j] = [id |-> t, revision |-> @.revision + 1,
                                            node |-> TRUE]]
    /\ memory'   = [memory EXCEPT ![j].pending = t]
    /\ events'   = [events EXCEPT ![j] = Append(@, [kind |-> "workflow_paused", turn |-> t])]
    /\ pc'       = [pc EXCEPT ![j][t] = "paused"]
    /\ UNCHANGED <<turns, result, answered, session, local, archived>>

\* It is stale when another task has installed its own workflow: a failed
\* outcome.
PauseStale(j, t, pending) ==
    /\ WorkflowPauses
    /\ pc[j][t] = "execute"
    /\ workflow[j].id # t
    /\ local' = [local EXCEPT ![j][t] = [@ EXCEPT !.outcome = "failed", !.pending = pending]]
    /\ pc'    = [pc EXCEPT ![j][t] = "save"]
    /\ UNCHANGED <<status, turns, result, workflow, memory, answered, events, session, archived>>

\* workflow_response reads the clarification back; None is a failed outcome.
ReadPausedClarification(j, t, pending) ==
    /\ pc[j][t] = "paused"
    /\ local' = [local EXCEPT ![j][t] =
                    IF memory[j].pending # NoTurn
                    THEN [@ EXCEPT !.outcome = "waiting_for_user_input",
                                   !.pending = memory[j].pending]
                    ELSE [@ EXCEPT !.outcome = "failed", !.pending = pending]]
    /\ pc'    = [pc EXCEPT ![j][t] = "save"]
    /\ UNCHANGED <<status, turns, result, workflow, memory, answered, events, session, archived>>

\* Deviation: the UPDATE does not compare the revision.
SaveMemoryBlindly(j, t) ==
    /\ pc[j][t] = "save"
    /\ memory' = [memory EXCEPT ![j] = [revision |-> @.revision + 1,
                                        pending  |-> local[j][t].pending,
                                        savedBy  |-> t]]
    /\ pc'     = [pc EXCEPT ![j][t] = "session"]
    /\ UNCHANGED <<status, turns, result, workflow, answered, events, session, local, archived>>

\* JobMemoryRepository::save: compare-and-swap on the revision.
SaveMemory(j, t) ==
    /\ pc[j][t] = "save"
    /\ memory[j].revision = local[j][t].revision
    /\ memory' = [memory EXCEPT ![j] = [revision |-> @.revision + 1,
                                        pending  |-> local[j][t].pending,
                                        savedBy  |-> t]]
    /\ pc'     = [pc EXCEPT ![j][t] = "session"]
    /\ UNCHANGED <<status, turns, result, workflow, answered, events, session, local, archived>>

\* The revision moved: the save returns false and the task bails.
SaveMemoryConflict(j, t) ==
    /\ pc[j][t] = "save"
    /\ memory[j].revision # local[j][t].revision
    /\ pc' = [pc EXCEPT ![j][t] = "fail"]
    /\ UNCHANGED <<status, turns, result, workflow, memory, answered, events, session, local, archived>>

\* SessionMemoryRepository::update_after_job reads the session memory ...
ReadSession(j, t) ==
    /\ pc[j][t] = "session"
    /\ local' = [local EXCEPT ![j][t] = [@ EXCEPT !.sessionRevision = session.revision,
                                                  !.relevant        = session.relevant]]
    /\ pc'    = [pc EXCEPT ![j][t] = "session_save"]
    /\ UNCHANGED <<status, turns, result, workflow, memory, answered, events, session, archived>>

\* jobs.insert(0, job); jobs.truncate(10), when the turn answered the
\* request: a declined one completes its job and is not remembered.
Remember(relevant, j, outcome) ==
    IF outcome = "completed"
    THEN SubSeq(<<j>> \o relevant, 1,
                IF Len(relevant) + 1 < MaxRelevant THEN Len(relevant) + 1 ELSE MaxRelevant)
    ELSE relevant

\* Deviation: the UPDATE does not compare the revision.
SaveSessionBlindly(j, t) ==
    /\ pc[j][t] = "session_save"
    /\ session' = [revision |-> session.revision + 1,
                   relevant |-> Remember(local[j][t].relevant, j, local[j][t].outcome)]
    /\ pc'      = [pc EXCEPT ![j][t] = "persist"]
    /\ UNCHANGED <<status, turns, result, workflow, memory, answered, events, local, archived>>

\* ... and saves it, by compare-and-swap on its revision: the task of
\* another job of the session may have saved in between.
SaveSession(j, t) ==
    /\ pc[j][t] = "session_save"
    /\ session.revision = local[j][t].sessionRevision
    /\ session' = [revision |-> session.revision + 1,
                   relevant |-> Remember(local[j][t].relevant, j, local[j][t].outcome)]
    /\ pc'      = [pc EXCEPT ![j][t] = "persist"]
    /\ UNCHANGED <<status, turns, result, workflow, memory, answered, events, local, archived>>

SaveSessionConflict(j, t) ==
    /\ pc[j][t] = "session_save"
    /\ session.revision # local[j][t].sessionRevision
    /\ pc' = [pc EXCEPT ![j][t] = "fail"]
    /\ UNCHANGED <<status, turns, result, workflow, memory, answered, events, session, local, archived>>

\* persist_assistant_response_and_terminal_state: one transaction, whose
\* UPDATE does not look at the status it overwrites.
PersistTerminal(j, t) ==
    /\ pc[j][t] = "persist"
    /\ local[j][t].outcome # "waiting_for_user_input"
    /\ answered' = [answered EXCEPT ![j] = @ \union {t}]
    /\ status'   = [status EXCEPT ![j] = StatusOf(local[j][t].outcome)]
    /\ result'   = [result EXCEPT ![j] = t]
    /\ pc'       = [pc EXCEPT ![j][t] = "emit"]
    /\ UNCHANGED <<turns, workflow, memory, events, session, local, archived>>

\* Deviation: the job waits before its result is stored.
PersistQuestionOnly(j, t) ==
    /\ pc[j][t] = "persist"
    /\ local[j][t].outcome = "waiting_for_user_input"
    /\ answered' = [answered EXCEPT ![j] = @ \union {t}]
    /\ pc'       = [pc EXCEPT ![j][t] = "persist_wait"]
    /\ UNCHANGED <<status, turns, result, workflow, memory, events, session, local, archived>>

\* A waiting outcome is persisted by three separate statements.
PersistQuestion(j, t) ==
    /\ pc[j][t] = "persist"
    /\ local[j][t].outcome = "waiting_for_user_input"
    /\ answered' = [answered EXCEPT ![j] = @ \union {t}]
    /\ pc'       = [pc EXCEPT ![j][t] = "persist_result"]
    /\ UNCHANGED <<status, turns, result, workflow, memory, events, session, local, archived>>

StoreResult(j, t) ==
    /\ pc[j][t] = "persist_result"
    /\ result' = [result EXCEPT ![j] = t]
    /\ pc'     = [pc EXCEPT ![j][t] = "persist_wait"]
    /\ UNCHANGED <<status, turns, workflow, memory, answered, events, session, local, archived>>

WaitForUserInput(j, t) ==
    /\ pc[j][t] = "persist_wait"
    /\ status' = [status EXCEPT ![j] = "waiting_for_user_input"]
    /\ pc'     = [pc EXCEPT ![j][t] = "emit"]
    /\ UNCHANGED <<turns, result, workflow, memory, answered, events, session, local, archived>>

\* The insert of the terminal event, after every stage and delta event.
EmitTerminal(j, t) ==
    /\ pc[j][t] = "emit"
    /\ events' = [events EXCEPT ![j] = Append(@, [kind |-> EventKind(local[j][t].outcome),
                                                  turn |-> t])]
    /\ pc'     = [pc EXCEPT ![j][t] = "done"]
    /\ UNCHANGED <<status, turns, result, workflow, memory, answered, session, local, archived>>

\* Any step of the pipeline returns Err or panics, the insert of the
\* terminal event included: run_graph_skeleton_recording_failure takes over.
PipelineError(j, t) ==
    /\ "error" \in Faults
    /\ pc[j][t] \in (Working \ {"accepted"}) \union {"emit"}
    /\ pc' = [pc EXCEPT ![j][t] = "fail"]
    /\ UNCHANGED <<status, turns, result, workflow, memory, answered, events, session, local, archived>>

\* Deviation: the UPDATE of JobRepository::fail has no status guard.
MayAlwaysFail(s) == TRUE

\* JobRepository::fail leaves a completed or failed job alone, and then no
\* error event is emitted.
MayFail(s) == s \notin {"completed", "failed"}

Fail(j, t) ==
    /\ pc[j][t] = "fail"
    /\ MayFail(status[j])
    /\ status' = [status EXCEPT ![j] = "failed"]
    /\ pc'     = [pc EXCEPT ![j][t] = "emit_error"]
    /\ UNCHANGED <<turns, result, workflow, memory, answered, events, session, local, archived>>

FailAfterTerminal(j, t) ==
    /\ pc[j][t] = "fail"
    /\ ~MayFail(status[j])
    /\ pc' = [pc EXCEPT ![j][t] = "done"]
    /\ UNCHANGED <<status, turns, result, workflow, memory, answered, events, session, local, archived>>

EmitError(j, t) ==
    /\ pc[j][t] = "emit_error"
    /\ events' = [events EXCEPT ![j] = Append(@, [kind |-> "error", turn |-> t])]
    /\ pc'     = [pc EXCEPT ![j][t] = "done"]
    /\ UNCHANGED <<status, turns, result, workflow, memory, answered, session, local, archived>>

\* An error while recording the failure is logged and swallowed.
FailureUnrecorded(j, t) ==
    /\ "fail" \in Faults
    /\ pc[j][t] \in {"fail", "emit_error"}
    /\ pc' = [pc EXCEPT ![j][t] = "dead"]
    /\ UNCHANGED <<status, turns, result, workflow, memory, answered, events, session, local, archived>>

\* The process stops.  Rows survive, tasks do not, and no code looks for
\* queued jobs when the process starts again.
Crash ==
    /\ "crash" \in Faults
    /\ \E j \in Jobs : \E t \in Turns : pc[j][t] \in Working \union Closing
    /\ pc' = [j \in Jobs |-> [t \in Turns |->
                IF pc[j][t] \in Working \union Closing THEN "dead" ELSE pc[j][t]]]
    /\ UNCHANGED <<status, turns, result, workflow, memory, answered, events, session, local, archived>>

-----------------------------------------------------------------------------
\* The steps the scheduler takes for a task that was accepted.
TaskStep(j, t) ==
    \/ Spawn(j, t)
    \/ LoadMemory(j, t)
    \/ \E o \in Outcomes, p \in {NoTurn, t, local[j][t].pending} : Route(j, t, o, p)
    \/ InstallWorkflow(j, t)
    \/ \E o \in Outcomes, p \in {NoTurn, t, local[j][t].pending} : FinishWorkflow(j, t, o, p)
    \/ \E p \in {NoTurn, local[j][t].pending} :
          PauseStale(j, t, p) \/ ReadPausedClarification(j, t, p)
    \/ PauseWorkflow(j, t)
    \/ SaveMemory(j, t)
    \/ SaveMemoryConflict(j, t)
    \/ ReadSession(j, t)
    \/ SaveSession(j, t)
    \/ SaveSessionConflict(j, t)
    \/ PersistTerminal(j, t)
    \/ PersistQuestion(j, t)
    \/ StoreResult(j, t)
    \/ WaitForUserInput(j, t)
    \/ EmitTerminal(j, t)
    \/ Fail(j, t)
    \/ FailAfterTerminal(j, t)
    \/ EmitError(j, t)

Client ==
    \/ \E j \in Jobs : Create(j) \/ ResumeWorkflow(j)
    \/ \E j \in Jobs, clar \in Turns \union {NoTurn} : Respond(j, clar)
    \/ ArchiveSession

Fault ==
    \/ \E j \in Jobs, t \in Turns :
          DropRequest(j, t) \/ PipelineError(j, t) \/ FailureUnrecorded(j, t)
    \/ Crash

Next ==
    \/ Client
    \/ \E j \in Jobs, t \in Turns : TaskStep(j, t)
    \/ Fault

\* tokio polls every spawned task until it ends; clients and faults are free.
Fairness == \A j \in Jobs, t \in Turns : WF_vars(TaskStep(j, t))

Spec == Init /\ [][Next]_vars

FairSpec == Spec /\ Fairness

-----------------------------------------------------------------------------
(* Properties *)

WorkflowRow == [id : 0..MaxTurns, revision : Nat, node : BOOLEAN]
MemoryRow   == [revision : Nat, pending : 0..MaxTurns, savedBy : 0..MaxTurns]
Event       == [kind : {"clarification", "final", "error", "workflow_paused",
                        "workflow_resumed"},
                turn : 0..MaxTurns]
SessionRow  == [revision : Nat, relevant : Seq(Jobs)]
TaskLocal   == [revision : Nat, base : 0..MaxTurns, pending : 0..MaxTurns,
                outcome : Outcomes, sessionRevision : Nat, relevant : Seq(Jobs)]

\* Every column of the rows and every place of a task has its type.
TypeOK ==
    /\ status   \in [Jobs -> Statuses]
    /\ turns    \in [Jobs -> 0..MaxTurns]
    /\ result   \in [Jobs -> 0..MaxTurns]
    /\ workflow \in [Jobs -> WorkflowRow]
    /\ memory   \in [Jobs -> MemoryRow]
    /\ answered \in [Jobs -> SUBSET Turns]
    /\ events   \in [Jobs -> Seq(Event)]
    /\ archived \in BOOLEAN
    /\ session  \in SessionRow
    /\ pc       \in [Jobs -> [Turns -> Places]]
    /\ local    \in [Jobs -> [Turns -> TaskLocal]]

\* "stale and concurrent responses never execute twice": at most one task
\* of a job is between the acceptance of its message and the statement that
\* makes its outcome durable, however the closing steps of earlier turns,
\* errors and crashes interleave with it.
OneTaskPerJob ==
    \A j \in Jobs : \A s, t \in Turns :
        pc[j][s] \in Working /\ pc[j][t] \in Working => s = t

\* What GET /chat/jobs/{id} shows of a job that waits or has completed is
\* the outcome of its last turn: the stored result, the assistant message
\* and the saved memory (with the clarification a reply is compared with)
\* all come from that turn.
OutcomeIsOfLastTurn ==
    \A j \in Jobs : status[j] \in {"waiting_for_user_input", "completed"} =>
        /\ result[j] = turns[j]
        /\ turns[j] \in answered[j]
        /\ memory[j].savedBy = turns[j]

\* I1: a job whose answer is durable is never un-completed, neither by a
\* late failure of its own task nor by a task of an earlier turn.
CompletedIsFinal ==
    [][\A j \in Jobs : status[j] = "completed" => status'[j] = "completed"]_vars

\* No task overwrites job memory it has not read: the memory a task saves
\* was computed from the one saved just before, even when two tasks of a
\* job run at the same time.
NoLostMemory ==
    [][\A j \in Jobs : \A t \in Turns :
          memory'[j].savedBy = t /\ memory[j].savedBy # t
             => local[j][t].base = memory[j].savedBy]_vars

\* A job whose request was answered (not merely closed: a declined one is
\* not kept) is among the session's relevant jobs, where a later question
\* finds its plan, from the moment its answer is durable until newer jobs
\* push it out: the tasks of two jobs of a session never lose each other's
\* update of the session memory.
CompletedJobsRemembered ==
    \A j \in Jobs : \A t \in answered[j] :
        local[j][t].outcome = "completed" =>
            \/ Len(session.relevant) = MaxRelevant
            \/ \E i \in 1..Len(session.relevant) : session.relevant[i] = j

\* A queued job is taken up: it waits, completes or fails, "so a client
\* watching the stream is never left waiting forever", unless its request
\* or its task was lost: dropped before the spawn, stopped with the process,
\* or failed when even the failure could not be recorded.
QueuedSettles ==
    \A j \in Jobs :
        status[j] = "queued" ~>
            \/ status[j] # "queued"
            \/ \E t \in Turns : t = turns[j] /\ pc[j][t] = "dead"

\* The refinement: a message is owed its outcome while its task works, and a
\* result is shown with a status that waits or has completed.
Promise == INSTANCE Conversation WITH
    shown <- status,
    asked <- turns,
    told  <- [j \in Jobs |-> IF status[j] \in {"waiting_for_user_input", "completed"}
                             THEN result[j] ELSE 0],
    owed  <- [j \in Jobs |-> \E t \in Turns : pc[j][t] \in Working]

\* The jobs keep the promise: messages are taken one at a time, each gets at
\* most one outcome and no outcome but the last is shown, completed is final,
\* and no message is owed its outcome for good, whatever the late steps of
\* earlier tasks, errors, lost requests and crashes do in between.
KeepsPromise == Promise!Spec
====
