---------------------------- MODULE Conversation ----------------------------
(***************************************************************************)
(* What a chat job promises its client, with nothing of how: the status    *)
(* the client sees, the messages accepted, and the message the shown       *)
(* result answers.  ChatJob implements it; this is the contract behind     *)
(* POST /chat/jobs, POST /chat/jobs/{id}/responses and GET /chat/jobs/{id} *)
(* (crates/chat/src/api/handlers, crates/chat/src/job/service).            *)
(*                                                                         *)
(* A message that was accepted is owed an outcome until it gets one or is  *)
(* lost.  A failure may be recorded at any time before the job has         *)
(* completed, also late, for an earlier message, while a newer one is      *)
(* still owed its outcome, which then replaces the failure.                *)
(***************************************************************************)
EXTENDS Integers

CONSTANTS Jobs, MaxTurns

VARIABLES
    shown,   \* the status of a job
    asked,   \* messages accepted
    told,    \* the message whose outcome is shown, or 0
    owed     \* the last message is owed an outcome

vars == <<shown, asked, told, owed>>

Init ==
    /\ shown = [j \in Jobs |-> "none"]
    /\ asked = [j \in Jobs |-> 0]
    /\ told  = [j \in Jobs |-> 0]
    /\ owed  = [j \in Jobs |-> FALSE]

\* A message is taken when the job is new or waits, one at a time.
Accept(j) ==
    /\ shown[j] \in {"none", "waiting_for_user_input"}
    /\ ~owed[j]
    /\ asked[j] < MaxTurns
    /\ shown' = [shown EXCEPT ![j] = "queued"]
    /\ asked' = [asked EXCEPT ![j] = @ + 1]
    /\ told'  = [told EXCEPT ![j] = 0]
    /\ owed'  = [owed EXCEPT ![j] = TRUE]

\* Its outcome, once; what is shown is the outcome of the last message.
Conclude(j, outcome) ==
    /\ owed[j]
    /\ shown' = [shown EXCEPT ![j] = outcome]
    /\ told'  = [told EXCEPT ![j] = IF outcome = "failed" THEN 0 ELSE asked[j]]
    /\ owed'  = [owed EXCEPT ![j] = FALSE]
    /\ UNCHANGED asked

\* The message is given up: nothing more is shown for it.
Lose(S) ==
    /\ \A j \in S : owed[j]
    /\ owed' = [j \in Jobs |-> owed[j] /\ j \notin S]
    /\ UNCHANGED <<shown, asked, told>>

\* A failure is recorded, never over a completed job.
RecordFailure(j) ==
    /\ shown[j] \in {"queued", "waiting_for_user_input"}
    /\ shown' = [shown EXCEPT ![j] = "failed"]
    /\ told'  = [told EXCEPT ![j] = 0]
    /\ UNCHANGED <<asked, owed>>

Settle(j) ==
    \/ \E outcome \in {"waiting_for_user_input", "completed", "failed"} : Conclude(j, outcome)
    \/ Lose({j})

Next ==
    \/ \E j \in Jobs : Accept(j) \/ Settle(j) \/ RecordFailure(j)
    \/ \E S \in SUBSET Jobs : Lose(S)

Safety == Init /\ [][Next]_vars

\* No message is owed its outcome for good.
Spec == Safety /\ \A j \in Jobs : WF_vars(Settle(j))
=============================================================================
