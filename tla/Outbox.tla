------------------------------- MODULE Outbox -------------------------------
(***************************************************************************)
(* The transactional outbox of the management audit trail                  *)
(* (management/outbox.rs, management/repository.rs, the migration          *)
(* 20260723130000_add_management_audit_outbox.sql).                        *)
(*                                                                         *)
(* A business transaction inserts an outbox row with the change it audits. *)
(* Every replica of the application polls the table once a second: it      *)
(* claims one due row after the other with FOR UPDATE SKIP LOCKED,         *)
(* inserts the final event and marks the row published in the claiming     *)
(* transaction, or rolls back and records the failure in a SECOND          *)
(* transaction, after the row lock is gone.                                *)
(*                                                                         *)
(* Time is relative: wait[r] is what is left, in seconds, until            *)
(* next_attempt_at, 0 once the row is due; queue holds the unpublished     *)
(* rows in the order of next_attempt_at.                                   *)
(***************************************************************************)
EXTENDS Integers, Sequences, SequencesExt

CONSTANTS
    Rows,         \* outbox rows
    Poison,       \* rows whose payload no longer decodes as ManagementAuditEvent
    Dispatchers,  \* application replicas, one polling loop each
    BatchSize,    \* DISPATCH_BATCH_SIZE
    RetryBase,    \* RETRY_BASE_SECONDS
    RetryMax,     \* RETRY_MAX_SECONDS
    AttemptCap,   \* attempt_count saturates here: only LEAST(attempt_count, exponent) is used
    MaxFaults     \* bound on restarts and database errors

(* max_backoff_exponent: the loop doubles until it reaches the cap. *)
Doubled[n \in Nat] == IF n = 0 THEN RetryBase ELSE 2 * Doubled[n - 1]

MaxBackoffExponent == CHOOSE n \in 0..AttemptCap :
    /\ Doubled[n] >= RetryMax
    /\ \A m \in 0..(n - 1) : Doubled[m] < RetryMax

ASSUME RowsAssumption == Poison \subseteq Rows

ASSUME BoundsAssumption ==
    /\ BatchSize \in Nat \ {0}
    /\ RetryBase \in Nat \ {0}
    /\ RetryMax \in Nat
    /\ AttemptCap \in Nat
    /\ MaxFaults \in Nat
    /\ \E n \in 0..AttemptCap : Doubled[n] >= RetryMax

VARIABLES
    status,      \* of a row: "absent", "pending" or "published" (published_at set)
    attempts,    \* attempt_count
    wait,        \* seconds until next_attempt_at
    errored,     \* last_error_code is not NULL
    queue,       \* unpublished rows by next_attempt_at
    events,      \* number of management_audit_events rows with this outbox_id
    disp,        \* the polling loops
    faults       \* restarts and database errors so far

vars == <<status, attempts, wait, errored, queue, events, disp, faults>>

None == "none"

Sleeping == [pc |-> "sleeping", row |-> None, left |-> 0]

(* In a pass "claimed" holds the row lock, "written" holds it with the     *)
(* insert and the update done and not committed, "failing" has rolled back *)
(* and has yet to record the failure.                                      *)
DispatcherStates ==
    [pc : {"sleeping", "polling", "claimed", "written", "failing"},
     row : Rows \cup {None}, left : 0..BatchSize]

(* Every column has its type. *)
TypeOK ==
    /\ status \in [Rows -> {"absent", "pending", "published"}]
    /\ attempts \in [Rows -> 0..AttemptCap]
    /\ wait \in [Rows -> 0..RetryMax]
    /\ errored \in [Rows -> BOOLEAN]
    /\ Range(queue) \subseteq Rows
    /\ events \in [Rows -> 0..1]
    /\ disp \in [Dispatchers -> DispatcherStates]
    /\ faults \in 0..MaxFaults

Init ==
    /\ status = [r \in Rows |-> "absent"]
    /\ attempts = [r \in Rows |-> 0]
    /\ wait = [r \in Rows |-> 0]
    /\ errored = [r \in Rows |-> FALSE]
    /\ queue = <<>>
    /\ events = [r \in Rows |-> 0]
    /\ disp = [d \in Dispatchers |-> Sleeping]
    /\ faults = 0

Fault == faults < MaxFaults /\ faults' = faults + 1

-----------------------------------------------------------------------------
(* Row locks and the claim. *)

Locked(r) == \E d \in Dispatchers : disp[d].pc \in {"claimed", "written"} /\ disp[d].row = r

DueThoughLocked(r) == status[r] = "pending" /\ wait[r] = 0

(* The WHERE and FOR UPDATE SKIP LOCKED of the claim. *)
Due(r) == status[r] = "pending" /\ wait[r] = 0 /\ ~Locked(r)

(* ORDER BY next_attempt_at LIMIT 1. *)
FirstDue(r) ==
    /\ Due(r)
    /\ \E i \in DOMAIN queue :
        /\ queue[i] = r
        /\ \A j \in 1..(i - 1) : ~Due(queue[j])

(* The queue once r is due in w seconds: rows closer than a second to each *)
(* other may come in either order.                                         *)
Requeue(r, w) ==
    LET rest == RemoveFirst(queue, r)
    IN  \E i \in 1..(Len(rest) + 1) :
            /\ \A j \in 1..(i - 1) : wait[rest[j]] <= w
            /\ \A j \in i..Len(rest) : wait[rest[j]] >= w
            /\ queue' = InsertAt(rest, i, r)

(* The business transaction commits with its outbox row. next_attempt_at   *)
(* is when that transaction began, so the row may go ahead of others.      *)
enqueue(r) ==
    /\ status[r] = "absent"
    /\ status' = [status EXCEPT ![r] = "pending"]
    /\ Requeue(r, 0)
    /\ UNCHANGED <<attempts, wait, errored, events, disp, faults>>

-----------------------------------------------------------------------------
(* A polling pass. *)

(* The interval ticks. *)
Wake(d) ==
    /\ disp[d].pc = "sleeping"
    /\ disp' = [disp EXCEPT ![d] = [pc |-> "polling", row |-> None, left |-> BatchSize]]
    /\ UNCHANGED <<status, attempts, wait, errored, queue, events, faults>>

(* dispatch_one, its SELECT. *)
Claim(d) ==
    /\ disp[d].pc = "polling" /\ disp[d].left > 0
    /\ \E r \in Rows :
        /\ FirstDue(r)
        /\ disp' = [disp EXCEPT ![d] = [@ EXCEPT !.pc = "claimed", !.row = r]]
    /\ UNCHANGED <<status, attempts, wait, errored, queue, events, faults>>

(* Nothing is due, or the pass has made its BatchSize attempts. *)
PassEnds(d) ==
    /\ disp[d].pc = "polling"
    /\ disp[d].left = 0 \/ \A r \in Rows : ~Due(r)
    /\ disp' = [disp EXCEPT ![d] = Sleeping]
    /\ UNCHANGED <<status, attempts, wait, errored, queue, events, faults>>

NextAttempt(d) == [disp EXCEPT ![d] = [pc |-> "polling", row |-> None, left |-> @.left - 1]]

(* publish: the insert and the update, inside the claiming transaction. A  *)
(* payload that does not decode never gets here.                           *)
PublishOnPool(d) ==
    /\ disp[d].pc = "claimed" /\ disp[d].row \notin Poison
    /\ events' = [events EXCEPT ![disp[d].row] = 1]
    /\ disp' = [disp EXCEPT ![d].pc = "written"]
    /\ UNCHANGED <<status, attempts, wait, errored, queue, faults>>

publish(d) ==
    /\ disp[d].pc = "claimed" /\ disp[d].row \notin Poison
    /\ disp' = [disp EXCEPT ![d].pc = "written"]
    /\ UNCHANGED <<status, attempts, wait, errored, queue, events, faults>>

(* publish fails: the rollback gives up the row lock. *)
PublishFails(d) ==
    /\ disp[d].pc = "claimed"
    /\ \/ disp[d].row \in Poison /\ UNCHANGED faults
       \/ disp[d].row \notin Poison /\ Fault
    /\ disp' = [disp EXCEPT ![d].pc = "failing"]
    /\ UNCHANGED <<status, attempts, wait, errored, queue, events>>

(* What the commit makes visible: ON CONFLICT (outbox_id) DO NOTHING, and  *)
(* the row leaves the unpublished ones.                                    *)
Published(r) ==
    /\ events' = [events EXCEPT ![r] = IF @ = 0 THEN 1 ELSE @]
    /\ status' = [status EXCEPT ![r] = "published"]
    /\ errored' = [errored EXCEPT ![r] = FALSE]
    /\ queue' = RemoveFirst(queue, r)

(* The commit succeeds. *)
Commit(d) ==
    /\ disp[d].pc = "written"
    /\ Published(disp[d].row)
    /\ disp' = NextAttempt(d)
    /\ UNCHANGED <<attempts, wait, faults>>

(* The commit succeeds and its answer is lost: the error ends the pass.    *)
CommitUnheard(d) ==
    /\ disp[d].pc = "written" /\ Fault
    /\ Published(disp[d].row)
    /\ disp' = [disp EXCEPT ![d] = Sleeping]
    /\ UNCHANGED <<attempts, wait>>

BackoffUncapped(n) == Doubled[IF n < MaxBackoffExponent THEN n ELSE MaxBackoffExponent]

(* LEAST(base * 2^LEAST(attempt_count, exponent), max), attempt_count as   *)
(* it was before the update.                                               *)
Backoff(n) ==
    LET step == Doubled[IF n < MaxBackoffExponent THEN n ELSE MaxBackoffExponent]
    IN  IF step < RetryMax THEN step ELSE RetryMax

CountedAttempt(n) == IF n < AttemptCap THEN n + 1 ELSE n

(* Bugs that the mutants plant: a failure recorded without the             *)
(* published_at IS NULL of its WHERE, and one that schedules no retry.     *)
RecordsPublishedToo(d) ==
    LET r == disp[d].row
    IN  /\ disp[d].pc = "failing" /\ ~Locked(r)
        /\ attempts' = [attempts EXCEPT ![r] = CountedAttempt(@)]
        /\ errored' = [errored EXCEPT ![r] = TRUE]
        /\ wait' = [wait EXCEPT ![r] = Backoff(attempts[r])]
        /\ IF status[r] = "pending" THEN Requeue(r, Backoff(attempts[r])) ELSE UNCHANGED queue
        /\ disp' = NextAttempt(d)
        /\ UNCHANGED <<status, events, faults>>

RecordsWithoutBackoff(d) ==
    LET r == disp[d].row
    IN  /\ disp[d].pc = "failing" /\ ~Locked(r)
        /\ disp' = NextAttempt(d)
        /\ UNCHANGED <<attempts, errored, wait, queue, status, events, faults>>

(* record_failure: its UPDATE waits for a row lock another dispatcher      *)
(* holds, and its WHERE skips a row that was published meanwhile.          *)
record_failure(d) ==
    LET r == disp[d].row
    IN  /\ disp[d].pc = "failing" /\ ~Locked(r)
        /\ \/ /\ status[r] = "pending"
              /\ attempts' = [attempts EXCEPT ![r] = CountedAttempt(@)]
              /\ errored' = [errored EXCEPT ![r] = TRUE]
              /\ wait' = [wait EXCEPT ![r] = Backoff(attempts[r])]
              /\ Requeue(r, Backoff(attempts[r]))
           \/ /\ status[r] # "pending"
              /\ UNCHANGED <<attempts, errored, wait, queue>>
        /\ disp' = NextAttempt(d)
        /\ UNCHANGED <<status, events, faults>>

(* A statement fails (its ? ends the pass), or the process restarts: an    *)
(* open transaction is rolled back, a failure stays unrecorded.            *)
PassAborts(d) ==
    /\ disp[d].pc # "sleeping" /\ Fault
    /\ disp' = [disp EXCEPT ![d] = Sleeping]
    /\ UNCHANGED <<status, attempts, wait, errored, queue, events>>

(* A second passes. *)
Second ==
    /\ \E r \in Rows : wait[r] > 0
    /\ wait' = [r \in Rows |-> IF wait[r] > 0 THEN wait[r] - 1 ELSE 0]
    /\ UNCHANGED <<status, attempts, errored, queue, events, disp, faults>>

Dispatch(d) ==
    \/ Wake(d) \/ Claim(d) \/ PassEnds(d)
    \/ publish(d) \/ PublishFails(d) \/ Commit(d) \/ CommitUnheard(d)
    \/ record_failure(d) \/ PassAborts(d)

Next ==
    \/ \E r \in Rows : enqueue(r)
    \/ \E d \in Dispatchers : Dispatch(d)
    \/ Second

(* The polling loop never stops, its awaits return, and time passes.       *)
Fairness == WF_vars(Second) /\ \A d \in Dispatchers : WF_vars(Dispatch(d))

Spec == Init /\ [][Next]_vars /\ Fairness

-----------------------------------------------------------------------------
(* Properties. *)

(* A row is published exactly when its one final event exists: neither     *)
(* concurrent dispatchers, nor a pass that dies between the insert and the *)
(* commit, nor a commit whose answer is lost leaves a published row        *)
(* without event, an event of an unpublished row, or two events ("the      *)
(* unique outbox_id constraint makes a retry after a crash idempotent",    *)
(* outbox.rs:26).                                                          *)
PublishedOnce == \A r \in Rows : events[r] = IF status[r] = "published" THEN 1 ELSE 0

(* The row lock keeps dispatchers apart ("Row locks make concurrent        *)
(* dispatchers safe", outbox.rs:26): a claimed row is still unpublished    *)
(* and nobody else has claimed it.                                         *)
ClaimsApart == \A d \in Dispatchers : disp[d].pc \in {"claimed", "written"} =>
    /\ status[disp[d].row] = "pending"
    /\ \A e \in Dispatchers \ {d} :
        disp[e].pc \in {"claimed", "written"} => disp[e].row # disp[d].row

(* Publication is final: a failure recorded late, by a dispatcher that     *)
(* rolled back before another one published the row, does not put an error *)
(* code, an attempt or a retry time on it.                                 *)
PublishedIsFinal == [][\A r \in Rows : status[r] = "published" =>
    /\ status'[r] = "published"
    /\ attempts'[r] = attempts[r]
    /\ errored'[r] = errored[r]]_vars

(* A row whose payload decodes is published in the end, however often it   *)
(* failed before (attempt_count has no limit that gives up) and whatever   *)
(* undecodable rows are due ahead of it.                                   *)
EventuallyPublished == \A r \in Rows \ Poison :
    status[r] = "pending" ~> status[r] = "published"
=============================================================================
