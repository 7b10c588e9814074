----------------------------- MODULE AuditTrail -----------------------------
(***************************************************************************)
(* The audit channel (crates/chat/src/audit): the pipeline records events  *)
(* without waiting, one worker collects them and inserts them in batches.  *)
(* Events are numbered in the order in which they are recorded.            *)
(***************************************************************************)
EXTENDS Integers, Sequences, SequencesExt

CONSTANTS
    MaxEvents,      \* bound: events recorded in a behaviour
    QueueCapacity,  \* AUDIT_QUEUE_CAPACITY
    AuditBatchSize, \* AUDIT_BATCH_SIZE
    AuditFaultKinds \* "db": insert_batch errs; "unheard": its commit is not
                    \* heard of; "crash": the process stops

ASSUME AuditAssumption ==
    /\ MaxEvents \in Nat
    /\ QueueCapacity \in Nat \ {0}
    /\ AuditBatchSize \in Nat \ {0}

VARIABLES
    recorded,  \* events the pipeline has recorded
    channel,   \* the mpsc channel
    batch,     \* the worker's batch
    inserting, \* the batch flush has taken, while insert_batch runs
    stored,    \* chat_job_audit_events
    lost,      \* events dropped with a warning, or with the process
    closed,    \* every sender is gone
    worker     \* "select", "insert", "last" (the flush before break) or "stopped"

auditVars == <<recorded, channel, batch, inserting, stored, lost, closed, worker>>

Events == 1..MaxEvents

AuditTypeOK ==
    /\ recorded \in 0..MaxEvents
    /\ channel \in Seq(Events) /\ Len(channel) <= QueueCapacity
    /\ batch \in Seq(Events) /\ Len(batch) < AuditBatchSize
    /\ inserting \in Seq(Events) /\ stored \in Seq(Events)
    /\ lost \subseteq Events
    /\ closed \in BOOLEAN
    /\ worker \in {"select", "insert", "last", "stopped"}

AuditInit ==
    /\ recorded = 0 /\ channel = <<>> /\ batch = <<>> /\ inserting = <<>>
    /\ stored = <<>> /\ lost = {} /\ closed = FALSE /\ worker = "select"

\* AuditHandle::record: try_send, which fails when the queue is full or the
\* worker is gone.
Record ==
    /\ recorded < MaxEvents
    /\ ~closed
    /\ recorded' = recorded + 1
    /\ IF Len(channel) < QueueCapacity /\ worker # "stopped"
       THEN channel' = Append(channel, recorded + 1) /\ UNCHANGED lost
       ELSE lost' = lost \union {recorded + 1} /\ UNCHANGED channel
    /\ UNCHANGED <<batch, inserting, stored, closed, worker>>

\* Deviation: the batch is flushed only once it is past its size.
ReceivePastSize ==
    /\ worker = "select"
    /\ channel # <<>>
    /\ channel' = Tail(channel)
    /\ IF Len(batch) + 1 > AuditBatchSize
       THEN inserting' = Append(batch, Head(channel)) /\ batch' = <<>> /\ worker' = "insert"
       ELSE batch' = Append(batch, Head(channel)) /\ UNCHANGED <<inserting, worker>>
    /\ UNCHANGED <<recorded, stored, lost, closed>>

\* The recv arm of run_audit_worker.
Receive ==
    /\ worker = "select"
    /\ channel # <<>>
    /\ channel' = Tail(channel)
    /\ IF Len(batch) + 1 >= AuditBatchSize
       THEN inserting' = Append(batch, Head(channel)) /\ batch' = <<>> /\ worker' = "insert"
       ELSE batch' = Append(batch, Head(channel)) /\ UNCHANGED <<inserting, worker>>
    /\ UNCHANGED <<recorded, stored, lost, closed>>

\* Deviation: only full batches are flushed.
IdleTick == FALSE /\ UNCHANGED auditVars

\* The interval arm: flush what there is.
Tick ==
    /\ worker = "select"
    /\ batch # <<>>
    /\ inserting' = batch
    /\ batch' = <<>>
    /\ worker' = "insert"
    /\ UNCHANGED <<recorded, channel, stored, lost, closed>>

\* recv returns None: the channel is closed and drained.
ReceiveNone ==
    /\ worker = "select"
    /\ closed
    /\ channel = <<>>
    /\ inserting' = batch
    /\ batch' = <<>>
    /\ worker' = IF batch = <<>> THEN "stopped" ELSE "last"
    /\ UNCHANGED <<recorded, channel, stored, lost, closed>>

AfterInsert == IF worker = "last" THEN "stopped" ELSE "select"

\* flush returns: insert_batch is one transaction.
InsertBatch ==
    /\ worker \in {"insert", "last"}
    /\ stored' = stored \o inserting
    /\ inserting' = <<>>
    /\ worker' = AfterInsert
    /\ UNCHANGED <<recorded, channel, batch, lost, closed>>

\* Deviation: a batch whose insert erred is tried again.
RetryBatch(heard) ==
    /\ (IF heard THEN "db" ELSE "unheard") \in AuditFaultKinds
    /\ worker \in {"insert", "last"}
    /\ stored' = IF heard THEN stored ELSE stored \o inserting
    /\ UNCHANGED <<recorded, channel, batch, inserting, lost, closed, worker>>

\* It errs: the events are gone, unless the commit was only not heard of.
InsertFails(heard) ==
    /\ (IF heard THEN "db" ELSE "unheard") \in AuditFaultKinds
    /\ worker \in {"insert", "last"}
    /\ stored' = IF heard THEN stored ELSE stored \o inserting
    /\ lost' = IF heard THEN lost \union ToSet(inserting) ELSE lost
    /\ inserting' = <<>>
    /\ worker' = AfterInsert
    /\ UNCHANGED <<recorded, channel, batch, closed>>

CloseChannel ==
    /\ ~closed
    /\ closed' = TRUE
    /\ UNCHANGED <<recorded, channel, batch, inserting, stored, lost, worker>>

CrashWorker ==
    /\ "crash" \in AuditFaultKinds
    /\ worker # "stopped"
    /\ lost' = lost \union ToSet(channel \o batch \o inserting)
    /\ channel' = <<>> /\ batch' = <<>> /\ inserting' = <<>>
    /\ worker' = "stopped" /\ closed' = TRUE
    /\ UNCHANGED <<recorded, stored>>

AuditNext ==
    \/ Record \/ Receive \/ Tick \/ ReceiveNone \/ InsertBatch
    \/ \E heard \in BOOLEAN : InsertFails(heard)
    \/ CloseChannel \/ CrashWorker

AuditFairness ==
    /\ WF_auditVars(Receive) /\ WF_auditVars(Tick) /\ WF_auditVars(ReceiveNone)
    /\ WF_auditVars(InsertBatch)

AuditSpec == AuditInit /\ [][AuditNext]_auditVars /\ AuditFairness

-----------------------------------------------------------------------------
(* Properties *)

\* Every recorded event is in exactly one place: on its way, stored once, or
\* lost with a warning; and what is stored is in the order of recording,
\* whatever is dropped from a full queue, rolled back or not heard of.
AuditAccounted ==
    /\ \A i, j \in 1..Len(stored) : i < j => stored[i] < stored[j]
    /\ LET way == stored \o inserting \o batch \o channel
       IN  /\ \A i, j \in 1..Len(way) : i < j => way[i] < way[j]
           /\ ToSet(way) \intersect lost = {}
           /\ ToSet(way) \union lost = 1..recorded

\* No event stays in memory for good, however few follow it: the interval
\* flushes a batch that never fills.
AuditSettles == \A e \in Events : recorded >= e ~> e \in ToSet(stored) \union lost
=============================================================================
