---------------------------- MODULE WorkflowRunner ----------------------------
(***************************************************************************)
(* WorkflowRunner::run (assistant/workflow/run.rs) over the durable node   *)
(* runs of WorkflowStateRepository (state.rs).                             *)
(*                                                                         *)
(* A run reads the node runs once, then schedules batches: the runnable    *)
(* nodes in workflow order, as many as max_parallel_queries and the shared *)
(* budget allow, driven concurrently by join_all.  The steps of the nodes  *)
(* of a batch interleave at every await; a node that fails cancels the     *)
(* siblings that are still executing.  An interrupt pauses the workflow;   *)
(* the reply completes the interrupt and a fresh run() goes on from the    *)
(* durable rows ("a resumed job (a fresh `run()` call after a              *)
(* clarification pause)").  Nothing runs a workflow again after a run that *)
(* failed or was lost.                                                     *)
(***************************************************************************)
EXTENDS WorkflowGraphs, FiniteSetsExt

CONSTANTS
    Workflows,   \* the compiled workflows a job may install
    Faults       \* the faults the environment may inject, see below

(***************************************************************************)
(* "reject": the data guard or the query of a node fails;                  *)
(* "policy": check_node_policy refuses a node;                             *)
(* "error":  a database statement of the runner errs;                      *)
(* "overrun": a query returns more rows or takes longer than its node      *)
(*           declares (execution is limited by the catalog and not by the  *)
(*           row_cap of the node);                                         *)
(* "crash":  the process stops.                                            *)
(***************************************************************************)
ASSUME WorkflowRunnerAssumption ==
    /\ \A wf \in Workflows : WellFormed(wf)
    /\ Faults \subseteq {"reject", "policy", "error", "overrun", "crash"}

VARIABLES
    wf,          \* the installed workflow.  Never changes
    faults,      \* the faults that may happen in this behaviour.  Never changes
    row,         \* chat_workflow_node_runs: the latest attempt of each node
    attempts,    \* attempts[n]: rows begun for node n
    ledger,      \* state_json.workflow_runtime.budget_consumed
    job,         \* chat_jobs.status, as far as the workflow sets it
    pauses,      \* how often the workflow was paused
    phase,       \* "idle", "schedule" or "batch"
    runs,        \* the runner's copy of the node runs
    consumed,    \* the runner's BudgetTotals
    step,        \* step[n]: where execute_node stands for a node of the batch
    took,        \* took[n]: rows and time of the execution to be persisted
    token,       \* the CancellationToken of the run is cancelled
    outcome      \* what the last run() returned

vars == <<wf, faults, row, attempts, ledger, job, pauses, phase, runs, consumed,
          step, took, token, outcome>>

durable == <<row, attempts, ledger, job, pauses>>

Nodes == NodeSet(wf)

NoRow == [status |-> "none", rows |-> 0, ms |-> 0, decision |-> "none"]

Ended == {"ok", "wait", "failed", "cancelled", "err"}

Init ==
    /\ wf \in Workflows
    /\ faults \in SUBSET Faults
    /\ row = [n \in Nodes |-> NoRow]
    /\ attempts = [n \in Nodes |-> 0]
    /\ ledger = Free
    /\ job = "queued"
    /\ pauses = 0
    /\ phase = "idle"
    /\ runs = [n \in Nodes |-> NoRow]
    /\ consumed = Free
    /\ step = [n \in Nodes |-> "out"]
    /\ took = [n \in Nodes |-> [rows |-> 0, ms |-> 0]]
    /\ token = FALSE
    /\ outcome = "none"

-----------------------------------------------------------------------------
(* The ledger *)

\* add_declared, add_actual and add_budget_consumed.
Plus(a, b) == Cost(a.queries + b.queries, a.rows + b.rows, a.ms + b.ms)

SumOver(c, S) == MapThenSumSet(LAMBDA n : c[n], S)

Total(cost, S) ==
    Cost(SumOver([n \in S |-> cost[n].queries], S),
         SumOver([n \in S |-> cost[n].rows], S),
         SumOver([n \in S |-> cost[n].ms], S))

Within(total) ==
    /\ total.queries <= wf.limits.queries
    /\ total.rows <= wf.limits.rows
    /\ total.ms <= wf.limits.ms

\* What each completed node run really used: its declared query cost, the
\* rows and the time it took.
Used(table) == [n \in Nodes |-> Cost(wf.budget[n].queries, table[n].rows, table[n].ms)]

Completed(table) == {n \in Nodes : table[n].status = "completed"}

\* BudgetTotals::from_completed.
FromCompleted(table) == Total(Used(table), Completed(table))

-----------------------------------------------------------------------------
(* Scheduling *)

OfRows(rows) == IF rows = 0 THEN "zero" ELSE IF rows = 1 THEN "one" ELSE "many"

\* Deviation: the decision a branch has recorded is not looked at.
CardinalityOfRows(table, n) == OfRows(table[n].rows)

\* node::branch::cardinality_for: the decision of a branch, or the row count.
CardinalityFor(table, n) ==
    IF table[n].decision # "none" THEN table[n].decision ELSE OfRows(table[n].rows)

EdgeMatches(e) == e.when \in Cardinalities => CardinalityFor(runs, e.from) = e.when

\* runnable: not begun (a failed attempt does not count), and an entry node
\* or one of its incoming edges, any one, is satisfied.
Runnable(n) ==
    /\ runs[n].status \notin {"completed", "running", "waiting"}
    /\ \/ Incoming(wf, n) = {}
       \/ \E e \in Incoming(wf, n) : runs[e.from].status = "completed" /\ EdgeMatches(e)

\* Their positions, and the first k of them, in workflow order.
RunnableNodes == {i \in DOMAIN wf.order : Runnable(wf.order[i])}

First(k) ==
    {wf.order[i] : i \in {i \in RunnableNodes : Cardinality({j \in RunnableNodes : j <= i}) <= k}}

\* Deviation: each node is compared with the budget on its own.
FitsAlone(k) == \A n \in First(k) \ First(k - 1) : Within(Plus(consumed, wf.budget[n]))

\* would_exceed and add_declared: the first k runnable nodes fit together.
Fits(k) == Within(Plus(consumed, Total(wf.budget, First(k))))

\* take(max_parallel), up to the first node that would exceed the budget.
BatchSize ==
    LET parallel == IF wf.limits.parallel > 1 THEN wf.limits.parallel ELSE 1
        most     == Cardinality(RunnableNodes)
    IN  CHOOSE k \in 0..most :
            /\ k <= parallel /\ \A i \in 1..k : Fits(i)
            /\ k \in {most, parallel} \/ ~Fits(k + 1)

\* run(), up to its loop.
Start ==
    /\ phase = "idle"
    /\ outcome = "none"
    /\ job = "queued"
    /\ phase' = "schedule"
    /\ runs' = row
    /\ consumed' = FromCompleted(row)
    /\ token' = FALSE
    /\ UNCHANGED <<wf, faults, durable, step, took, outcome>>

Return(result) ==
    /\ phase' = "idle"
    /\ outcome' = result
    /\ step' = [n \in Nodes |-> "out"]

\* Nothing is runnable: a Complete node decides.
NothingRunnable ==
    /\ phase = "schedule"
    /\ RunnableNodes = {}
    /\ Return(IF \E n \in Completed(runs) : wf.kind[n] = "complete" THEN "completed" ELSE "failed")
    /\ UNCHANGED <<wf, faults, durable, runs, consumed, took, token>>

\* Deviation: the run tries again instead of giving up.
OverBudgetRetries ==
    /\ phase = "schedule"
    /\ RunnableNodes # {}
    /\ BatchSize = 0
    /\ UNCHANGED vars

\* Even the first runnable node exceeds the shared budget.
OverBudget ==
    /\ phase = "schedule"
    /\ RunnableNodes # {}
    /\ BatchSize = 0
    /\ Return("failed")
    /\ UNCHANGED <<wf, faults, durable, runs, consumed, took, token>>

Launch ==
    /\ phase = "schedule"
    /\ BatchSize > 0
    /\ phase' = "batch"
    /\ step' = [n \in Nodes |-> IF n \in First(BatchSize) THEN "begin" ELSE "out"]
    /\ UNCHANGED <<wf, faults, durable, runs, consumed, took, token, outcome>>

-----------------------------------------------------------------------------
(* execute_node, for the nodes of a batch *)

Frame == <<wf, faults, job, pauses, phase, runs, consumed, outcome>>

\* output_slot: the resolver's slot exists only when it found one row.
SlotsBound(n) == \A m \in wf.needs[n] : runs[m].status = "completed" /\ runs[m].rows = 1

\* begin_node inserts the row as running; then bindings_for, whose error
\* leaves it so.
Begin(n) ==
    /\ step[n] = "begin"
    /\ row' = [row EXCEPT ![n] = [NoRow EXCEPT !.status = "running"]]
    /\ attempts' = [attempts EXCEPT ![n] = @ + 1]
    /\ step' = [step EXCEPT ![n] = IF SlotsBound(n) THEN "execute" ELSE "err"]
    /\ UNCHANGED <<Frame, ledger, took, token>>

PolicyRefuses(n) ==
    /\ "policy" \in faults
    /\ step[n] = "begin"
    /\ step' = [step EXCEPT ![n] = "err"]
    /\ UNCHANGED <<Frame, row, attempts, ledger, took, token>>

\* tokio::select! is biased: the execution of a node is polled only while
\* the token is not cancelled.
Polled(n, at) == step[n] = at /\ ~token

\* resolve_execution answers a branch and a Complete node by itself.
Inline(n) ==
    /\ Polled(n, "execute")
    /\ wf.kind[n] \in {"branch", "complete"}
    /\ took' = [took EXCEPT ![n] = [rows |-> 0, ms |-> 0]]
    /\ step' = [step EXCEPT ![n] = "complete"]
    /\ UNCHANGED <<Frame, row, attempts, ledger, token>>

\* A clarification interrupt asks.
Interrupt(n) ==
    /\ Polled(n, "execute")
    /\ wf.kind[n] = "interrupt"
    /\ step' = [step EXCEPT ![n] = "wait"]
    /\ UNCHANGED <<Frame, row, attempts, ledger, took, token>>

\* GuardedDataTools reads the node runs again and counts every completed one
\* as a query.
Guard(n) ==
    /\ Polled(n, "execute")
    /\ wf.kind[n] \in {"query", "resolve"}
    /\ step' = [step EXCEPT ![n] =
          IF Cardinality(Completed(row)) + wf.budget[n].queries <= wf.limits.queries
          THEN "query" ELSE "fail"]
    /\ UNCHANGED <<Frame, row, attempts, ledger, took, token>>

Query(n, rows, ms) ==
    /\ Polled(n, "query")
    /\ "overrun" \notin faults => rows <= wf.budget[n].rows /\ ms <= wf.budget[n].ms
    /\ took' = [took EXCEPT ![n] = [rows |-> rows, ms |-> ms]]
    /\ step' = [step EXCEPT ![n] = "complete"]
    /\ UNCHANGED <<Frame, row, attempts, ledger, token>>

\* Another check of the guard rejects the request, or its query fails.
Reject(n) ==
    /\ "reject" \in faults
    /\ Polled(n, "query")
    /\ step' = [step EXCEPT ![n] = "fail"]
    /\ UNCHANGED <<Frame, row, attempts, ledger, took, token>>

\* complete_node; a branch records its decision.
CompleteNode(n) ==
    /\ step[n] = "complete"
    /\ row[n].status = "running"
    /\ row' = [row EXCEPT ![n] =
                  [status |-> "completed", rows |-> took[n].rows, ms |-> took[n].ms,
                   decision |-> IF wf.kind[n] = "branch"
                                THEN CardinalityFor(runs, wf.source[n]) ELSE "none"]]
    /\ step' = [step EXCEPT ![n] = "ledger"]
    /\ UNCHANGED <<Frame, attempts, ledger, took, token>>

\* Deviation: the ledger is computed from the runner's own totals.
AddBudgetFromTotals(n) ==
    /\ step[n] = "ledger"
    /\ ledger' = Plus(consumed, Used(row)[n])
    /\ step' = [step EXCEPT ![n] = "ok"]
    /\ UNCHANGED <<Frame, row, attempts, took, token>>

\* Deviation: the ledger counts down.
SubtractBudget(n) ==
    /\ step[n] = "ledger"
    /\ ledger' = [ledger EXCEPT !.queries = @ - wf.budget[n].queries]
    /\ step' = [step EXCEPT ![n] = "ok"]
    /\ UNCHANGED <<Frame, row, attempts, took, token>>

\* add_budget_consumed: one UPDATE that adds to what the row holds.
AddBudget(n) ==
    /\ step[n] = "ledger"
    /\ ledger' = Plus(ledger, Used(row)[n])
    /\ step' = [step EXCEPT ![n] = "ok"]
    /\ UNCHANGED <<Frame, row, attempts, took, token>>

FailedRow(n) == [row EXCEPT ![n].status = "failed"]

\* fail_node, then token.cancel().
FailNode(n) ==
    /\ step[n] = "fail"
    /\ row' = FailedRow(n)
    /\ token' = TRUE
    /\ step' = [step EXCEPT ![n] = "failed"]
    /\ UNCHANGED <<Frame, attempts, ledger, took>>

\* Deviation: the cancelled node is dropped and its row is not touched.
CancelOnly(n) ==
    /\ step[n] \in {"execute", "query"}
    /\ token
    /\ step' = [step EXCEPT ![n] = "cancelled"]
    /\ UNCHANGED <<Frame, row, attempts, ledger, took, token>>

\* The cancelled branch of the select.
Cancel(n) ==
    /\ step[n] \in {"execute", "query"}
    /\ token
    /\ row' = FailedRow(n)
    /\ step' = [step EXCEPT ![n] = "cancelled"]
    /\ UNCHANGED <<Frame, attempts, ledger, took, token>>

\* A statement errs.  The node's own row keeps the status it had, and the
\* siblings are not cancelled.
StatementError(n) ==
    /\ "error" \in faults
    /\ step[n] \in {"begin", "execute", "query", "complete", "ledger", "fail"}
    /\ step' = [step EXCEPT ![n] = "err"]
    /\ UNCHANGED <<Frame, row, attempts, ledger, took, token>>

-----------------------------------------------------------------------------
(* The end of a batch *)

Batch == {n \in Nodes : step[n] # "out"}
Joined == phase = "batch" /\ \A n \in Batch : step[n] \in Ended
SomeStep(s) == \E n \in Batch : step[n] \in s

\* collect::<Result<_>>()?: any error is the result of the run.
BatchError ==
    /\ Joined
    /\ SomeStep({"err"})
    /\ Return("error")
    /\ UNCHANGED <<wf, faults, durable, runs, consumed, took, token>>

BatchFailed ==
    /\ Joined
    /\ ~SomeStep({"err"})
    /\ SomeStep({"failed", "cancelled"})
    /\ Return("failed")
    /\ UNCHANGED <<wf, faults, durable, runs, consumed, took, token>>

\* Deviation: the completed nodes of a batch with a failure are kept and the
\* run goes on.
BatchCompletedAnyway ==
    /\ Joined
    /\ ~SomeStep({"err", "wait"})
    /\ runs' = [n \in Nodes |-> IF step[n] = "ok" THEN row[n] ELSE runs[n]]
    /\ consumed' = Plus(consumed, Total(Used(row), {n \in Batch : step[n] = "ok"}))
    /\ phase' = "schedule"
    /\ step' = [n \in Nodes |-> "out"]
    /\ UNCHANGED <<wf, faults, durable, took, token, outcome>>

\* add_actual, and the completed runs join the runner's copy.
BatchCompleted ==
    /\ Joined
    /\ \A n \in Batch : step[n] = "ok"
    /\ runs' = [n \in Nodes |-> IF n \in Batch THEN row[n] ELSE runs[n]]
    /\ consumed' = Plus(consumed, Total(Used(row), Batch))
    /\ phase' = "schedule"
    /\ step' = [n \in Nodes |-> "out"]
    /\ UNCHANGED <<wf, faults, durable, took, token, outcome>>

\* mark_workflow_paused for the first waiting node of the batch: one
\* transaction, which replaces workflow_runtime and the ledger with it.
Pause(n) ==
    /\ Joined
    /\ ~SomeStep({"err", "failed", "cancelled"})
    /\ step[n] = "wait"
    /\ \A m \in Batch : step[m] = "wait" /\ m # n =>
          \E i, k \in DOMAIN wf.order : i < k /\ wf.order[i] = n /\ wf.order[k] = m
    /\ row[n].status = "running"
    /\ row' = [row EXCEPT ![n].status = "waiting"]
    /\ job' = "waiting_for_user_input"
    /\ ledger' = Free
    /\ pauses' = pauses + 1
    /\ Return("waiting")
    /\ UNCHANGED <<wf, faults, attempts, runs, consumed, took, token>>

\* WorkflowStateRepository::resume with the five identities of the pause.
Resume(n) ==
    /\ job = "waiting_for_user_input"
    /\ phase = "idle"
    /\ row[n].status = "waiting"
    /\ row' = [row EXCEPT ![n].status = "completed"]
    /\ job' = "queued"
    /\ ledger' = Free
    /\ outcome' = "none"
    /\ UNCHANGED <<wf, faults, attempts, pauses, phase, runs, consumed, step, took, token>>

\* The process stops: the rows stay as they are.
Crash ==
    /\ "crash" \in faults
    /\ phase # "idle"
    /\ Return("error")
    /\ UNCHANGED <<wf, faults, durable, runs, consumed, took, token>>

-----------------------------------------------------------------------------
\* A query comes back with no row, one or several, within its declared time
\* or after it.
NodeStep(n) ==
    \/ Begin(n) \/ Inline(n) \/ Interrupt(n) \/ Guard(n)
    \/ \E rows \in 0..2, ms \in {wf.budget[n].ms, wf.budget[n].ms + 1} : Query(n, rows, ms)
    \/ CompleteNode(n) \/ AddBudget(n) \/ FailNode(n) \/ Cancel(n)

RunnerStep ==
    \/ Start \/ NothingRunnable \/ OverBudget \/ Launch
    \/ BatchError \/ BatchFailed \/ BatchCompleted
    \/ \E n \in Nodes : Pause(n)

Fault ==
    \/ \E n \in Nodes : PolicyRefuses(n) \/ Reject(n) \/ StatementError(n)
    \/ Crash

Next ==
    \/ RunnerStep
    \/ \E n \in Nodes : NodeStep(n) \/ Resume(n)
    \/ Fault

\* join_all polls every node of the batch; queries end by their timeout.
Fairness == WF_vars(RunnerStep) /\ WF_vars(\E n \in Nodes : NodeStep(n))

Spec == Init /\ [][Next]_vars /\ Fairness

-----------------------------------------------------------------------------
(* Properties *)

NodeRow == [status : {"none", "running", "waiting", "completed", "failed"},
            rows : Nat, ms : Nat, decision : Cardinalities \union {"none"}]

\* The node rows, the ledger and the state of a run have their types.
TypeOK ==
    /\ wf \in Workflows
    /\ faults \subseteq Faults
    /\ row \in [Nodes -> NodeRow]
    /\ attempts \in [Nodes -> Nat]
    /\ ledger \in [queries : Nat, rows : Nat, ms : Nat]
    /\ job \in {"queued", "waiting_for_user_input"}
    /\ phase \in {"idle", "schedule", "batch"}
    /\ runs \in [Nodes -> NodeRow]
    /\ consumed \in [queries : Nat, rows : Nat, ms : Nat]
    /\ step \in [Nodes -> {"out", "begin", "execute", "query", "complete", "ledger", "fail"}
                         \union Ended]
    /\ token \in BOOLEAN
    /\ outcome \in {"none", "completed", "failed", "waiting", "error"}

\* SI-10, "Query / row / timeout / retry / turn / parallelism bounds": over
\* all the batches of a workflow, and over a pause and the run after it, the
\* queries begun stay within the shared budget, and so do the rows and the
\* time as long as no query overruns what its node declares.
WithinBudget ==
    /\ SumOver([n \in Nodes |-> attempts[n] * wf.budget[n].queries], Nodes) <= wf.limits.queries
    /\ "overrun" \notin faults => Within(FromCompleted(row))

\* "Completed nodes are not re-run": no node is begun twice, whatever fails,
\* is cancelled, pauses and resumes.
BegunOnce == \A n \in Nodes : attempts[n] <= 1

\* A node behind a branch is begun only on the arm that the number of rows
\* its source really returned selects.
ArmsExclusive ==
    \A n \in Nodes : attempts[n] > 0 /\ Incoming(wf, n) # {} =>
        \E e \in Incoming(wf, n) :
            /\ row[e.from].status = "completed"
            /\ e.when \in Cardinalities => OfRows(row[wf.source[e.from]].rows) = e.when

\* "cancels in-flight siblings ...; no partial result is composed": a run
\* that returns has settled every node it began, and one that completed has
\* no failed node.
SettledWhenReturned ==
    /\ outcome \in {"completed", "failed", "waiting"} =>
          \A n \in Nodes : row[n].status # "running"
    /\ outcome = "completed" => \A n \in Nodes : row[n].status # "failed"

\* "concurrent node completions serialize on Postgres's row lock instead of
\* racing": until the first pause, when a run has returned without an error
\* the ledger on the job row is what the completed nodes used.
LedgerExact ==
    pauses = 0 /\ outcome \in {"completed", "failed"} => ledger = FromCompleted(row)

\* A run comes to an end: in every case it returns.
RunEnds == phase # "idle" ~> phase = "idle"

\* "On match the runner: binds the answer ... into the waiting node's input;
\* marks the ClarificationInterrupt node completed; resumes at its resume
\* node": an answered workflow, run again without faults, completes.
AnsweredCompletes ==
    (pauses > 0 /\ job = "queued" /\ faults = {}) ~> outcome \in {"completed", "waiting"}
====
