--------------------------- MODULE WorkflowRunnerMC ---------------------------
(* The workflows the runs install: the three compiled shapes and fan-outs. *)
EXTENDS WorkflowRunner

Limits(q, r, m, p) == [queries |-> q, rows |-> r, ms |-> m, parallel |-> p]

\* max_query_count is 5 and max_parallel_queries 2, as in
\* execute_selected_capability; the row and time caps just add up.
Compiled ==
    {QueryWorkflow(Cost(1, 1, 1), Limits(5, 1, 1, 2)),
     ClarifyWorkflow(Cost(1, 1, 1), Limits(5, 1, 1, 2)),
     ProbeWorkflow(Cost(1, 2, 1), Cost(1, 1, 1), Limits(5, 3, 2, 2))}

\* Two queries at a time out of three; then a budget for two of them.
FanOuts ==
    {FanOutWorkflow(<<"a", "b", "c">>, Cost(1, 1, 1), Limits(3, 3, 3, 2)),
     FanOutWorkflow(<<"a", "b", "c">>, Cost(1, 1, 1), Limits(2, 3, 3, 3))}

AllWorkflows == Compiled \union FanOuts

ASSUME ShapesAssumption ==
    \A w \in AllWorkflows : DecidesOnSource(w) /\ AsksFree(w) /\ AsksAlone(w)
====
