---------------------------- MODULE WorkflowGraphs ----------------------------
(***************************************************************************)
(* The execution workflows (crates/chat/src/assistant/workflow): what a    *)
(* compiled graph is and the graphs compile_with_facts emits for one       *)
(* capability, by how its required parameters are acquired.                *)
(*                                                                         *)
(* A workflow is a record: "order" lists the node ids as ExecutionWorkflow *)
(* ::nodes does, "edges" the edges with their conditions, "kind", "source" *)
(* (the node a branch decides on) and "needs" (the nodes whose output slot *)
(* an input binds, PriorStep and AuthorizedDataProbe) are functions of the *)
(* node id, "budget" gives the declared cost of a node and "limits" the    *)
(* WorkflowBudgets.  Policies, SQL and parameter values are left out.      *)
(***************************************************************************)
EXTENDS Integers, Sequences, FiniteSets

Cost(q, r, m) == [queries |-> q, rows |-> r, ms |-> m]
Free == Cost(0, 0, 0)

Edge(from, to, when) == [from |-> from, to |-> to, when |-> when]
Cardinalities == {"zero", "one", "many"}

NodeSet(wf) == {wf.order[i] : i \in DOMAIN wf.order}
Incoming(wf, n) == {e \in wf.edges : e.to = n}

\* Every capability compiles to a query followed by a Complete node.  The
\* caller passes the budgets; probe and query are the declared worst cases.
QueryWorkflow(query, limits) ==
    LET order == <<"execute_query", "complete">>
        ids   == {"execute_query", "complete"}
    IN  [order  |-> order,
         edges  |-> {Edge("execute_query", "complete", "always")},
         kind   |-> [n \in ids |-> IF n = "complete" THEN "complete" ELSE "query"],
         source |-> [n \in ids |-> n],
         needs  |-> [n \in ids |-> {}],
         budget |-> [n \in ids |-> IF n = "complete" THEN Free ELSE query],
         limits |-> limits]

\* ResolutionStrategy::Clarify: a required parameter no fact provides is
\* asked before the query.
ClarifyWorkflow(query, limits) ==
    LET order == <<"clarify", "execute_query", "complete">>
        ids   == {order[i] : i \in DOMAIN order}
    IN  [order  |-> order,
         edges  |-> {Edge("clarify", "execute_query", "answered"),
                     Edge("execute_query", "complete", "always")},
         kind   |-> [n \in ids |-> CASE n = "clarify" -> "interrupt"
                                     [] n = "complete" -> "complete"
                                     [] OTHER -> "query"],
         source |-> [n \in ids |-> n],
         needs  |-> [n \in ids |-> {}],
         budget |-> [n \in ids |-> IF n = "execute_query" THEN query ELSE Free],
         limits |-> limits]

\* ResolutionStrategy::AuthorizedDataProbe: resolve the entity, branch on how
\* many candidates there are, and bind the query to the slot of the resolver.
ProbeWorkflow(probe, query, limits) ==
    LET order == <<"resolve", "branch", "not_found", "select", "execute_query", "complete">>
        ids   == {order[i] : i \in DOMAIN order}
    IN  [order  |-> order,
         edges  |-> {Edge("resolve", "branch", "always"),
                     Edge("branch", "not_found", "zero"),
                     Edge("branch", "execute_query", "one"),
                     Edge("branch", "select", "many"),
                     Edge("select", "execute_query", "answered"),
                     Edge("execute_query", "complete", "always")},
         kind   |-> [n \in ids |-> CASE n = "resolve" -> "resolve"
                                     [] n = "branch" -> "branch"
                                     [] n = "select" -> "interrupt"
                                     [] n = "execute_query" -> "query"
                                     [] OTHER -> "complete"],
         source |-> [n \in ids |-> IF n = "branch" THEN "resolve" ELSE n],
         needs  |-> [n \in ids |-> IF n = "execute_query" THEN {"resolve"} ELSE {}],
         budget |-> [n \in ids |-> CASE n = "resolve" -> probe
                                     [] n = "execute_query" -> query
                                     [] OTHER -> Free],
         limits |-> limits]

\* A proposal that names its own nodes is compiled as it stands: independent
\* queries feeding one Complete node, as the runner's own tests build them.
FanOutWorkflow(queries, query, limits) ==
    LET ids == {queries[i] : i \in DOMAIN queries} \union {"complete"}
    IN  [order  |-> Append(queries, "complete"),
         edges  |-> {Edge(n, "complete", "always") : n \in ids \ {"complete"}},
         kind   |-> [n \in ids |-> IF n = "complete" THEN "complete" ELSE "query"],
         source |-> [n \in ids |-> n],
         needs  |-> [n \in ids |-> {}],
         budget |-> [n \in ids |-> IF n = "complete" THEN Free ELSE query],
         limits |-> limits]

WellFormed(wf) ==
    /\ wf.order \in Seq(NodeSet(wf))
    /\ wf.edges \subseteq [from : NodeSet(wf), to : NodeSet(wf),
                           when : Cardinalities \union {"always", "answered"}]
    /\ wf.kind \in [NodeSet(wf) -> {"query", "resolve", "branch", "interrupt", "complete"}]
    /\ wf.source \in [NodeSet(wf) -> NodeSet(wf)]
    /\ wf.needs \in [NodeSet(wf) -> SUBSET NodeSet(wf)]
    /\ wf.budget \in [NodeSet(wf) -> [queries : Nat, rows : Nat, ms : Nat]]
    /\ wf.limits \in [queries : Nat, rows : Nat, ms : Nat, parallel : Nat]

\* A condition on the number of rows stands on an edge out of the node that
\* returned them, or out of a branch that decides on the node before it.
DecidesOnSource(wf) ==
    \A e \in wf.edges : e.when \in Cardinalities =>
        /\ wf.kind[wf.source[e.from]] # "branch"
        /\ \/ wf.source[e.from] = e.from
           \/ /\ wf.kind[e.from] = "branch"
              /\ Incoming(wf, e.from) # {}
              /\ \A d \in Incoming(wf, e.from) : d.from = wf.source[e.from]

\* To ask the user costs no query.
AsksFree(wf) == \A n \in NodeSet(wf) : wf.kind[n] = "interrupt" => wf.budget[n].queries = 0

\* c leads to the interrupt c[k]: each node of c comes after the one before,
\* and any other node comes after the interrupt, or after an edge out of the
\* node before it that is taken on another number of rows.
LeadsTo(wf, c, k) ==
    /\ \A i \in 2..k : /\ Incoming(wf, c[i]) # {}
                      /\ \A e \in Incoming(wf, c[i]) : e.from = c[i - 1]
    /\ \A m \in NodeSet(wf) \ {c[i] : i \in 1..k} :
          /\ Incoming(wf, m) # {}
          /\ \A e \in Incoming(wf, m) :
                \/ e.from \notin {c[i] : i \in 1..(k - 1)}
                \/ /\ k > 1 /\ e.from = c[k - 1]
                   /\ \A d \in Incoming(wf, c[k]) :
                        {d.when, e.when} \subseteq Cardinalities /\ d.when # e.when

\* While a question can be asked nothing else can run.
AsksAlone(wf) ==
    \A n \in NodeSet(wf) : wf.kind[n] = "interrupt" =>
        \E k \in 1..Len(wf.order) : \E c \in [1..k -> NodeSet(wf)] : c[k] = n /\ LeadsTo(wf, c, k)
====
