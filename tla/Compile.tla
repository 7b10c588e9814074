------------------------------- MODULE Compile -------------------------------
(***************************************************************************)
(* From a planned capability to the workflow that is run for it:           *)
(* propose_workflow, compile_with_facts (assistant/workflow/compile.rs)    *)
(* and the facts execute_selected_capability compiles with; the dependency *)
(* graph (graph.rs) and the twelve checks of verify (verify.rs).  The      *)
(* runtime runs what it compiles without calling verify, so that compiled  *)
(* workflows verify is a promise of the compiler alone.                    *)
(*                                                                         *)
(* A proposal names one capability and no nodes: expand_iteration and      *)
(* check_comparison_facts then change nothing.  Sensitivities, cardinality *)
(* annotations, idempotency and retry of a node are left out; the policies *)
(* the compiler writes allow PII everywhere.                               *)
(***************************************************************************)
EXTENDS Planning

\* The budgets of execute_selected_capability.
Budgets == [queries |-> 5, rows |-> 1000, ms |-> 30000, parallel |-> 2]

NoCost == [queries |-> 0, rows |-> 0, ms |-> 0]
OneQuery(rows, ms) == [queries |-> 1, rows |-> rows, ms |-> ms]

\* A binding: where the parameter of a node takes its value, for PriorStep and
\* its kind also from which node and which output slot.
Binding(parameter, kind, source, from, slot) ==
    [parameter |-> parameter, kind |-> kind, source |-> source, from |-> from, slot |-> slot]

OfficeBinding == Binding("office_ids", "integer_array", "authorized_scope", {}, {})

Node(id, kind, inputs, outputs, capability, budget) ==
    [id |-> id, kind |-> kind, inputs |-> inputs, outputs |-> outputs,
     capability |-> capability, refers |-> {}, role |-> {}, budget |-> budget]

Arc(from, to) == [from |-> from, to |-> to]

-----------------------------------------------------------------------------
(* acquisition_source: the first strategy that applies binds a parameter *)

AllStrategies == <<"authorized_scope", "catalog_default", "deterministic_extraction",
                   "verified_user_text", "safe_prior_selection", "prior_step",
                   "authorized_data_probe", "clarify">>

\* KnowledgeCatalog::binding_fields.
BindingFields(c, name) == IF name \in DOMAIN c.bindings THEN ToSet(c.bindings[name]) ELSE {}

\* The facts execute_selected_capability compiles with: the fields of every
\* parameter the plan has a value for.
PlannedFacts(c, resolved) == UNION {BindingFields(c, name) : name \in resolved}

\* is_exact_identifier_param.
IsExactIdentifier(c, cap, name) ==
    \E r \in cap.recipe : \E d \in Named(c.datasets, r.dataset) : \E f \in ToSet(r.filters) :
        name \in f.parameter /\ \E slot \in Named(d.filters, f.filter) : slot.exact

\* Of the facts only the deterministic ones are ever filled in.
Applies(c, policy, known, strategy) ==
    CASE strategy = "authorized_scope"         -> policy.name = "office_ids"
      [] strategy = "catalog_default"          -> policy.default # {}
      [] strategy = "deterministic_extraction" -> BindingFields(c, policy.name) \intersect known # {}
      [] strategy = "authorized_data_probe"    -> policy.probe # {}
      [] strategy = "clarify"                  -> policy.userRequired \/ policy.required
      [] OTHER                                 -> FALSE

AcquisitionSource(c, cap, policy, known) ==
    LET strategies    == IF policy.resolution = << >> THEN AllStrategies ELSE policy.resolution
        Applicable(s) == Applies(c, policy, known, s)
        applicable    == SelectSeq(strategies, Applicable)
    IN  IF IsExactIdentifier(c, cap, policy.name) THEN "exact_sensitive_input"
        ELSE IF applicable = << >> THEN "unsupported" ELSE Head(applicable)

\* The ids of the nodes: a step, and the parameter it is taken for.
Execute            == <<"execute_query", "">>
Complete           == <<"complete", "">>
Resolve(name)      == <<"resolve", name>>
Branch(name)       == <<"branch", name>>
NotFound(name)     == <<"not_found", name>>
SelectEntity(name) == <<"select", name>>
Clarify(name)      == <<"clarify", name>>

\* The approved capability whose recipe is the shape of the probe.
Backing(c, probe) ==
    {cap \in ToSet(c.capabilities) : cap.status = "approved_mvp" /\
        \E r \in cap.recipe : r.dataset = probe.dataset /\ r.shape = probe.shape}

\* A probe that cannot be compiled is an InvalidProposal.
ProbeCompiles(c, probe) ==
    /\ \E d \in Named(c.datasets, probe.dataset) : \E s \in ShapesOf(d, probe.shape) :
           s.role \in {"resolver", "probe"} /\ \E slot \in ToSet(s.produces) : slot.slot = probe.slot
    /\ Backing(c, probe) # {}

\* AuthorizedDataProbe: resolve, branch on how many were found, and run the
\* query for one, ask for many, or end.
ProbeNodes(c, policy, probe) ==
    LET d       == CHOOSE d \in Named(c.datasets, probe.dataset) : TRUE
        s       == CHOOSE s \in ShapesOf(d, probe.shape) : TRUE
        produced == CHOOSE slot \in ToSet(s.produces) : slot.slot = probe.slot
        backing == CHOOSE cap \in Backing(c, probe) : TRUE
        rows    == IF s.rowCap = {} THEN 25 ELSE CHOOSE cap \in s.rowCap : TRUE
        ms      == IF d.timeout = {} THEN 5000 ELSE CHOOSE t \in d.timeout : TRUE
        name    == policy.name
    IN  <<[Node(Resolve(name), "resolve", <<OfficeBinding>>,
                {[slot |-> produced.slot, kind |-> produced.kind]}, {backing.id}, OneQuery(rows, ms))
              EXCEPT !.role = {s.role}],
          [Node(Branch(name), "branch", << >>, {}, {}, NoCost)
              EXCEPT !.refers = {Resolve(name), NotFound(name), Execute, SelectEntity(name)}],
          Node(NotFound(name), "complete", << >>, {}, {}, NoCost),
          [Node(SelectEntity(name), "interrupt", << >>, {}, {}, NoCost)
              EXCEPT !.refers = {Execute}]>>

ProbeArcs(name) ==
    {Arc(Resolve(name), Branch(name)), Arc(Branch(name), NotFound(name)),
     Arc(Branch(name), Execute), Arc(Branch(name), SelectEntity(name)),
     Arc(SelectEntity(name), Execute)}

\* Clarify: an interrupt before the query.
ClarifyNode(name) == [Node(Clarify(name), "interrupt", << >>, {}, {}, NoCost)
                         EXCEPT !.refers = {Execute}]

-----------------------------------------------------------------------------
(* compile_with_facts *)

\* Deviation: what only the query requires is left out.
PolicyRequired(c, cap) ==
    LET Acquired(p) == p.name # "office_ids" /\ p.required IN SelectSeq(cap.policies, Acquired)

\* acquisition_inputs: the policies of required parameters, required by the
\* policy or by the query.
AcquiredPolicies(c, cap) ==
    LET required    == {p.name : p \in {p \in ToSet(QueryOf(c, cap).parameters) : p.required}}
        Acquired(p) == p.name # "office_ids" /\ (p.required \/ p.name \in required)
    IN  SelectSeq(cap.policies, Acquired)

BoundBy(policy, source) ==
    CASE source = "authorized_data_probe" ->
            LET probe == CHOOSE p \in policy.probe : TRUE
            IN  Binding(policy.name, policy.kind, source, {Resolve(policy.name)}, {probe.slot})
      [] source = "clarify" ->
            Binding(policy.name, policy.kind, "safe_prior_selection", {Clarify(policy.name)}, {})
      [] OTHER -> Binding(policy.name, policy.kind, source, {}, {})

StepNodes(c, policy, source) ==
    CASE source = "authorized_data_probe" -> ProbeNodes(c, policy, CHOOSE p \in policy.probe : TRUE)
      [] source = "clarify"               -> <<ClarifyNode(policy.name)>>
      [] OTHER                            -> << >>

StepArcs(policy, source) ==
    CASE source = "authorized_data_probe" -> ProbeArcs(policy.name)
      [] source = "clarify"               -> {Arc(Clarify(policy.name), Execute)}
      [] OTHER                            -> {}

\* The query of the capability, with its declared worst case.
ExecuteNode(c, cap, inputs) ==
    LET q    == QueryOf(c, cap)
        rows == IF cap.maxLimit = {} THEN 100 ELSE CHOOSE m \in cap.maxLimit : TRUE
        ms   == IF q.timeout = {} THEN 5000 ELSE CHOOSE t \in q.timeout : TRUE
    IN  Node(Execute, "query", inputs, {}, {cap.id}, OneQuery(rows, ms))

CompileFailed(reason) == [result |-> reason, nodes |-> << >>, edges |-> {}]

CompileWithFacts(c, cap, known) ==
    LET policies  == AcquiredPolicies(c, cap)
        source    == [i \in DOMAIN policies |-> AcquisitionSource(c, cap, policies[i], known)]
        inputs    == <<OfficeBinding>> \o [i \in DOMAIN policies |-> BoundBy(policies[i], source[i])]
        steps     == FlattenSeq([i \in DOMAIN policies |-> StepNodes(c, policies[i], source[i])])
        arcs      == UNION {StepArcs(policies[i], source[i]) : i \in DOMAIN policies}
        ProbeFails(i) == /\ source[i] = "authorized_data_probe"
                         /\ \E p \in policies[i].probe : ~ProbeCompiles(c, p)
    IN  IF cap.status # "approved_mvp" THEN CompileFailed("unknown_capability")
        ELSE IF \E i \in DOMAIN policies : source[i] = "unsupported" THEN CompileFailed("unsupported")
        ELSE IF \E i \in DOMAIN policies : ProbeFails(i) THEN CompileFailed("invalid_proposal")
        ELSE [result |-> "compiled",
              nodes  |-> steps \o <<ExecuteNode(c, cap, inputs),
                                    Node(Complete, "complete", << >>, {}, {}, NoCost)>>,
              edges  |-> arcs \union {Arc(Execute, Complete)}]

-----------------------------------------------------------------------------
(* WorkflowGraph *)

Parents(wf, id) == {e.from : e \in {e \in wf.edges : e.to = id}}

EntryNodes(wf) == {id \in Ids(wf.nodes) : Parents(wf, id) = {}}

\* reachable_from, by breadth.
ReachableFrom(wf, entry) ==
    LET Further(seen, n) == seen \union {e.to : e \in {e \in wf.edges : e.from \in seen}}
    IN  FoldLeft(Further, {entry}, wf.nodes)

IsCyclic(wf) == \E e \in wf.edges : e.from \in ReachableFrom(wf, e.to)

\* runnable, of the graph alone: every parent is completed.
ReadyAfter(wf, done) == {id \in Ids(wf.nodes) \ done : Parents(wf, id) \subseteq done}

\* max_runnable_width: the largest wave.
MaxRunnableWidth(wf) ==
    LET Wave(so, n) == LET ready == ReadyAfter(wf, so.done)
                       IN  [done  |-> so.done \union ready,
                            width |-> Max({so.width, Cardinality(ready)})]
    IN  FoldLeft(Wave, [done |-> {}, width |-> 0], wf.nodes).width

\* Earlier in the topological order; an ancestor is, in every such order.
Before(wf, producer, consumer) ==
    producer # consumer /\ consumer \in ReachableFrom(wf, producer)

-----------------------------------------------------------------------------
(* verify *)

\* V9: unique ids, known ends, one entry from which everything is reached, an end.
VerifyShape(wf) ==
    /\ Cardinality(Ids(wf.nodes)) = Len(wf.nodes)
    /\ \A e \in wf.edges : {e.from, e.to} \subseteq Ids(wf.nodes)
    /\ Cardinality(EntryNodes(wf)) = 1
    /\ \E n \in ToSet(wf.nodes) : n.kind = "complete"
    /\ \A entry \in EntryNodes(wf) : ReachableFrom(wf, entry) = Ids(wf.nodes)

\* V6: the declared worst cases together, and the width of the graph.
VerifyBudget(wf) ==
    LET Spent(cost(_)) == FoldLeft(LAMBDA sum, n : sum + cost(n), 0, wf.nodes)
    IN  /\ Spent(LAMBDA n : n.budget.queries) <= Budgets.queries
        /\ Spent(LAMBDA n : n.budget.rows) <= Budgets.rows
        /\ Spent(LAMBDA n : n.budget.ms) <= Budgets.ms
        /\ MaxRunnableWidth(wf) <= Budgets.parallel

\* verify_node_resources (V2).
VerifyNodeResources(c, n) ==
    /\ n.kind = "query" => \A id \in n.capability : \E cap \in Named(c.capabilities, id) :
           /\ cap.status = "approved_mvp"
           /\ cap.query \in Ids(c.queries)
           /\ \A r \in cap.recipe : \E d \in Named(c.datasets, r.dataset) : ShapesOf(d, r.shape) # {}
    /\ n.kind = "resolve" => n.role = {"resolver"}

\* parameter_type: the type a query declares, as a policy type.
ParameterType(kind) == CASE kind = "array_bigint" -> "integer_array"
                         [] kind = "decimal"      -> "currency"
                         [] OTHER                 -> kind

\* What the query of a node asks for.
AskedBy(c, n) ==
    UNION {ToSet(QueryOf(c, cap).parameters) : cap \in
              {cap \in ToSet(c.capabilities) : n.kind = "query" /\ cap.id \in n.capability}}

\* verify_input (V3, V8, V11).
VerifyInput(c, wf, n, input) ==
    /\ input.source = "authorized_scope" =>
           input.parameter = "office_ids" /\ input.kind = "integer_array"
    /\ \A from \in input.from : \E producer \in Named(wf.nodes, from) :
           /\ Before(wf, from, n.id)
           /\ input.source = "safe_prior_selection" => producer.kind = "interrupt"
           /\ \A slot \in input.slot : \E output \in producer.outputs :
                  output.slot = slot /\ output.kind = input.kind
    /\ \A p \in AskedBy(c, n) : p.name = input.parameter =>
           /\ ParameterType(p.kind) = input.kind
           /\ p.required /\ input.source = "exact_sensitive_input" => input.kind = "string"

VerifyNode(c, wf, allowed, n) ==
    /\ VerifyNodeResources(c, n)
    /\ n.kind = "branch" => n.refers \subseteq Ids(wf.nodes)
    /\ n.budget.queries > 0 => OfficeBinding \in ToSet(n.inputs)
    /\ n.capability \subseteq allowed
    /\ \A p \in AskedBy(c, n) :
           p.required => \E input \in ToSet(n.inputs) : input.parameter = p.name
    /\ \A input \in ToSet(n.inputs) : VerifyInput(c, wf, n, input)
    /\ n.kind = "interrupt" => n.refers \subseteq ReachableFrom(wf, n.id)

\* verify, for a principal that may use the capabilities of allowed.
Verify(c, wf, allowed) ==
    /\ ~IsCyclic(wf)
    /\ VerifyShape(wf)
    /\ VerifyBudget(wf)
    /\ \A n \in ToSet(wf.nodes) : VerifyNode(c, wf, allowed, n)
=============================================================================
