----------------------------- MODULE Statement -----------------------------
(***************************************************************************)
(* From a node of a compiled workflow to the rows of its statement: the    *)
(* bindings of the runner (assistant/workflow/run.rs), the request of the  *)
(* data executor (assistant/llm/tool/data_executor.rs), the placeholders   *)
(* of a composed statement (knowledge/dataset/compose.rs), and the binds,  *)
(* the row cap and the timeout of execution/repository.rs.                 *)
(*                                                                         *)
(* A value is there or it is not, except for a limit, which is a number;   *)
(* a placeholder is the type it is cast to.  The text of the SQL, the path *)
(* of its file and the decoding of the columns are left out.               *)
(***************************************************************************)
EXTENDS Compile

CONSTANT GlobalMaxRows  \* global_max_rows of ExecutionLimits
ASSUME RowsBound == GlobalMaxRows \in Nat

LimitNames == {"limit", "top_n"}

-----------------------------------------------------------------------------
(* The request *)

\* bindings_for: the runner has the office scope and what earlier steps put
\* out; it leaves every other declared input null, and an exact identifier out.
BindingsFor(n) ==
    LET From(sources) == {i.parameter : i \in {i \in ToSet(n.inputs) : i.source \in sources}}
        values == From({"authorized_scope", "prior_step", "authorized_data_probe"})
    IN  [values |-> values,
         nulls  |-> {i.parameter : i \in {i \in ToSet(n.inputs) : i.source # "exact_sensitive_input"}}
                    \ values]

\* build_query_request: the plan's values fill the nulls, never a key the node
\* does not declare; the recipe is resolved again, with what there is then.
BuildQueryRequest(c, cap, bindings, resolved) ==
    LET params == bindings.values \union (bindings.nulls \intersect resolved)
    IN  [params |-> params, built |-> ResolvesRecipe(c, cap, params)]

-----------------------------------------------------------------------------
(* The statement: resolve_statement and compose *)

\* The dataset and the shape of a recipe, as a set of one or none.
Selected(c, cap) ==
    UNION {UNION {{[dataset |-> d, shape |-> s, recipe |-> r] : s \in ShapesOf(d, r.shape)}
                  : d \in Named(c.datasets, r.dataset)} : r \in cap.recipe}

\* The statement's own parameters: of the query, or of the shape.
StatementParameters(c, cap) ==
    IF Selected(c, cap) = {} THEN QueryOf(c, cap).parameters
    ELSE LET sel == CHOOSE sel \in Selected(c, cap) : TRUE
         IN  ShapeParameters(sel.dataset, sel.shape)

\* The first entry of a list that is a limit, as a set of one or none.
FirstLimit(entries) ==
    LET limits == {i \in DOMAIN entries : entries[i].name \in LimitNames}
    IN  {entries[i] : i \in {i \in limits : \A j \in limits : i <= j}}

\* limit_param.
LimitParameter(c, cap) == FirstLimit(StatementParameters(c, cap))

Cast(kind, list) == [kind |-> kind, list |-> list]
CastsOf(parameters) == [i \in DOMAIN parameters |-> Cast(parameters[i].kind, FALSE)]

\* The pairs of a filter slot and one of its operators, in their order.
Predicates(d) ==
    FlattenSeq([i \in DOMAIN d.filters |->
        LET operators == SetToSeq(d.filters[i].operators)
        IN  [j \in DOMAIN operators |-> [slot |-> d.filters[i], operator |-> operators[j]]]])

\* predicate: a range has two placeholders, a list one of an array.
PredicateCasts(p) ==
    LET cast == Cast(p.slot.kind, p.operator = "in")
    IN  IF p.operator = "between" THEN <<cast, cast>> ELSE <<cast>>

\* Every predicate is in the statement, whether its filter is used or not.
Placeholders(c, cap) ==
    LET Filters(d) == LET ps == Predicates(d)
                      IN  FlattenSeq([i \in DOMAIN ps |-> PredicateCasts(ps[i])])
    IN  CastsOf(StatementParameters(c, cap))
        \o (IF Selected(c, cap) = {} THEN << >>
            ELSE Filters((CHOOSE sel \in Selected(c, cap) : TRUE).dataset))

-----------------------------------------------------------------------------
(* The binds *)

\* A required parameter without a value fails, an optional one binds null; a
\* list that is declared must be one.  The office scope is the policy's, and a
\* limit that is absent is the row cap.
BindFails(p, limits, request, bindings) ==
    /\ p.name \notin request.params
    /\ ~(p.kind = "array_bigint" /\ p.source = "authorized_scope")
    /\ ~(p.kind = "integer" /\ p \in limits)
    /\ p.required \/ (p.kind = "array_bigint" /\ p.name \in bindings.nulls)

\* A parameter of a transient input is not bound at all.
BoundParameters(parameters) ==
    LET Bound(p) == p.source # "transient_sensitive_input" IN SelectSeq(parameters, Bound)

\* bind_dataset_value: a list is one of integers or of strings.
UnsupportedBind(p) == p.operator = "in" /\ p.slot.kind \notin {"integer", "string"}

\* compose_dataset_binds: a bind for every predicate, null for the filters
\* that are not selected; an exact slot needs the identifier.
DatasetBindsFail(d, identified) ==
    \E p \in ToSet(Predicates(d)) : (p.slot.exact /\ ~identified) \/ UnsupportedBind(p)

\* Deviation: only the filters of the recipe are bound.
SelectedBinds(d, recipe) ==
    LET Chosen(p) == \E f \in ToSet(recipe.filters) : f.filter = p.slot.id /\ f.operator = p.operator
        Bind(binds, p) == Append(binds, Cast(p.slot.kind, p.operator = "in"))
    IN  FoldLeft(Bind, << >>, SelectSeq(Predicates(d), Chosen))

DatasetBinds(d, recipe) ==
    LET Bind(binds, p) == LET bind == Cast(p.slot.kind, p.operator = "in")
                          IN  binds \o [i \in 1 .. (IF p.operator = "between" THEN 2 ELSE 1) |-> bind]
    IN  FoldLeft(Bind, << >>, Predicates(d))

Binds(c, cap) ==
    CastsOf(BoundParameters(StatementParameters(c, cap)))
    \o (IF Selected(c, cap) = {} THEN << >>
        ELSE LET sel == CHOOSE sel \in Selected(c, cap) : TRUE IN DatasetBinds(sel.dataset, sel.recipe))

\* execute_plan_with_sensitive up to the database: the statement is sent.
Sends(c, cap, bindings, request, identified) ==
    /\ request.built
    /\ \A p \in ToSet(BoundParameters(StatementParameters(c, cap))) :
           ~BindFails(p, LimitParameter(c, cap), request, bindings)
    /\ \A sel \in Selected(c, cap) : ~DatasetBindsFail(sel.dataset, identified)

-----------------------------------------------------------------------------
(* The rows *)

\* The hard cap the capability declares for its limit.
HardCap(cap) == UNION {p.hardCap : p \in FirstLimit(cap.policies)}

\* clamp_hard_caps of parameters.rs, when the limit was planned.
ClampHardCaps(cap, limit) == Min({limit} \union HardCap(cap))

EffectiveRowCap(cap) ==
    IF HardCap(cap) = {} THEN GlobalMaxRows ELSE CHOOSE rows \in HardCap(cap) : TRUE

\* truncation_limit: the cap is probed only where it replaces the request.
TruncationLimit(requested, rowCap) ==
    IF \E limit \in requested : limit <= rowCap THEN {} ELSE {rowCap}

\* How many of the rows there are get shown, and whether more were withheld:
\* one row more than the cap is fetched to know.
Fetch(c, cap, request, limit, available) ==
    LET limited   == LimitParameter(c, cap)
        requested == {limit : p \in {p \in limited : p.name \in request.params}}
        probe     == IF limited = {} THEN {} ELSE TruncationLimit(requested, EffectiveRowCap(cap))
        bound     == IF probe = {} THEN requested ELSE {rows + 1 : rows \in probe}
        fetched   == Min({available} \union bound)
        truncated == \E rows \in probe : fetched > rows
    IN  [shown |-> IF truncated THEN CHOOSE rows \in probe : TRUE ELSE fetched,
         truncated |-> truncated]

-----------------------------------------------------------------------------
(* What reaches the rows of what the user said *)

\* The parameters of the plan that narrow the statement: bound as a parameter
\* of it, or through a filter of the recipe.
Narrowing(c, cap, request) ==
    request.params \intersect
        (NamesOf(BoundParameters(StatementParameters(c, cap)))
         \union UNION {UNION {f.parameter : f \in ToSet(r.filters)} : r \in cap.recipe})

FieldsBound(c, cap, request) == UNION {BindingFields(c, name) : name \in Narrowing(c, cap, request)}
=============================================================================
