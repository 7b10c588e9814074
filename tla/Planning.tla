------------------------------ MODULE Planning ------------------------------
(***************************************************************************)
(* Planning one capability of a catalog for one turn, and asking for what  *)
(* is missing: assistant/execution/tool/{parameters,planning}.rs,          *)
(* knowledge/dataset/resolve.rs and                                        *)
(* assistant/context/clarification_planner.rs.                             *)
(*                                                                         *)
(* A fact is a ConstraintField with the form of its value: a text, digits  *)
(* (a text that parses as an integer) or an integer.  What the user said   *)
(* is a function from the fields he named to those forms.                  *)
(***************************************************************************)
EXTENDS Catalog

NoFacts == [f \in {} |-> "text"]

-----------------------------------------------------------------------------
(* parameters.rs *)

\* bind_value: a text fits an integer parameter only when it parses.
BindsValue(kind, form) == kind = "integer" => form # "text"

\* bind_parameter, by the precedence the catalog declares.
BindParameter(c, facts, p) ==
    /\ p.name \in DOMAIN c.bindings
    /\ \E field \in ToSet(c.bindings[p.name]) :
           field \in DOMAIN facts /\ BindsValue(p.kind, facts[field])

\* resolve_policy_default: the default of the policy with this name, unless
\* the policy says required.  An evaluation context is always at hand here.
ResolvePolicyDefault(cap, name) ==
    \E policy \in ToSet(cap.policies) :
        policy.name = name /\ ~policy.required /\ policy.default # {}

\* default_required_parameter.
DefaultRequiredParameter(p) == p.required /\ p.name \in {"limit", "top_n"}

\* params_from_verified: the parameters that get a value ...
ParamsFromVerified(c, cap, facts) ==
    {p.name : p \in {p \in ToSet(QueryOf(c, cap).parameters) :
        /\ ~ServerFilled(p)
        /\ \/ BindParameter(c, facts, p)
           \/ ResolvePolicyDefault(cap, p.name)
           \/ DefaultRequiredParameter(p)}}

\* ... and, when a required one does not, the first of those.
MissingParameter(c, cap, facts) ==
    LET Unfilled(p) == p.required /\ ~ServerFilled(p) /\ p.name \notin ParamsFromVerified(c, cap, facts)
        parameters  == QueryOf(c, cap).parameters
        unfilled    == {i \in DOMAIN parameters : Unfilled(parameters[i])}
    IN  {parameters[i].name : i \in {i \in unfilled : \A j \in unfilled : i <= j}}

\* verify_capability_metric: a metric the catalog does not know is no signal.
VerifyCapabilityMetric(c, cap, metric) ==
    \A raw \in metric : \A id \in ResolveMetricId(c, raw) :
        \E declared \in cap.metrics : id \in ResolveMetricId(c, declared)

\* executable_capability.
Executable(c, id) == {cap \in Named(c.capabilities, id) : cap.status = "approved_mvp"}

-----------------------------------------------------------------------------
(* planning.rs and resolve.rs *)

\* valid_filter_value, for the one scalar bind_value makes of a parameter of
\* this kind: between and in take lists.  A literal of the recipe is valid.
ValidFilterValue(slot, operator, kind) ==
    /\ operator \notin {"between", "in"}
    /\ \/ kind = slot.kind /\ kind \in {"integer", "decimal"}
       \/ {kind, slot.kind} \subseteq {"date", "string"}

FitsFilter(c, cap, f, slot) ==
    \A p \in ToSet(QueryOf(c, cap).parameters) :
        p.name \in f.parameter => ValidFilterValue(slot, f.operator, p.kind)

\* resolve_recipe: a filter mapped from a parameter needs that parameter, an
\* optional one too, and a value that fits; an exact identifier is left to the
\* transient input.
ResolvesRecipe(c, cap, params) ==
    \A r \in cap.recipe : \E d \in Named(c.datasets, r.dataset) : \E s \in ShapesOf(d, r.shape) :
        /\ r.orderBy \subseteq s.orderBy
        /\ \A f \in ToSet(r.filters) : \E slot \in Named(d.filters, f.filter) :
               /\ f.operator \in slot.operators
               /\ (f.parameter # {}) # (f.value # {})
               /\ slot.exact \/ (f.parameter \subseteq params /\ FitsFilter(c, cap, f, slot))
        /\ r.projection \subseteq NamesOf(OutputFields(d, s))

\* What validate does not check either: a recipe filters by an exact
\* identifier, or by what its query requires of the user, of the filter's kind.
FiltersByRequired(c) ==
    \A cap \in ToSet(c.capabilities) : \A r \in cap.recipe : \A d \in Named(c.datasets, r.dataset) :
        \A f \in ToSet(r.filters) : \A slot \in Named(d.filters, f.filter) :
            \/ slot.exact
            \/ /\ FitsFilter(c, cap, f, slot)
               /\ \A name \in f.parameter : \E p \in ToSet(QueryOf(c, cap).parameters) :
                      p.name = name /\ p.required /\ ~ServerFilled(p)

\* plan_selected_capability_verified: "planned" with the parameters it binds,
\* or the reason it fails.  A request is [facts, metric, temporalError].
PlanSelectedCapability(c, id, request) ==
    IF request.temporalError THEN [outcome |-> "temporal", missing |-> {}]
    ELSE IF Executable(c, id) = {} THEN [outcome |-> "not_executable", missing |-> {}]
    ELSE LET cap     == CHOOSE cap \in Executable(c, id) : TRUE
             missing == MissingParameter(c, cap, request.facts)
             params  == ParamsFromVerified(c, cap, request.facts)
         IN  IF ~VerifyCapabilityMetric(c, cap, request.metric) THEN [outcome |-> "metric", missing |-> {}]
             ELSE IF missing # {} THEN [outcome |-> "missing", missing |-> missing]
             ELSE IF ~ResolvesRecipe(c, cap, params) THEN [outcome |-> "recipe", missing |-> {}]
             ELSE [outcome |-> "planned", missing |-> {}]

-----------------------------------------------------------------------------
(* clarification_planner.rs *)

\* required_inputs: the inputs that cover the required parameters.
RequiredInputs(c, cap) ==
    {input \in ToSet(c.inputs) :
        \E p \in ToSet(QueryOf(c, cap).parameters) :
            p.required /\ ~ServerFilled(p) /\ p.name \in ToSet(input.parameters)}

\* limit_default: the default limit, inside the bounds of input and guards.
LimitDefault(c, cap) ==
    {limit \in cap.defaultLimit :
        /\ \E input \in RequiredInputs(c, cap) :
               /\ input.id = "limit"
               /\ \A min \in (IF input.min = {} THEN {1} ELSE input.min) : limit >= min
               /\ \A max \in input.max : limit <= max
        /\ \A max \in cap.maxLimit : limit <= max}

\* Deviation: every input counts as satisfied by a fact of any field.
AnyFactSatisfies(c, cap, input, facts) == DOMAIN facts # {} \/ LimitDefault(c, cap) # {}

\* input_satisfied.  A limit's mode comes with its value: the extractor, the
\* reply and the default set both, and no other mode is ever said.
InputSatisfied(c, cap, input, facts) ==
    CASE input.id = "date_range" -> {"from_date", "to_date"} \subseteq DOMAIN facts
      [] input.id = "limit"      -> "limit_value" \in DOMAIN facts \/ LimitDefault(c, cap) # {}
      [] input.id = "search"     -> "person_name" \in DOMAIN facts
      [] OTHER                   -> FALSE

\* What input_satisfied takes for granted of the inputs it knows by their id,
\* and validate does not check: the period is of dates, the limit is of rows,
\* and a name that is searched for is what the user said.
InputsByConvention(c) ==
    \A input \in ToSet(c.inputs) :
        /\ input.id = "date_range" => input.type = "date_range"
        /\ input.id = "limit"      => ToSet(input.parameters) \subseteq {"limit", "top_n"}
        /\ input.id = "search"     =>
               /\ input.type = "text"
               /\ \A name \in ToSet(input.parameters) \intersect DOMAIN c.bindings :
                      "person_name" \in ToSet(c.bindings[name])

\* ClarificationPlanner::candidate: the fields to ask for.
MissingFields(c, cap, facts) ==
    {input.id : input \in {input \in RequiredInputs(c, cap) : ~InputSatisfied(c, cap, input, facts)}}

\* field_validation and same_input: two candidates ask for a date range alike
\* when their guards allow the same number of days.
SameInput(caps, input) == input = "date_range" => Cardinality({cap.maxDays : cap \in caps}) = 1

\* ClarificationPlanner::plan: one candidate with nothing missing is
\* complete, one with something missing is asked about without options, and
\* several, or none, are offered to choose from, the shared fields once.
PlanClarification(c, ids, facts) ==
    LET known      == {id \in ids : Executable(c, id) # {}}
        caps       == UNION {Executable(c, id) : id \in known}
        Fields(id) == MissingFields(c, CHOOSE cap \in Executable(c, id) : TRUE, facts)
        shared     == {f \in UNION {Fields(id) : id \in known} :
                          (\A id \in known : f \in Fields(id)) /\ SameInput(caps, f)}
        each       == [id \in known |-> Fields(id) \ shared]
    IN  IF Cardinality(known) # 1
        THEN [result |-> "clarify", kind |-> "select_option", each |-> each, fields |-> shared]
        ELSE [result |-> IF shared = {} THEN "complete" ELSE "clarify",
              kind |-> "collect_fields", each |-> NoFacts, fields |-> shared]
=============================================================================
