------------------------------ MODULE Catalog ------------------------------
(***************************************************************************)
(* The knowledge catalog: how the files become a catalog                   *)
(* (knowledge/catalog/loader.rs), what KnowledgeValidator::validate,       *)
(* validate_dataset and validate_runtime refuse, and what a process that   *)
(* starts serves (crates/chat/src/api/mod.rs).                             *)
(*                                                                         *)
(* Every validator function is an operator of its name; validate is the    *)
(* conjunction of its checks, so which one refuses first is left out.      *)
(* An Option is the set of its value, or {}.  A list is a sequence where   *)
(* its order or its duplicates matter, and a set otherwise.                *)
(*                                                                         *)
(* Data abstracted: the text of a statement is what the validator looks    *)
(* for in it; the prose of a capability is the claims it makes; a request  *)
(* shape is complete or not; a date, a limit, a label is left out.         *)
(***************************************************************************)
EXTENDS Integers, Sequences, FiniteSets, SequencesExt

Ids(entries) == {e.id : e \in ToSet(entries)}

Named(entries, id) == {e \in ToSet(entries) : e.id = id}

NamesOf(fields) == {f.name : f \in ToSet(fields)}

\* A parameter whose value is not the planner's to find.
ServerFilled(p)  == p.source \in {"authorized_scope", "transient_sensitive_input"}
UserRequired(p)  == p.required /\ p.source # "authorized_scope"

QueryOf(c, cap) == CHOOSE q \in ToSet(c.queries) : q.id = cap.query

-----------------------------------------------------------------------------
(* KnowledgeLoader: a missing directory is an empty list, a file that does *)
(* not parse fails the load *)

\* DefaultExpr::parse: the allowed expressions, and what each evaluates to.
DefaultKind(expr) ==
    CASE expr \in {"business_today", "wall_today", "business_today - 30d",
                   "start_of_month(business_today)"} -> "date"
      [] expr = "authorized_scope" -> "array"
      [] expr = "unbounded"        -> "unbounded"
      [] expr = "10"               -> "integer"
      [] OTHER                     -> "refused"

\* read_type.
PolicyTypes == {"date", "integer", "integer_array", "string", "currency"}

ParsesPolicy(raw) ==
    /\ raw.type \subseteq PolicyTypes /\ raw.type # {}
    /\ \A expr \in raw.default : DefaultKind(expr) # "refused"

\* parse_parameters_block: what a policy leaves out is false or empty.
ParsePolicy(raw) ==
    [name |-> raw.name, kind |-> CHOOSE t \in raw.type : TRUE,
     required |-> TRUE \in raw.required, default |-> raw.default,
     userRequired |-> TRUE \in raw.userRequired,
     hardCap |-> raw.hardCap, resolution |-> raw.resolution, probe |-> raw.probe]

\* parse_capability.
ParseCapability(raw) ==
    [raw EXCEPT !.policies = [i \in DOMAIN @ |-> ParsePolicy(@[i])]]

Parses(f) ==
    /\ ~f.garbled
    /\ \A cap \in ToSet(f.capabilities) : \A raw \in ToSet(cap.policies) : ParsesPolicy(raw)

\* load_classification_policy: the defaults when there is no file.
LoadClassification(f) ==
    IF f.classification = {}
    THEN [gap |-> 5, floor |-> 40, others |-> "other_activity", label |-> TRUE]
    ELSE CHOOSE policy \in f.classification : TRUE

Load(f) ==
    [f EXCEPT !.capabilities   = [i \in DOMAIN @ |-> ParseCapability(@[i])],
              !.classification = LoadClassification(f)]

-----------------------------------------------------------------------------
(* KnowledgeValidator: the registries *)

\* KnowledgeCatalog::resolve_metric_id, over ids and aliases.
ResolveMetricId(c, raw) ==
    LET Spelled(m) == raw = m.id \/ raw \in m.aliases
        hits       == SelectSeq(c.metrics, Spelled)
    IN  IF hits = << >> THEN {} ELSE {Head(hits).id}

ValidateClassificationPolicy(policy) ==
    /\ 0 < policy.gap /\ policy.gap < 100
    /\ 0 < policy.floor /\ policy.floor < 100
    /\ policy.others # "" /\ policy.label

ValidateClassificationAgainstCatalog(c) ==
    /\ ValidateClassificationPolicy(c.classification)
    /\ c.classification.others \notin Ids(c.capabilities)

ValidateUniqueIds(entries) ==
    /\ "" \notin Ids(entries)
    /\ Cardinality(Ids(entries)) = Len(entries)

ValidateAllIds(c) ==
    \A entries \in {c.areas, c.domains, c.schemas, c.metrics, c.capabilities, c.queries,
                    c.policies, c.responses, c.inputs} : ValidateUniqueIds(entries)

DataAreaStatuses == {"included_mvp_foundation", "included_mvp_domain", "conditional",
                     "secondary", "deferred", "deferred_group", "rejected",
                     "rejected_group", "out_of_scope"}
Statuses         == {"approved_mvp", "candidate", "deferred", "rejected"}
OutputModes      == {"total", "top_n", "monthly_breakdown", "monthly_top_n", "list", "summary"}
QueryDatabases   == {"fineract", "app"}
ParameterTypes   == {"date", "integer", "string", "decimal", "array_bigint"}

IsDeferredOrRejected(status) ==
    status \in {"deferred", "deferred_group", "rejected", "rejected_group", "out_of_scope"}

ValidateStatuses(c) ==
    /\ \A a \in ToSet(c.areas)          : a.status \in DataAreaStatuses
    /\ \A d \in ToSet(c.domains)        : d.status \in Statuses
    /\ \A cap \in ToSet(c.capabilities) : cap.status \in Statuses
    /\ \A q \in ToSet(c.queries)        : q.database \in QueryDatabases

ValidateAreaRefs(c, refs) == refs \subseteq Ids(c.areas)

BlockedAreas(c) == {a.id : a \in {a \in ToSet(c.areas) : IsDeferredOrRejected(a.status)}}

ValidateGenericLayer(c, layer) ==
    \A item \in ToSet(layer) :
        /\ item.checks
        /\ ValidateAreaRefs(c, item.areas)
        /\ item.domain \subseteq Ids(c.domains)

ParametersNamed(c, name) ==
    UNION {{p \in ToSet(q.parameters) : p.name = name} : q \in ToSet(c.queries)}

\* validate_parameter_bindings: in both directions.
ValidateParameterBindings(c) ==
    /\ \A q \in ToSet(c.queries) : \A p \in ToSet(q.parameters) :
           ServerFilled(p) \/ p.name \in DOMAIN c.bindings
    /\ \A name \in DOMAIN c.bindings : ParametersNamed(c, name) # {}

InputKind(type) == CASE type = "date_range" -> "date"
                     [] type = "integer"    -> "integer"
                     [] type = "text"       -> "string"

ValidateParameterInputRegistry(c) ==
    /\ \A i, j \in DOMAIN c.inputs : \A k \in DOMAIN c.inputs[i].parameters :
           \A l \in DOMAIN c.inputs[j].parameters :
               c.inputs[i].parameters[k] = c.inputs[j].parameters[l] => i = j /\ k = l
    /\ \A input \in ToSet(c.inputs) :
           /\ \A name \in ToSet(input.parameters) :
                  /\ ParametersNamed(c, name) # {}
                  /\ \A p \in ParametersNamed(c, name) :
                         p.source # "authorized_scope" /\ p.kind = InputKind(input.type)
           /\ IF input.type = "date_range"
              THEN ToSet(input.parameters) = {"from_date", "to_date"}
              ELSE Len(input.parameters) = 1

-----------------------------------------------------------------------------
(* KnowledgeValidator: the capabilities *)

ShapesOf(d, id) == {s \in ToSet(d.shapes) : s.id = id}

\* ShapeOption::output_fields and ::parameters: the dataset's when it has none.
OutputFields(d, s)    == IF s.outputs = << >> THEN d.outputs ELSE s.outputs
ShapeParameters(d, s) == IF s.parameters = << >> THEN d.parameters ELSE s.parameters

\* validate_parameter_acquisition.
ValidateParameterAcquisition(c, policy) ==
    /\ policy.userRequired => \E i \in ToSet(c.inputs) : policy.name \in ToSet(i.parameters)
    /\ policy.name = "office_ids" => {"verified_user_text", "clarify"} \intersect ToSet(policy.resolution) = {}
    /\ "authorized_data_probe" \in ToSet(policy.resolution) =>
           \E probe \in policy.probe : \E d \in Named(c.datasets, probe.dataset) :
               \E s \in ShapesOf(d, probe.shape) :
                   /\ s.role = "resolver"
                   /\ \E slot \in ToSet(s.produces) : slot.slot = probe.slot /\ slot.kind = policy.kind
    /\ policy.resolution # << >> \/ policy.default # {} \/ policy.userRequired

ValidateCapabilityKind(c, cap) ==
    CASE cap.kind \in {"terminal", "probe"} -> TRUE
      [] cap.kind = "resolver" ->
            \E r \in cap.recipe : \E d \in Named(c.datasets, r.dataset) :
                \E s \in ShapesOf(d, r.shape) : s.role = "resolver"
      [] cap.kind = "composite" ->
            /\ Len(cap.members) >= 2
            /\ \A id \in ToSet(cap.members) :
                   \E m \in Named(c.capabilities, id) : m.status = "approved_mvp"

ValidateRecipeFilter(d, q, f) ==
    \E slot \in Named(d.filters, f.filter) :
        /\ f.operator \in slot.operators
        /\ (f.parameter # {}) # (f.value # {})
        /\ slot.exact => \E p \in ToSet(q.parameters) :
                             p.name \in f.parameter /\ p.source = "transient_sensitive_input"
        /\ f.parameter \subseteq NamesOf(q.parameters)

ValidateDatasetRecipe(c, cap, q) ==
    \A r \in cap.recipe : \E d \in Named(c.datasets, r.dataset) : \E s \in ShapesOf(d, r.shape) :
        /\ r.orderBy \subseteq s.orderBy
        /\ \A f \in ToSet(r.filters) : ValidateRecipeFilter(d, q, f)
        /\ \A name \in r.projection : \E o \in ToSet(OutputFields(d, s)) :
               o.name = name /\ o.sensitivity \notin {"filter_only", "never_use"}

\* Deviation: a default counts although the policy still says required.
DefaultedDates(cap, q) ==
    \A p \in ToSet(q.parameters) : UserRequired(p) /\ p.name \in {"from_date", "to_date"} =>
        \E policy \in ToSet(cap.policies) : policy.name = p.name /\ policy.default # {}

\* validate_clarification_contract.
ValidateClarificationContract(cap, q) ==
    \A p \in ToSet(q.parameters) : UserRequired(p) /\ p.name \in {"from_date", "to_date"} =>
        \E policy \in ToSet(cap.policies) :
            policy.name = p.name /\ ~policy.required /\ policy.default # {}

\* validate_capability_parameter_contract: what the query requires of the
\* user is declared, and asked for by exactly one input.
ValidateCapabilityParameterContract(c, cap, q) ==
    LET required == {p.name : p \in {p \in ToSet(q.parameters) : UserRequired(p)}}
        declared == IF cap.policies = << >> THEN cap.required
                    ELSE {p.name : p \in {p \in ToSet(cap.policies) : p.required \/ p.default # {}}}
    IN  /\ required \subseteq declared
        /\ \A name \in required :
               Cardinality({i \in DOMAIN c.inputs : name \in ToSet(c.inputs[i].parameters)}) = 1
        /\ \A max \in cap.maxLimit : max > 0
        /\ \A days \in cap.maxDays : days > 0
        /\ \A limit \in cap.defaultLimit :
               /\ limit > 0
               /\ "limit" \in cap.required \union cap.optional \union NamesOf(cap.policies)
               /\ "limit" \in NamesOf(q.parameters)
               /\ \A max \in cap.maxLimit : limit <= max

\* The capability loop of validate.
ValidateCapability(c, cap) ==
    /\ cap.status = "approved_mvp" =>
           /\ cap.mode # "summary" => cap.required # {} \/ cap.policies # << >>
           /\ cap.metrics # {}
           /\ cap.shape
    /\ cap.mode \in OutputModes
    /\ cap.domain \in Ids(c.domains)
    /\ cap.query \in Ids(c.queries)
    /\ \A m \in cap.metrics : ResolveMetricId(c, m) # {}
    /\ cap.status = "approved_mvp" =>
           /\ ValidateCapabilityParameterContract(c, cap, QueryOf(c, cap))
           /\ ValidateClarificationContract(cap, QueryOf(c, cap))
           /\ ValidateDatasetRecipe(c, cap, QueryOf(c, cap))
    /\ ValidateCapabilityKind(c, cap)
    /\ \A policy \in ToSet(cap.policies) :
           policy.userRequired \/ policy.resolution # << >> \/ policy.probe # {} =>
               ValidateParameterAcquisition(c, policy)
    /\ ValidateAreaRefs(c, cap.areas)
    /\ cap.areas \intersect BlockedAreas(c) = {}

-----------------------------------------------------------------------------
(* KnowledgeValidator: the queries and their SQL *)

ParameterPosition(q, name) == CHOOSE i \in DOMAIN q.parameters : q.parameters[i].name = name

\* The cast validate_placeholders wants at a placeholder of this type.
CastFits(kind, cast, limit) ==
    CASE kind = "date"         -> cast = "date"
      [] kind = "string"       -> cast = "text"
      [] kind = "decimal"      -> cast = "numeric"
      [] kind = "array_bigint" -> cast = "bigint[]"
      [] kind = "integer"      -> cast \in {"integer", "int4", "bigint"} \/ (cast = "" /\ limit)
      [] OTHER                 -> TRUE

ValidatePlaceholders(q) ==
    /\ DOMAIN q.sql.casts = DOMAIN q.parameters
    /\ \A i \in DOMAIN q.parameters :
           CastFits(q.parameters[i].kind, q.sql.casts[i], q.sql.limitAt = i)

\* currency_join_is_fanout_safe.
CurrencyJoinIsFanoutSafe(sql) == sql.currency \in {"none", "lateral_limit_1"}

ValidateSqlSafety(q) ==
    /\ q.sql.reads /\ q.sql.statements = 1
    /\ ValidatePlaceholders(q)
    /\ CurrencyJoinIsFanoutSafe(q.sql)
    /\ "office_ids" \in NamesOf(q.parameters) =>
           q.sql.officesAt = ParameterPosition(q, "office_ids")
    /\ {"from_date", "to_date"} \subseteq NamesOf(q.parameters) =>
           q.sql.between = <<ParameterPosition(q, "from_date"), ParameterPosition(q, "to_date")>>
    /\ "limit" \in NamesOf(q.parameters) => q.sql.bounded

ValidateQuery(c, q) ==
    /\ q.parameters # << >>
    /\ \A p \in ToSet(q.parameters) : p.name # "" /\ p.kind \in ParameterTypes
    /\ ValidateAreaRefs(c, q.areas)
    /\ q.areas \intersect BlockedAreas(c) = {}
    /\ q.outputs # << >> /\ "" \notin ToSet(q.outputs)
    /\ q.sql.file
    /\ ValidateSqlSafety(q)

\* restricts_by_date.
RestrictsByDate(q) ==
    \E p \in ToSet(q.parameters) : p.source # "authorized_scope"
                                   /\ p.name \in {"from_date", "to_date", "as_of_date"}

\* validate_prose_claims: the title and the description each on its own.
ValidateProseClaims(cap, q) ==
    \A claims \in cap.prose :
        /\ "recency" \in claims  => "ordered" \in claims \/ RestrictsByDate(q)
        /\ "ranking" \in claims  => "ordered" \in claims \/ q.sql.descending
        /\ "sampling" \in claims => q.sql.random

-----------------------------------------------------------------------------
(* validate_dataset *)

ValidateFilterSlot(f) ==
    /\ f.kind \in {"date", "integer", "boolean", "string", "decimal"}
    /\ f.operators # {}
    /\ f.exact => f.kind = "string" /\ f.operators = {"eq"} /\ ~f.caseInsensitive
    /\ f.grammatical

\* A column a request might narrow by has a filter slot, or an exemption.
Narrowable(d, o) ==
    \/ o.kind = "string" /\ o.sensitivity \notin {"pii", "masked_output"}
    \/ o.kind = "bigint" /\ (o.foreignKey \/ \E e \in d.entity : e.idField = o.name)

ValidateShape(d, s) ==
    LET fields == OutputFields(d, s)
        exact  == \E f \in ToSet(d.filters) : f.exact
    IN  /\ s.orderBy \subseteq Ids(d.orderBy)
        /\ s.fragment \/ d.filters = << >>
        /\ fields # << >> /\ "" \notin NamesOf(fields)
        /\ Cardinality(NamesOf(fields)) = Len(fields)
        /\ \A o \in ToSet(fields) :
               /\ o.kind \in {"bigint", "integer", "string", "date", "decimal", "boolean"}
               /\ o.sensitivity \notin {"filter_only", "never_use"}
               /\ Narrowable(d, o) => \/ \E f \in ToSet(d.filters) : o.name \in {f.id, f.expr}
                                      \/ o.name \in d.exempt
        /\ exact => \E o \in ToSet(fields) : o.sensitivity = "masked_output"
        /\ \E o \in ToSet(fields) : o.core
        /\ Cardinality(NamesOf(ShapeParameters(d, s))) = Len(ShapeParameters(d, s))
        /\ exact => \E p \in ToSet(ShapeParameters(d, s)) :
                        p.name = "office_ids" /\ p.kind = "array_bigint" /\ p.required
                        /\ p.source = "authorized_scope"
        /\ s.role = "resolver" => s.produces # << >>

ValidateDataset(d) ==
    LET fields == UNION {ToSet(OutputFields(d, s)) : s \in ToSet(d.shapes)}
    IN  /\ (\E f \in ToSet(d.filters) : "in" \in f.operators) =>
               \A s \in ToSet(d.shapes) : s.rowCap \notin {{}, {0}}
        /\ Cardinality(Ids(d.filters)) = Len(d.filters)
        /\ \A f \in ToSet(d.filters) : ValidateFilterSlot(f)
        /\ Cardinality(Ids(d.orderBy)) = Len(d.orderBy)
        /\ d.shapes # << >> /\ Cardinality(Ids(d.shapes)) = Len(d.shapes)
        /\ \A s \in ToSet(d.shapes) : ValidateShape(d, s)
        /\ \A e \in d.entity :
               /\ \E o \in fields : o.name = e.idField /\ o.kind = "bigint"
                                    /\ o.sensitivity = "public_business"
               /\ e.labels \subseteq {o.name : o \in fields}
        /\ d.exempt \subseteq {o.name : o \in fields}

\* find_completeness_lints: the fatal one.
UnconsumedShape(c, d, s) ==
    ~ \E cap \in ToSet(c.capabilities) : \E r \in cap.recipe : r.dataset = d.id /\ r.shape = s.id

ValidateDatasets(c) ==
    /\ Cardinality(Ids(c.datasets)) = Len(c.datasets)
    /\ \A d \in ToSet(c.datasets) :
           /\ ValidateDataset(d)
           /\ ~d.loanTables
           /\ \A s \in ToSet(d.shapes) : ~UnconsumedShape(c, d, s)

-----------------------------------------------------------------------------

Validate(c) ==
    /\ ValidateClassificationAgainstCatalog(c)
    /\ ValidateAllIds(c)
    /\ ValidateParameterInputRegistry(c)
    /\ ValidateParameterBindings(c)
    /\ ValidateStatuses(c)
    /\ \A d \in ToSet(c.domains) : ValidateAreaRefs(c, d.areas)
    /\ \A layer \in {c.schemas, c.metrics, c.policies, c.responses} : ValidateGenericLayer(c, layer)
    /\ \A cap \in ToSet(c.capabilities) : ValidateCapability(c, cap)
    /\ \A q \in ToSet(c.queries) : ValidateQuery(c, q)
    /\ \A cap \in ToSet(c.capabilities) : ValidateProseClaims(cap, QueryOf(c, cap))
    /\ ValidateDatasets(c)

\* executable_combinations and compose: a statement per shape and ordering.
ExecutableCombinations(d) ==
    UNION {IF s.orderBy = {} THEN {<<s, {}>>} ELSE {<<s, {o}>> : o \in s.orderBy}
           : s \in ToSet(d.shapes)}

\* compose fails without a fragment unless the source is already complete,
\* and for a case-insensitive filter that is not string equality.
Composes(d, s, order) ==
    \/ ~s.fragment /\ d.filters = << >> /\ order = {}
    \/ s.fragment /\ \A f \in ToSet(d.filters) :
                         f.caseInsensitive => f.kind = "string" /\ f.operators = {"eq"}

\* validate_runtime and validate_dataset_runtime: what the database prepares
\* has the declared columns.
ValidateRuntime(c) ==
    /\ \A q \in ToSet(c.queries) : q.database = "fineract" => q.sql.columns = q.outputs
    /\ \A d \in ToSet(c.datasets) : d.database = "fineract" =>
           \A combination \in ExecutableCombinations(d) :
               /\ Composes(d, combination[1], combination[2])
               /\ combination[1].prepared
=============================================================================
