--------------------------- MODULE CatalogServing ---------------------------
(***************************************************************************)
(* The catalog a process serves, while the knowledge files are edited:     *)
(* ChatAppState::new (crates/chat/src/api/mod.rs) loads and validates the  *)
(* files when a process starts, prepares the statements against the        *)
(* database when it is configured to, and does not start otherwise.        *)
(*                                                                         *)
(* An edit changes one field of one file.  MaxCatalogEdits bounds how far  *)
(* the files may drift from the ones that are shipped.                     *)
(***************************************************************************)
EXTENDS Statement

CONSTANTS InitialFiles, MaxCatalogEdits

\* The files that are shipped: the lists are lists, and the inputs keep to the
\* conventions the clarification planner relies on.
ListedByConvention(f) ==
    /\ {"garbled", "capabilities", "inputs", "bindings"} \subseteq DOMAIN f
    /\ f.garbled \in BOOLEAN
    /\ f.capabilities \in Seq(ToSet(f.capabilities))
    /\ f.inputs \in Seq(ToSet(f.inputs))
    /\ InputsByConvention(f)

ASSUME ShippedFiles == ListedByConvention(InitialFiles)
ASSUME EditsBound   == MaxCatalogEdits \in Nat

VARIABLES files, served, catalogEdits
catalogVars == <<files, served, catalogEdits>>

CatalogTypeOK ==
    /\ files.garbled \in BOOLEAN
    /\ Cardinality(served) <= 1
    /\ catalogEdits \in 0 .. MaxCatalogEdits

CatalogInit ==
    /\ files = InitialFiles
    /\ served = {}
    /\ catalogEdits = 0

-----------------------------------------------------------------------------
(* The files *)

CapabilityEdits(f, i) ==
    {[f EXCEPT !.capabilities[i].status = s] : s \in {"candidate", "rejected"}}
    \union {[f EXCEPT !.capabilities[i].maxLimit = {2000}]}
    \union (UNION {{[f EXCEPT !.capabilities[i].policies[j].required = {~(TRUE \in @)}],
                    [f EXCEPT !.capabilities[i].policies[j].default = {}],
                    [f EXCEPT !.capabilities[i].policies[j].hardCap = {}],
                    [f EXCEPT !.capabilities[i].policies[j].userRequired = {TRUE}]}
                   : j \in DOMAIN f.capabilities[i].policies})

QueryEdits(f, i) ==
    {[f EXCEPT !.queries[i].parameters[j].required = ~@] : j \in DOMAIN f.queries[i].parameters}
    \union {[f EXCEPT !.queries[i].sql.columns = << >>]}

EditsOf(f) ==
    (UNION {CapabilityEdits(f, i) : i \in DOMAIN f.capabilities})
    \union (UNION {QueryEdits(f, i) : i \in DOMAIN f.queries})
    \union {[f EXCEPT !.inputs = RemoveAt(@, i)] : i \in DOMAIN f.inputs}
    \union {[f EXCEPT !.bindings = [n \in DOMAIN @ \ {name} |-> @[n]]] : name \in DOMAIN f.bindings}
    \union {[f EXCEPT !.areas[i].status = "deferred"] : i \in DOMAIN f.areas}
    \union {[f EXCEPT !.datasets[i].exempt = {}] : i \in DOMAIN f.datasets}
    \union {[f EXCEPT !.garbled = TRUE]}

\* A process that runs has read its files: an edit is for the next one.
EditCatalog ==
    /\ served = {}
    /\ catalogEdits < MaxCatalogEdits
    /\ files' \in EditsOf(files)
    /\ catalogEdits' = catalogEdits + 1
    /\ UNCHANGED served

-----------------------------------------------------------------------------
(* The process *)

\* The catalog ChatAppState::new accepts, with CATALOG_VALIDATE_ON_STARTUP or
\* not, as a set of one or none.
Accepted(f, onStartup) ==
    {c \in {Load(parsed) : parsed \in {parsed \in {f} : Parses(parsed)}} :
        Validate(c) /\ (onStartup => ValidateRuntime(c))}

\* A process starts on the files of that moment.
ServeCatalog == \E onStartup \in BOOLEAN :
    /\ served = {}
    /\ Accepted(files, onStartup) # {}
    /\ served' = Accepted(files, onStartup)
    /\ UNCHANGED <<files, catalogEdits>>

\* Or it does not start at all.
RefuseCatalog == \E onStartup \in BOOLEAN :
    /\ served = {}
    /\ Accepted(files, onStartup) = {}
    /\ UNCHANGED catalogVars

\* A process stops, to be started on other files.
StopServing ==
    /\ served # {}
    /\ served' = {}
    /\ UNCHANGED <<files, catalogEdits>>

CatalogNext == EditCatalog \/ ServeCatalog \/ RefuseCatalog \/ StopServing

CatalogSpec == CatalogInit /\ [][CatalogNext]_catalogVars

-----------------------------------------------------------------------------

\* What a user may have said: up to two of the fields, in one form.  Two are
\* enough: no statement needs more than one value that has no default.
SaidFields == {"from_date", "limit_value", "person_name", "client_id", "office"}
PossibleFacts == UNION {{[f \in said |-> form] : form \in {"text", "integer"}}
                        : said \in {said \in SUBSET SaidFields : Cardinality(said) <= 2}}

Request(facts) == [facts |-> facts, metric |-> {}, temporalError |-> FALSE]

\* A catalog that passes validation never leaves the user without a question:
\* whatever was said, when a required parameter of an approved capability is
\* missing, it is not a date (those have defaults), and the clarification
\* planner, which has its own idea of what is required and of what is already
\* known, asks for it (validator.rs, tool/parameters.rs, clarification_planner.rs).
ServedPlansOrAsks ==
    \A c \in served : \A cap \in ToSet(c.capabilities) : cap.status = "approved_mvp" =>
        \A facts \in PossibleFacts :
            LET plan  == PlanSelectedCapability(c, cap.id, Request(facts))
                Asked(name) == \E input \in RequiredInputs(c, cap) :
                                   /\ name \in ToSet(input.parameters)
                                   /\ input.id \in MissingFields(c, cap, facts)
            IN  \A name \in plan.missing : name \notin {"from_date", "to_date"} /\ Asked(name)

\* The parameters a planned capability may have values for.
PlannedParams(c, cap) ==
    {ParamsFromVerified(c, cap, facts) : facts \in {facts \in PossibleFacts :
        PlanSelectedCapability(c, cap.id, Request(facts)).outcome = "planned"}}

\* The compiler does not say what a query may cost in all.
OverBudget(c, cap) ==
    \/ \E rows \in cap.maxLimit : rows > Budgets.rows
    \/ \E ms \in QueryOf(c, cap).timeout : ms > Budgets.ms

\* The capability behind the shape of a probe is no longer approved.
Unbacked(c, cap) == \E policy \in ToSet(cap.policies) : \E probe \in policy.probe :
                        Backing(c, probe) = {}

\* What a served catalog plans, it can run: the workflow that is compiled for
\* a planned capability passes the twelve checks of verify, which the runtime
\* never calls, except that validation lets a capability declare more rows or
\* time than the runtime budgets, and lets the capability behind a probe lose
\* its approval, so that the compilation fails (validator.rs, compile.rs,
\* verify.rs, runtime/execution.rs).
PlannedRuns ==
    \A c \in served : \A cap \in ToSet(c.capabilities) : cap.status = "approved_mvp" =>
        \A resolved \in PlannedParams(c, cap) :
            LET wf == CompileWithFacts(c, cap, PlannedFacts(c, resolved))
            IN  \/ wf.result = "compiled" /\ Verify(c, wf, Ids(c.capabilities))
                \/ OverBudget(c, cap)
                \/ Unbacked(c, cap)

\* A recipe filter whose parameter neither the policy nor the query requires:
\* the compiled node does not declare it.
UndeclaredFilter(c, cap) ==
    \E r \in cap.recipe : \E f \in ToSet(r.filters) :
        ~(f.parameter \subseteq {p.name : p \in ToSet(AcquiredPolicies(c, cap))})

\* The nodes of a workflow that send a statement, with the capability of each.
StatementNodes(c, wf) ==
    UNION {{[node |-> n, cap |-> cap] : cap \in {cap \in ToSet(c.capabilities) : cap.id \in n.capability}}
           : n \in ToSet(wf.nodes)}

\* Limits and numbers of rows on both sides of the cap.
AroundCap(cap) == (EffectiveRowCap(cap) - 1) .. (EffectiveRowCap(cap) + 2)

\* What is shown to a user who asked for so many rows, of those there are.
Shown(c, cap, request, asked, available) ==
    Fetch(c, cap, request, ClampHardCaps(cap, asked), available)

\* Rows that are there and not shown are told of, unless the user has as many
\* as he asked for.
ShortfallTold(c, cap, request, asked, available) ==
    LET f == Shown(c, cap, request, asked, available)
    IN  f.shown < available => f.truncated \/ f.shown = asked

WithinHardCap(cap, asked) == \A rows \in HardCap(cap) : asked <= rows

\* A shortfall is told of, except where clamp_hard_caps has cut the request:
\* the statement then sees a limit within its cap and reports nothing.  None is
\* told of that is none, and a limited statement never shows more than its cap.
RowsTold(c, cap, request, asked, available) ==
    LET f == Shown(c, cap, request, asked, available)
    IN  /\ WithinHardCap(cap, asked) => ShortfallTold(c, cap, request, asked, available)
        /\ f.truncated => f.shown < available
        /\ "limit" \in NamesOf(StatementParameters(c, cap)) => f.shown <= EffectiveRowCap(cap)

TruncationTold(c, cap, request) ==
    \A asked, available \in AroundCap(cap) : RowsTold(c, cap, request, asked, available)

\* What is planned and compiled is executed: at every node that queries, after
\* the plan's values went through the declared inputs, the request is built
\* again, no required parameter is missing, and the binds are those of the
\* placeholders the composer numbered, unused filters included; except where
\* validation lets a recipe filter depend on an optional parameter; and a
\* statement that shows fewer rows than there are, and than were asked for,
\* says so unless a hard cap cut the request (run.rs, data_executor.rs,
\* compose.rs, execution/repository.rs).
PlannedStatementsRun ==
    \A c \in served : \A cap \in ToSet(c.capabilities) : cap.status = "approved_mvp" =>
        \A resolved \in PlannedParams(c, cap) :
            \A s \in StatementNodes(c, CompileWithFacts(c, cap, PlannedFacts(c, resolved))) :
                LET bindings == BindingsFor(s.node)
                    request  == BuildQueryRequest(c, s.cap, bindings, resolved)
                IN  \/ UndeclaredFilter(c, s.cap)
                    \/ /\ Sends(c, s.cap, bindings, request, TRUE)
                       /\ Binds(c, s.cap) = Placeholders(c, s.cap)
                       /\ TruncationTold(c, s.cap, request)
=============================================================================
