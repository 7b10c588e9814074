------------------------------ MODULE Dialogue ------------------------------
(***************************************************************************)
(* The turns of one job, from what the user says to what he is told or     *)
(* asked: run_with_router, complete_semantic_route and                     *)
(* execute_selected_capability of assistant/execution/runtime, with the    *)
(* reply validation of job/service/clarification_response.rs and the reply *)
(* resolver of assistant/understanding/clarification_resolver.rs.          *)
(*                                                                         *)
(* A message is what can be read from it: the fields the extractor finds   *)
(* (said), the fields whose value occurs in its words (typed), a metric, a *)
(* period that does not parse (bad), a domain or anything else that is no  *)
(* fact (other), the option it spells out (exact), and whether it is more  *)
(* than "others" (meaningful).  What a model decides, the route, the reply *)
(* resolution and the reranking, is any of its possible answers.           *)
(*                                                                         *)
(* A turn is one step here: two turns of one job cannot run at once        *)
(* (ChatJob has the lock and the revisions), and what a run does is        *)
(* WorkflowRunner's; here it completes, fails, or finds several clients.   *)
(***************************************************************************)
EXTENDS Retrieval, Statement

CONSTANTS DialogueCatalog,    \* the catalog that is served
          IndexedIds,         \* the capabilities the vector index holds
          DialogueMessages,   \* what the user may say
          Scopes,             \* the capability sets a principal may have
          MaxNear,            \* how many capabilities a request may be close to
          MaxTurns

\* The catalog passed validation, its lists are lists, and its files keep to
\* the conventions that the planners rely on.
ASSUME CatalogServed ==
    /\ Validate(DialogueCatalog)
    /\ InputsByConvention(DialogueCatalog)
    /\ FiltersByRequired(DialogueCatalog)
    /\ DialogueCatalog.capabilities \in Seq(ToSet(DialogueCatalog.capabilities))
    /\ \A q \in ToSet(DialogueCatalog.queries) : q.parameters \in Seq(ToSet(q.parameters))
ASSUME TurnsBound == MaxTurns \in Nat

VARIABLES pending,   \* the payload of job memory, or {}
          last,      \* how the last turn ended
          scope,     \* the capabilities of this principal
          heard,     \* the fields of the messages so far
          extracted,  \* the deterministic_extraction of job memory
          turns
dialogueVars == <<pending, last, scope, heard, extracted, turns>>

EntityFields == {"person_name", "office", "client_id"}
EntityIds    == {"client:1", "client:2"}
Waiting      == "waiting_for_user_input"

NothingYet == [terminal |-> "none", reason |-> "none", ran |-> {}, bound |-> {},
               cause |-> "none", expressed |-> {}, stale |-> {}]

\* DeterministicExtraction of a message, and one that found nothing.
Extraction(m) == [entities |-> m.said \intersect EntityFields, constraints |-> m.said \ EntityFields,
                  metric |-> m.metric, bad |-> m.bad, other |-> m.other]
NoExtraction  == [entities |-> {}, constraints |-> {}, metric |-> {}, bad |-> FALSE, other |-> FALSE]

DialogueTypeOK ==
    /\ Cardinality(pending) <= 1
    /\ \A p \in pending : /\ p.kind \in {"select_option", "select_entity", "collect_fields", "free_text"}
                          /\ p.attempt \in 0 .. MaxTurns
    /\ last.terminal \in {"none", Waiting, "completed", "blocked_by_policy", "unsupported",
                          "failed_operational", "context_window_exceeded"}
    /\ DOMAIN extracted = DOMAIN NoExtraction
    /\ turns \in 0 .. MaxTurns

DialogueInit ==
    /\ pending = {} /\ last = NothingYet
    /\ scope \in Scopes
    /\ heard = {} /\ turns = 0
    /\ extracted = NoExtraction

-----------------------------------------------------------------------------
(* Facts: extraction.rs, parameters.rs and clarification.rs *)

\* record_extraction_metadata: an extraction that found nothing leaves the one
\* before it in job memory, from whatever turn it is.
Recorded(x, before) == IF x = NoExtraction THEN before ELSE x

FactsOf(fields) == [f \in fields |-> IF f \in {"limit_value", "client_id"} THEN "integer" ELSE "text"]

\* merge_into.
MergeInto(x, intent) == [intent EXCEPT !.entities    = @ \union x.entities,
                                       !.constraints = @ \union x.constraints]

\* request_facts: the extractor first, then the entities of the intent that a
\* model may supply, a person's name only when it was typed.
RequestFacts(m, intent, x) ==
    FactsOf(x.entities \union x.constraints
            \union (intent.entities \intersect {"client_id", "office"})
            \union (intent.entities \intersect {"person_name"} \intersect m.typed))

\* apply_constraint_patch: dates and quantities; other fields are dropped.
ApplyConstraintPatch(intent, patch) ==
    [intent EXCEPT !.constraints = @ \union (patch \intersect {"from_date", "to_date", "limit_value"})]

\* clarification_facts: the patch and the intent's constraints, no entity.
ClarificationFacts(intent, patch) == FactsOf(patch \union intent.constraints)

\* prefer_current_turn_extraction.
PreferCurrentTurn(source, current) ==
    [entities    |-> IF current.entities = {} THEN source.entities ELSE current.entities,
     constraints |-> source.constraints \union current.constraints,
     metric      |-> IF current.metric = {} THEN source.metric ELSE current.metric,
     bad         |-> source.bad \/ current.bad,
     other       |-> source.other \/ current.other]

\* source_intent_snapshot; the prompt is kept as what can be extracted of it.
SourceIntentSnapshot(intent, prompt) ==
    [entities |-> intent.entities, constraints |-> intent.constraints, prompt |-> prompt]

\* pending_clarification_quantity: the limit of an earlier message.
PendingQuantity == heard \intersect {"limit_value"}

\* intent_from_source.
IntentFromSource(p) ==
    MergeInto(p.source.prompt,
        [kind |-> "clarification_reply", entities |-> p.source.entities,
         constraints |-> p.source.constraints \union PendingQuantity])

-----------------------------------------------------------------------------
(* Payloads *)

Payload(kind, each, fields, attempt, source) ==
    [kind |-> kind, each |-> each, fields |-> fields, attempt |-> attempt,
     missing |-> kind # "select_entity", source |-> source]

\* Every option a payload offers; a list of reports also has "others".
Options(p) == DOMAIN p.each \union (IF p.kind = "select_option" THEN {"others"} ELSE {})

\* planned_clarification: complete, or the payload that asks.
PlannedClarification(ids, intent, patch, source, attempt) ==
    LET plan == PlanClarification(DialogueCatalog, ids, ClarificationFacts(intent, patch))
    IN  IF plan.result = "complete" THEN {}
        ELSE {Payload(plan.kind, plan.each, plan.fields, attempt, source)}

\* incremented_clarification.
Incremented(p) == [p EXCEPT !.attempt = @ + 1]

\* clarification_payload of workflow_response: the clients a lookup found.
EntityPayload(source) == Payload("select_entity", [o \in EntityIds |-> {}], {}, 1, source)

\* What the interrupt of a paused workflow asks: the clients its resolver
\* found, without the intent it came from.
NoSource == [entities |-> {}, constraints |-> {}, prompt |-> NoExtraction]
InterruptPayload(options) ==
    [Payload("select_entity", [o \in options |-> {}], {}, 0, NoSource) EXCEPT !.missing = TRUE]

\* continuation_capability.
ContinuationCapability(p) ==
    {o \in Options(p) \ {"others"} : p.missing /\ Cardinality(Options(p) \ {"others"}) = 1}

-----------------------------------------------------------------------------
(* execute_selected_capability *)

Outcome(terminal, reason, next) ==
    [terminal |-> terminal, reason |-> reason, ran |-> {}, bound |-> {},
     cause |-> "none", expressed |-> {}, stale |-> {}, next |-> next]

\* guard_selected_capability.
GuardSelectedCapability(id) == id \in scope

\* The prompt of the snapshot is intent.reason, a model's wording: it repeats
\* what was extracted, or not.
ReasonPrompts(x) == {x, NoExtraction}

\* An invalid period: ask for what is missing, or for the period alone.
AskAgain(id, intent, x, active) ==
    LET attempt == IF active = {} THEN 1 ELSE 1 + (CHOOSE p \in active : TRUE).attempt
    IN  UNION {LET source == SourceIntentSnapshot(intent, prompt)
                   asked  == PlannedClarification({id}, intent, {}, source, attempt)
               IN  IF asked = {} THEN {Payload("free_text", NoFacts, {}, 1, source)} ELSE asked
               : prompt \in ReasonPrompts(x)}

\* What the run of a compiled workflow may come to: an answer, several clients
\* in the rows of a lookup, a pause at the interrupt of a probe, or a failure,
\* which is all there is when the query's statement is not sent.
RunWorkflow(id, wf, sent, intent, x, kept) ==
    {Outcome("failed_operational", reason, kept) : reason \in {"execution_failed", "execution_timed_out"}}
    \union (IF sent \/ \E n \in ToSet(wf.nodes) : n.kind = "branch"
            THEN {Outcome("completed", "execution_completed", kept)} ELSE {})
    \union {Outcome(Waiting, "ambiguous_client_identity",
                    {EntityPayload(SourceIntentSnapshot(intent, prompt))})
            : prompt \in {prompt \in ReasonPrompts(x) : id = "client_lookup" /\ sent}}
    \union {Outcome(Waiting, "ambiguous_client_identity", {InterruptPayload(options)})
            : options \in {options \in {{"client:1"}, EntityIds} :
                              \E n \in ToSet(wf.nodes) : n.kind = "interrupt"}}

\* The workflow of a planned capability, run with the values of the plan, or
\* the failure to compile it; no message holds an exact identifier.
CompileAndRun(id, facts, intent, x, kept) ==
    LET c        == DialogueCatalog
        cap      == CHOOSE cap \in Executable(c, id) : TRUE
        resolved == ParamsFromVerified(c, cap, facts)
        wf       == CompileWithFacts(c, cap, PlannedFacts(c, resolved))
        bindings == BindingsFor(CHOOSE n \in ToSet(wf.nodes) : n.id = Execute)
        request  == BuildQueryRequest(c, cap, bindings, resolved)
    IN  IF wf.result # "compiled"
        THEN {Outcome("failed_operational", "workflow_compile_failed", kept)}
        ELSE {[r EXCEPT !.ran = {id}, !.bound = FieldsBound(c, cap, request)] : r \in
                 RunWorkflow(id, wf, Sends(c, cap, bindings, request, FALSE), intent, x, kept)}

\* The whole of it: an invalid period, a plan that fails, the policy, the run.
\* kept is what becomes of the pending payload unless something new is asked.
ExecuteSelected(id, m, intent, x, active, kept) ==
    LET facts   == RequestFacts(m, intent, x)
        plan    == PlanSelectedCapability(DialogueCatalog, id,
                       [facts |-> facts, metric |-> x.metric, temporalError |-> FALSE])
        asked   == PlanClarification(DialogueCatalog, {id}, ClarificationFacts(intent, {}))
    IN  CASE x.bad -> {Outcome(Waiting, "invalid_temporal_input", {p}) : p \in AskAgain(id, intent, x, active)}
          [] ~x.bad /\ plan.outcome # "planned" /\ asked.result = "complete" ->
                {[Outcome("failed_operational", "planning_inconsistent", kept)
                     EXCEPT !.cause = plan.outcome]}
          [] ~x.bad /\ plan.outcome # "planned" /\ asked.result # "complete" ->
                {Outcome(Waiting, "missing_execution_parameters", {p}) : p \in AskAgain(id, intent, x, active)}
          [] ~x.bad /\ plan.outcome = "planned" /\ ~GuardSelectedCapability(id) ->
                {Outcome("blocked_by_policy", "blocked_by_policy", kept)}
          [] OTHER -> CompileAndRun(id, facts, intent, x, kept)

-----------------------------------------------------------------------------
(* The reply: validate_submission and resolve_pending_clarification *)

\* text_target and text_fact: the fact a text becomes.
TextTarget(input) ==
    {DialogueCatalog.bindings[Head(i.parameters)][1] :
        i \in {i \in Named(DialogueCatalog.inputs, input) : i.type = "text"}}

\* validate_field: the facts an answer becomes.
PatchOf(input) ==
    CASE input = "date_range" -> {"from_date", "to_date"}
      [] input = "limit"      -> {"limit_value"}
      [] OTHER                -> TextTarget(input)

Input(m, option, patch) == [message |-> m, option |-> option, patch |-> patch]

\* A reply of a client that names the payload answers every field of it and,
\* for a list of reports, of the option it picks.
StructuredReplies(p, m) ==
    LET Answered(fields, option) == Input(m, option, UNION {PatchOf(f) : f \in fields})
    IN  IF p.kind = "select_option"
        THEN {Answered(p.fields \union (IF o = "others" THEN {} ELSE p.each[o]), {o})
              : o \in {o \in Options(p) : IF o = "others" THEN m.meaningful ELSE o \in scope}}
        ELSE {Answered(p.fields, {})}

\* What may arrive: a text, with or without an option, or a structured reply.
Replies(p) ==
    UNION {{Input(m, {}, {})} \union {Input(m, {o}, {}) : o \in Options(p) \union {"others"}}
           \union StructuredReplies(p, m) : m \in DialogueMessages}

\* clarification_candidate_allowed: entities are not capabilities of the scope.
CandidateAllowed(id, p) == id \in Options(p) /\ (p.kind = "select_entity" \/ id \in scope)

Resolved(outcome, id) == [outcome |-> outcome, id |-> id]

\* resolve_exact.
ResolveExact(m, p) ==
    CASE m.exact = {"others"}                                -> Resolved("free_form_other", {})
      [] m.exact # {"others"} /\ m.exact \intersect Options(p) # {} -> Resolved("selected", m.exact)
      [] OTHER                                               -> Resolved("none", {})

\* resolve_pending_clarification.
ResolvePending(input, p) ==
    CASE input.option = {} -> ResolveExact(input.message, p)
      [] input.option = {"others"} ->
            Resolved(IF "others" \notin Options(p) THEN "unresolved"
                     ELSE IF input.message.meaningful THEN "new_request" ELSE "free_form_other", {})
      [] OTHER -> IF \A o \in input.option : CandidateAllowed(o, p)
                  THEN Resolved("selected", input.option) ELSE Resolved("unresolved", {})

MaxClarificationAttempts == 3

\* The intent and the extraction a resolved reply continues with:
\* record_source_extraction_metadata.
ContinuationIntent(input, p) ==
    ApplyConstraintPatch(MergeInto(Extraction(input.message), IntentFromSource(p)), input.patch)
ContinuationExtraction(m, p) ==
    Recorded(PreferCurrentTurn(p.source.prompt, Extraction(m)), extracted)

Continue(id, input, p) ==
    ExecuteSelected(id, input.message, ContinuationIntent(input, p),
                    ContinuationExtraction(input.message, p), {p}, {})

\* A payload that names one capability takes any text as facts for it.
Continues(input, p) == ContinuationCapability(p) # {} /\ input.option \in {{}, {"others"}}

ReplyOutcomes(input, p) ==
    LET resolved == ResolvePending(input, p)
    IN  IF Continues(input, p)
        THEN UNION {Continue(id, input, p) : id \in ContinuationCapability(p)}
        ELSE CASE resolved.outcome = "selected" ->
                      UNION {Continue(id, input, p) : id \in resolved.id}
               [] resolved.outcome = "free_form_other" ->
                      {Outcome(Waiting, "clarification_other_selected", {})}
               [] resolved.outcome = "unresolved" ->
                      {IF p.attempt >= MaxClarificationAttempts
                       THEN Outcome(Waiting, "clarification_recovery", {})
                       ELSE Outcome(Waiting, "clarification_unresolved", {Incremented(p)})}
               [] OTHER -> {}

-----------------------------------------------------------------------------
(* The route: complete_semantic_route *)

\* The extraction on record when the router is asked: a reply the pending
\* payload settles or sends on has recorded that of its source prompt.
BeforeRoute(input) ==
    LET replied == {p \in pending : ResolvePending(input, p).outcome # "none"}
    IN  IF replied = {} THEN extracted
        ELSE ContinuationExtraction(input.message, CHOOSE p \in replied : TRUE)

\* And when the route is taken, the message merged in.
OnRecord(input) == Recorded(Extraction(input.message), BeforeRoute(input))

\* What the router may return for a message, with the extraction merged in.
RoutedIntents(m, kinds) ==
    {MergeInto(Extraction(m), [kind |-> kind, entities |-> entities, constraints |-> {}])
     : kind \in kinds, entities \in {{}, {"office"}, {"person_name"}}}

\* ClarificationResolver::resolve: exact, then by embedding, then by a model,
\* whose option id is not compared with the offered ones.
ResolveReply(input, p) ==
    IF input.option = {"others"} THEN {Resolved("free_form_other", {})}
    ELSE {Resolved("selected", {o}) : o \in Options(p) \union {"invented", "ranking"}}
         \union {Resolved("free_form_other", {}), Resolved("unresolved", {}), Resolved("error", {})}

\* A chosen client continues in the capability for a client id.
ContinueWithClient(input, p, id, kept) ==
    IF id \notin EntityIds
    THEN {Outcome("failed_operational", "invalid_client_selection", kept)}
    ELSE ExecuteSelected("client_relationship_by_id", input.message,
             [IntentFromSource(p) EXCEPT !.entities = @ \union {"client_id"}],
             OnRecord(input), {p}, {})

\* The reply branch, for what the resolver decided.
ReplyBranch(input, p, resolved, kept) ==
    CASE resolved.outcome = "unresolved" -> {Outcome(Waiting, "clarification_unresolved", kept)}
      [] resolved.outcome = "free_form_other" \/ resolved.id = {"others"} ->
            {Outcome(Waiting, "clarification_other_selected", {})}
      [] OTHER ->
            UNION {IF p.kind = "select_entity" THEN ContinueWithClient(input, p, id, kept)
                   ELSE ExecuteSelected(id, input.message, IntentFromSource(p),
                                        ContinuationExtraction(input.message, p), {p}, {})
                   : id \in resolved.id}

\* What it leaves on record: a payload that is answered or dropped, of reports,
\* has its source prompt recorded once more.
RecordedByReply(input, p, resolved) ==
    IF \/ resolved.outcome = "free_form_other" \/ resolved.id = {"others"}
       \/ resolved.outcome = "selected" /\ p.kind # "select_entity"
    THEN ContinuationExtraction(input.message, p) ELSE OnRecord(input)

\* What a request may be close to.
NearSets == {near \in SUBSET IndexedIds : Cardinality(near) <= MaxNear}

RetrievalPlan(intent, x, near) ==
    [kind |-> intent.kind, domain |-> "client", allowAll |-> FALSE, allowed |-> scope,
     entities |-> intent.entities, metric |-> x.metric, near |-> near]

\* clarify_retrieval_candidates: the reranker's alternatives that have
\* evidence, or the first three; one that misses nothing is executed.
ClarifyCandidates(input, intent, x, candidates, kept) ==
    LET source == SourceIntentSnapshot(intent, Extraction(input.message))
        asked  == PlannedClarification(candidates, intent, input.patch, source, 1)
    IN  IF asked # {} THEN {Outcome(Waiting, "weak_retrieval_evidence", asked)}
        ELSE UNION {ExecuteSelected(id, input.message, intent, x, {}, kept)
                    : id \in {id \in candidates : Executable(DialogueCatalog, id) # {}}}

\* The verdicts of the reranker: a selected id without evidence is ambiguity,
\* and of the alternatives only those with evidence count.
Verdicts(plan, evidence) ==
    LET Clarified(alternatives) ==
            IF alternatives = {} THEN FirstThree(DialogueCatalog, plan, IndexedIds, evidence)
                                 ELSE {alternatives \intersect evidence}
        Judge(d) ==
            IF d.verdict = "clarify" \/ (d.verdict = "select" /\ ~(d.id \subseteq evidence))
            THEN {Decision("clarify", {}, ids) : ids \in Clarified(d.alternatives)}
            ELSE {d}
    IN  UNION {Judge(d) : d \in Rerank(evidence)}

Conclude(input, intent, x, decision, kept) ==
    CASE decision.verdict = "select" ->
            UNION {ExecuteSelected(id, input.message, intent, x, {}, kept) : id \in decision.id}
      [] decision.verdict = "clarify" ->
            ClarifyCandidates(input, intent, x, decision.alternatives, kept)
      [] decision.verdict = "unsupported" -> {Outcome("unsupported", "unsupported_in_domain", kept)}
      [] decision.verdict = "failed_operational" ->
            {Outcome("failed_operational", "reranker_failed_operational", kept)}

\* The fields whose value an earlier message has left on record.
StaleFields(input) ==
    IF Extraction(input.message) = NoExtraction THEN OnRecord(input).entities ELSE {}

\* The filters the user typed, with what extractor and router read of this
\* message, and those the gate sees: the value on record comes before the one
\* the router read, and the value of an earlier message is not in the words
\* of this one.
TypedFilters(m, intent) == ExpressedFilters(RequestFacts(m, intent, Extraction(m)), m.typed)
FiltersSeen(input, intent) ==
    ExpressedFilters(RequestFacts(input.message, intent, OnRecord(input)),
                     input.message.typed \ StaleFields(input))

\* Retrieval, the sufficiency gate and the reranking of a routed request; a
\* retrieval that fails leaves no evidence.
ReportBranch(input, intent, kept) ==
    LET plans     == {RetrievalPlan(intent, Extraction(input.message), near) : near \in NearSets}
        seen      == FiltersSeen(input, intent)
        Found(plan) == {{}, Retrieve(DialogueCatalog, plan, IndexedIds)}
        verdicts  == UNION {UNION {Verdicts(plan, DropInsufficient(DialogueCatalog, seen, found))
                                   : found \in Found(plan)} : plan \in plans}
    IN  {[r EXCEPT !.expressed = TypedFilters(input.message, intent), !.stale = StaleFields(input)] : r \in
            UNION {Conclude(input, intent, OnRecord(input), decision, kept) : decision \in verdicts}}

-----------------------------------------------------------------------------
(* The turns *)

\* A turn is taken for the first message, and while the job waits.
MayTurn == turns < MaxTurns /\ last.terminal \in {"none", Waiting}

Inputs == IF pending = {} THEN {Input(m, {}, {}) : m \in DialogueMessages}
          ELSE UNION {Replies(p) : p \in pending}

\* The pending payload is saved with the result, or stays as it was; x is the
\* extraction the turn leaves on record.
EndTurn(input, x, outcomes) == \E r \in outcomes :
    /\ pending' = r.next
    /\ last' = [k \in DOMAIN NothingYet |-> r[k]]
    /\ heard' = heard \union input.message.said
    /\ extracted' = x
    /\ turns' = turns + 1
    /\ UNCHANGED scope

\* The reply is decided before the router is asked.
Settled(input, p) == Continues(input, p) \/ ResolvePending(input, p).outcome \in
                        {"selected", "free_form_other", "unresolved"}

\* What a new request leaves of the payload it did not answer.
Kept(input) == {p \in pending : ResolvePending(input, p).outcome # "new_request"}

ContextWindowExceeded == MayTurn /\ \E input \in Inputs :
    EndTurn(input, extracted, {Outcome("context_window_exceeded", "context_window_exceeded", pending)})

ReplyDecided == MayTurn /\ \E p \in pending : \E input \in Replies(p) :
    /\ Settled(input, p)
    /\ EndTurn(input, ContinuationExtraction(input.message, p), ReplyOutcomes(input, p))

\* Everything else needs the router.
Routed(input) == MayTurn /\ input \in Inputs /\ \A p \in pending : ~Settled(input, p)

RouteFails == \E input \in Inputs :
    /\ Routed(input)
    /\ \E reason \in {"semantic_router_unavailable", "intent_route_failed"} :
           EndTurn(input, BeforeRoute(input), {Outcome("failed_operational", reason, Kept(input))})

RouteToReply == \E p \in pending : \E input \in Replies(p) :
    /\ Routed(input)
    /\ \E resolved \in ResolveReply(input, p) :
           /\ resolved.outcome # "error"
           /\ EndTurn(input, RecordedByReply(input, p, resolved),
                      ReplyBranch(input, p, resolved, Kept(input)))

RouteToTalk == \E input \in Inputs :
    /\ Routed(input)
    /\ EndTurn(input, OnRecord(input),
               {Outcome("completed", "greeting", Kept(input)),
                Outcome("completed", "help", Kept(input)),
                Outcome("blocked_by_policy", "unsafe_request", Kept(input))})

\* A report, an out-of-domain hint, or a reply that no resolver could settle,
\* which goes on as a report does.
RouteToReport == \E input \in Inputs :
    /\ Routed(input)
    /\ \E intent \in RoutedIntents(input.message, {"report", "out_of_domain"}) :
           EndTurn(input, OnRecord(input), ReportBranch(input, intent, Kept(input)))

DialogueNext ==
    \/ ContextWindowExceeded \/ ReplyDecided \/ RouteFails
    \/ RouteToReply \/ RouteToTalk \/ RouteToReport

DialogueSpec == DialogueInit /\ [][DialogueNext]_dialogueVars

-----------------------------------------------------------------------------
(* Properties *)

\* planning_inconsistent, the planner's "complete" after a plan that failed,
\* happens only for a metric the capability does not have: the plan and the
\* clarification planner read different facts (the extraction, and the
\* constraints of the intent), and no missing parameter falls between them
\* (runtime/execution.rs against context/clarification_planner.rs).
InconsistentOnlyOnMetric == last.reason = "planning_inconsistent" => last.cause = "metric"

\* What is answered, or offered as an answer, can bind these filters.
Honoured(filters) ==
    \A f \in filters :
        /\ \A id \in last.ran : CapabilityHonours(DialogueCatalog, id, f)
        /\ last.reason = "weak_retrieval_evidence" =>
               \A p \in pending : \A id \in DOMAIN p.each : CapabilityHonours(DialogueCatalog, id, f)

\* A routed request is never answered, and never offered an answer, by a
\* capability that cannot bind a filter the user typed, whatever the models
\* decide, except for a filter that job memory still has an earlier value of
\* while nothing was extracted from this message (retrieval/sufficiency.rs).
RetrievedHonoursFilters == Honoured(last.expressed \ last.stale)

\* And without the exception: the gate reads "the filters this turn's message
\* clearly expressed", because "answering a different question and reporting
\* success" is the worst failure mode this system has
\* (retrieval/sufficiency.rs).
TypedFiltersHonoured == Honoured(last.expressed)

\* A report that is answered is narrowed by every filter the user typed: the
\* office he names "is bound into the approved SQL", and "answering a different
\* question and reporting success" is the worst failure mode this system has
\* (client_random_sample.yaml, retrieval/sufficiency.rs).
AnswerNarrowed == last.terminal = "completed" /\ last.ran # {} => last.expressed \subseteq last.bound
=============================================================================
