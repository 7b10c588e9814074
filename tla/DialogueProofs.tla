--------------------------- MODULE DialogueProofs ---------------------------
(***************************************************************************)
(* Proofs about Dialogue, for every catalog, index, set of messages and    *)
(* scope, and whatever the router, the resolver and the reranker decide;   *)
(* about the catalog that CatalogServing serves, over every series of      *)
(* edits; and about the rows a statement shows, for every limit.           *)
(***************************************************************************)
EXTENDS Dialogue, CatalogServing, TLAPS, FiniteSetTheorems, WellFoundedInduction

\* r has the fields of an outcome and no others.
IsOutcome(r) ==
    r = [terminal |-> r.terminal, reason |-> r.reason, ran |-> r.ran, bound |-> r.bound,
         cause |-> r.cause, expressed |-> r.expressed, stale |-> r.stale, next |-> r.next]

\* What Outcome makes, field by field.
LEMMA OutcomeFields ==
    ASSUME NEW terminal, NEW reason, NEW next
    PROVE  LET r == Outcome(terminal, reason, next)
           IN  /\ IsOutcome(r)
               /\ r.terminal = terminal /\ r.reason = reason /\ r.next = next
               /\ r.ran = {} /\ r.expressed = {} /\ r.stale = {}
  BY DEF Outcome, IsOutcome

\* What ran is recorded in the outcome, with the fields it was bound to.
LEMMA RanFields ==
    ASSUME NEW r, IsOutcome(r), NEW ran, NEW s, s = [r EXCEPT !.ran = ran]
    PROVE  /\ IsOutcome(s) /\ s.ran = ran /\ s.reason = r.reason /\ s.next = r.next
           /\ s.expressed = r.expressed
  BY DEF IsOutcome

\* Those fields alone.
LEMMA BoundFields ==
    ASSUME NEW r, IsOutcome(r), NEW bound, NEW s, s = [r EXCEPT !.bound = bound]
    PROVE  /\ IsOutcome(s) /\ s.ran = r.ran /\ s.reason = r.reason /\ s.next = r.next
           /\ s.expressed = r.expressed
  BY DEF IsOutcome

\* So is the plan that contradicts the planner of the questions.
LEMMA CauseFields ==
    ASSUME NEW r, IsOutcome(r), NEW cause, NEW s, s = [r EXCEPT !.cause = cause]
    PROVE  /\ IsOutcome(s) /\ s.expressed = r.expressed
           /\ s.ran = r.ran /\ s.reason = r.reason /\ s.next = r.next
  BY DEF IsOutcome

\* So are the filters of the request, and the values of earlier messages.
Marked(r, expressed, stale) == [r EXCEPT !.expressed = expressed, !.stale = stale]

LEMMA ExpressedFields ==
    ASSUME NEW r, IsOutcome(r), NEW expressed, NEW stale, NEW s, s = Marked(r, expressed, stale)
    PROVE  /\ IsOutcome(s) /\ s.expressed = expressed /\ s.stale = stale
           /\ s.ran = r.ran /\ s.reason = r.reason /\ s.next = r.next
<1>1. s = [terminal |-> r.terminal, reason |-> r.reason, ran |-> r.ran, bound |-> r.bound,
           cause |-> r.cause, expressed |-> expressed, stale |-> stale, next |-> r.next]
  BY DEF IsOutcome, Marked
<1> QED BY <1>1 DEF IsOutcome

\* An outcome that is to be reported: what ran is capability id, and only
\* where the principal's scope has it, and nothing is offered for want of
\* evidence.
OfCapability(r, id) ==
    /\ IsOutcome(r) /\ r.expressed = {}
    /\ r.ran \subseteq {id} /\ r.ran \subseteq scope
    /\ r.reason # "weak_retrieval_evidence"

\* An outcome that Outcome makes, for another reason than weak evidence.
LEMMA PlainOutcome ==
    ASSUME NEW terminal, NEW reason, NEW next, NEW id, reason # "weak_retrieval_evidence"
    PROVE  OfCapability(Outcome(terminal, reason, next), id)
  BY OutcomeFields DEF OfCapability

\* Whatever the run of a workflow comes to is a plain outcome.
LEMMA RunOutcomes ==
    ASSUME NEW id, NEW wf, NEW sent, NEW intent, NEW x, NEW kept,
           NEW r \in RunWorkflow(id, wf, sent, intent, x, kept)
    PROVE  \E terminal, reason, next :
              r = Outcome(terminal, reason, next) /\ reason # "weak_retrieval_evidence"
<1>1. \/ \E reason \in {"execution_failed", "execution_timed_out"} :
            r = Outcome("failed_operational", reason, kept)
      \/ r = Outcome("completed", "execution_completed", kept)
      \/ \E next : r = Outcome(Waiting, "ambiguous_client_identity", next)
  BY DEF RunWorkflow
<1>2. CASE \E reason \in {"execution_failed", "execution_timed_out"} :
            r = Outcome("failed_operational", reason, kept)
  BY <1>2
<1>3. CASE r = Outcome("completed", "execution_completed", kept)
  BY <1>3
<1>4. CASE \E next : r = Outcome(Waiting, "ambiguous_client_identity", next)
  BY <1>4
<1> QED BY <1>1, <1>2, <1>3, <1>4

\* A capability that passed the guard is compiled and run.
LEMMA RunsCapability ==
    ASSUME NEW id \in scope, NEW facts, NEW intent, NEW x, NEW kept,
           NEW r \in CompileAndRun(id, facts, intent, x, kept)
    PROVE  OfCapability(r, id)
<1>1. CASE r = Outcome("failed_operational", "workflow_compile_failed", kept)
  BY <1>1, PlainOutcome
<1>2. CASE \E q, bound, wf, sent : /\ q \in RunWorkflow(id, wf, sent, intent, x, kept)
                                   /\ r = [q EXCEPT !.ran = {id}, !.bound = bound]
  <2>1. PICK q, bound, wf, sent : /\ q \in RunWorkflow(id, wf, sent, intent, x, kept)
                                  /\ r = [q EXCEPT !.ran = {id}, !.bound = bound]
    BY <1>2
  <2>2. OfCapability(q, id)
    BY <2>1, RunOutcomes, PlainOutcome
  <2>3. /\ IsOutcome(r) /\ r.ran = {id} /\ r.reason = q.reason /\ r.expressed = q.expressed
    <3>1. PICK a : a = [q EXCEPT !.ran = {id}]
      OBVIOUS
    <3>2. r = [a EXCEPT !.bound = bound]
      BY <2>1, <3>1
    <3>3. IsOutcome(q)
      BY <2>2 DEF OfCapability
    <3>4. /\ IsOutcome(a) /\ a.ran = {id} /\ a.reason = q.reason /\ a.expressed = q.expressed
      BY <3>1, <3>3, RanFields
    <3>5. /\ IsOutcome(r) /\ r.ran = a.ran /\ r.reason = a.reason /\ r.expressed = a.expressed
      BY <3>2, <3>4, BoundFields
    <3> QED BY <3>4, <3>5
  <2> QED BY <2>2, <2>3 DEF OfCapability
<1> QED BY <1>1, <1>2 DEF CompileAndRun

\* execute_selected_capability asks, fails, is blocked, or runs what it was
\* given.
LEMMA ExecutesSelected ==
    ASSUME NEW id, NEW m, NEW intent, NEW x, NEW active, NEW kept,
           NEW r \in ExecuteSelected(id, m, intent, x, active, kept)
    PROVE  OfCapability(r, id)
<1> DEFINE facts == RequestFacts(m, intent, x)
           plan  == PlanSelectedCapability(DialogueCatalog, id,
                       [facts |-> facts, metric |-> x.metric, temporalError |-> FALSE])
           asked == PlanClarification(DialogueCatalog, {id}, ClarificationFacts(intent, {}))
           again == AskAgain(id, intent, x, active)
           run   == CompileAndRun(id, facts, intent, x, kept)
           inconsistent == [Outcome("failed_operational", "planning_inconsistent", kept)
                               EXCEPT !.cause = plan.outcome]
<1>1. \/ x.bad /\ \E p \in again : r = Outcome(Waiting, "invalid_temporal_input", {p})
      \/ r = inconsistent
      \/ \E p \in again : r = Outcome(Waiting, "missing_execution_parameters", {p})
      \/ r = Outcome("blocked_by_policy", "blocked_by_policy", kept)
      \/ GuardSelectedCapability(id) /\ r \in run
  <2> HIDE DEF facts, asked, again, run
  <2>1. CASE x.bad
    BY <2>1 DEF ExecuteSelected, facts, asked, again, run
  <2> QED BY DEF ExecuteSelected, facts, asked, again, run
<1>2. ASSUME r = inconsistent PROVE OfCapability(r, id)
  <2>1. PICK q : q = Outcome("failed_operational", "planning_inconsistent", kept)
    OBVIOUS
  <2>2. OfCapability(q, id)
    BY <2>1, PlainOutcome
  <2>3. r = [q EXCEPT !.cause = plan.outcome]
    BY <1>2, <2>1
  <2> HIDE DEF plan
  <2> QED BY <2>2, <2>3, CauseFields DEF OfCapability
<1>3. ASSUME GuardSelectedCapability(id), r \in run PROVE OfCapability(r, id)
  BY <1>3, RunsCapability DEF GuardSelectedCapability
<1>4. ASSUME NEW p, r = Outcome(Waiting, "invalid_temporal_input", {p}) PROVE OfCapability(r, id)
  BY <1>4, PlainOutcome
<1>5. ASSUME NEW p, r = Outcome(Waiting, "missing_execution_parameters", {p}) PROVE OfCapability(r, id)
  BY <1>5, PlainOutcome
<1>6. ASSUME r = Outcome("blocked_by_policy", "blocked_by_policy", kept) PROVE OfCapability(r, id)
  BY <1>6, PlainOutcome
<1> HIDE DEF inconsistent, run, again
<1> QED BY <1>1, <1>2, <1>3, <1>4, <1>5, <1>6

-----------------------------------------------------------------------------
(* A routed request *)

\* Every one of ids can bind every one of the expressed filters.
Honour(ids, expressed) ==
    \A id \in ids : \A f \in expressed : CapabilityHonours(DialogueCatalog, id, f)

\* The outcome of a routed request that expressed these filters: what ran, and
\* what is offered for want of evidence, honours them.
OfRequest(r, expressed) ==
    /\ IsOutcome(r)
    /\ r.ran \subseteq scope
    /\ Honour(r.ran, expressed)
    /\ r.reason = "weak_retrieval_evidence" => \A p \in r.next : Honour(DOMAIN p.each, expressed)

\* A capability that honours the filters, once selected.
LEMMA SelectedOutcome ==
    ASSUME NEW r, NEW id, OfCapability(r, id), NEW expressed, Honour({id}, expressed)
    PROVE  OfRequest(r, expressed)
  BY DEF OfCapability, OfRequest, Honour

\* What the reranker decides is brought back to the evidence: a selected id is
\* one of it, and so are the alternatives.
LEMMA VerdictsHaveEvidence ==
    ASSUME NEW plan, NEW evidence, NEW d \in Verdicts(plan, evidence)
    PROVE  /\ d.verdict \in {"select", "clarify", "unsupported", "failed_operational"}
           /\ d.verdict = "select" => d.id \subseteq evidence
           /\ d.verdict = "clarify" => d.alternatives \subseteq evidence
<1> DEFINE Clarified(alternatives) ==
               IF alternatives = {} THEN FirstThree(DialogueCatalog, plan, IndexedIds, evidence)
                                    ELSE {alternatives \intersect evidence}
           Judge(e) ==
               IF e.verdict = "clarify" \/ (e.verdict = "select" /\ ~(e.id \subseteq evidence))
               THEN {Decision("clarify", {}, ids) : ids \in Clarified(e.alternatives)}
               ELSE {e}
<1>1. PICK e \in Rerank(evidence) : d \in Judge(e)
  BY DEF Verdicts
<1>2. \A alternatives : \A ids \in Clarified(alternatives) : ids \subseteq evidence
  BY DEF FirstThree
<1>3. \A v, i, a : /\ Decision(v, i, a).verdict = v /\ Decision(v, i, a).id = i
                   /\ Decision(v, i, a).alternatives = a
  BY DEF Decision
<1>4. e.verdict \in {"select", "clarify", "unsupported", "failed_operational"}
  <2>1. \/ \E i : e = Decision("select", i, {})
        \/ \E a : e = Decision("clarify", {}, a)
        \/ e = Decision("unsupported", {}, {})
        \/ e = Decision("failed_operational", {}, {})
    BY <1>1 DEF Rerank
  <2> QED BY <1>3, <2>1
<1>5. CASE e.verdict = "clarify" \/ (e.verdict = "select" /\ ~(e.id \subseteq evidence))
  <2>1. PICK ids \in Clarified(e.alternatives) : d = Decision("clarify", {}, ids)
    BY <1>1, <1>5
  <2>2. d.verdict = "clarify" /\ d.alternatives = ids
    BY <1>3, <2>1
  <2> QED BY <1>2, <2>1, <2>2
<1>6. CASE ~(e.verdict = "clarify" \/ (e.verdict = "select" /\ ~(e.id \subseteq evidence)))
  <2>1. d = e
    BY <1>1, <1>6
  <2> QED BY <1>4, <1>6, <2>1
<1> QED BY <1>5, <1>6

\* A question offers only candidates it was asked about.
LEMMA OffersCandidates ==
    ASSUME NEW ids, NEW intent, NEW patch, NEW source, NEW attempt,
           NEW p \in PlannedClarification(ids, intent, patch, source, attempt)
    PROVE  DOMAIN p.each \subseteq ids
<1> DEFINE plan == PlanClarification(DialogueCatalog, ids, ClarificationFacts(intent, patch))
<1>1. p = Payload(plan.kind, plan.each, plan.fields, attempt, source)
  BY DEF PlannedClarification
<1>2. p.each = plan.each
  BY <1>1 DEF Payload
<1>3. DOMAIN plan.each \subseteq ids
  BY DEF PlanClarification, NoFacts
<1> QED BY <1>2, <1>3

\* Candidates with evidence are offered, or the one that misses nothing is
\* executed.
LEMMA ClarifiesCandidates ==
    ASSUME NEW input, NEW intent, NEW x, NEW candidates, NEW kept, NEW expressed,
           Honour(candidates, expressed),
           NEW r \in ClarifyCandidates(input, intent, x, candidates, kept)
    PROVE  OfRequest(r, expressed)
<1> DEFINE source == SourceIntentSnapshot(intent, Extraction(input.message))
           asked  == PlannedClarification(candidates, intent, input.patch, source, 1)
<1>1. CASE asked # {}
  <2>1. r = Outcome(Waiting, "weak_retrieval_evidence", asked)
    BY <1>1 DEF ClarifyCandidates
  <2>2. \A p \in asked : DOMAIN p.each \subseteq candidates
    BY OffersCandidates
  <2> HIDE DEF asked
  <2>3. IsOutcome(r) /\ r.ran = {} /\ r.next = asked
    BY <2>1, OutcomeFields
  <2> QED BY <2>2, <2>3 DEF OfRequest, Honour
<1>2. CASE asked = {}
  <2>1. PICK id \in candidates : r \in ExecuteSelected(id, input.message, intent, x, {}, kept)
    BY <1>2 DEF ClarifyCandidates
  <2>2. OfCapability(r, id)
    BY <2>1, ExecutesSelected
  <2>3. Honour({id}, expressed)
    BY <2>1 DEF Honour
  <2> QED BY <2>2, <2>3, SelectedOutcome
<1> QED BY <1>1, <1>2

\* Every verdict on evidence that honours the filters ends in an outcome that
\* does.
LEMMA ConcludesHonestly ==
    ASSUME NEW input, NEW intent, NEW x, NEW d, NEW kept, NEW expressed,
           d.verdict \in {"select", "clarify", "unsupported", "failed_operational"},
           d.verdict = "select" => Honour(d.id, expressed),
           d.verdict = "clarify" => Honour(d.alternatives, expressed),
           NEW r \in Conclude(input, intent, x, d, kept)
    PROVE  OfRequest(r, expressed)
<1>1. CASE d.verdict = "select"
  <2>1. PICK id \in d.id : r \in ExecuteSelected(id, input.message, intent, x, {}, kept)
    BY <1>1 DEF Conclude
  <2>2. OfCapability(r, id)
    BY <2>1, ExecutesSelected
  <2>3. Honour({id}, expressed)
    BY <1>1, <2>1 DEF Honour
  <2> QED BY <2>2, <2>3, SelectedOutcome
<1>2. CASE d.verdict = "clarify"
  <2>1. r \in ClarifyCandidates(input, intent, x, d.alternatives, kept)
    BY <1>2 DEF Conclude
  <2> QED BY <1>2, <2>1, ClarifiesCandidates
<1>3. CASE d.verdict \in {"unsupported", "failed_operational"}
  <2>1. \/ r = Outcome("unsupported", "unsupported_in_domain", kept)
        \/ r = Outcome("failed_operational", "reranker_failed_operational", kept)
    BY <1>3 DEF Conclude
  <2>2. IsOutcome(r) /\ r.ran = {} /\ r.reason # "weak_retrieval_evidence"
    BY <2>1, OutcomeFields
  <2> QED BY <2>2 DEF OfRequest, Honour
<1> QED BY <1>1, <1>2, <1>3

\* What the gate sees is every filter the user typed, but for those that job
\* memory has an earlier value of.
LEMMA SeesTypedFilters ==
    ASSUME NEW input, NEW intent
    PROVE  TypedFilters(input.message, intent) \ StaleFields(input) \subseteq FiltersSeen(input, intent)
<1> DEFINE m == input.message
           x == Extraction(m)
           y == OnRecord(input)
<1>1. \A e : DOMAIN RequestFacts(m, intent, e)
               = e.entities \union e.constraints
                 \union (intent.entities \intersect {"client_id", "office"})
                 \union (intent.entities \intersect {"person_name"} \intersect m.typed)
  BY DEF RequestFacts, FactsOf
<1>2. x.entities \subseteq y.entities /\ x.constraints \subseteq y.constraints
  <2>1. CASE x = NoExtraction
    BY <2>1 DEF NoExtraction
  <2>2. CASE x # NoExtraction
    BY <2>2 DEF OnRecord, Recorded
  <2> QED BY <2>1, <2>2
<1>3. DOMAIN RequestFacts(m, intent, x) \subseteq DOMAIN RequestFacts(m, intent, y)
  <2> HIDE DEF x, y, m
  <2> QED BY <1>1, <1>2
<1> QED BY <1>3 DEF TypedFilters, FiltersSeen, ExpressedFilters

\* A routed request is concluded from a verdict on evidence that passed the
\* gate, and its outcome is marked with the filters.
LEMMA ReportsWhatItConcludes ==
    ASSUME NEW input, NEW intent, NEW kept, NEW r \in ReportBranch(input, intent, kept)
    PROVE  \E plan, found, d, q :
              /\ d \in Verdicts(plan, DropInsufficient(DialogueCatalog, FiltersSeen(input, intent), found))
              /\ q \in Conclude(input, intent, OnRecord(input), d, kept)
              /\ r = Marked(q, TypedFilters(input.message, intent), StaleFields(input))
<1> DEFINE plans       == {RetrievalPlan(intent, Extraction(input.message), near) : near \in NearSets}
           seen        == FiltersSeen(input, intent)
           Found(plan) == {{}, Retrieve(DialogueCatalog, plan, IndexedIds)}
           Judged(plan) == UNION {Verdicts(plan, DropInsufficient(DialogueCatalog, seen, found))
                                  : found \in Found(plan)}
           verdicts    == UNION {Judged(plan) : plan \in plans}
           Ended(d)    == Conclude(input, intent, OnRecord(input), d, kept)
           Outcomes    == UNION {Ended(d) : d \in verdicts}
<1>1. ReportBranch(input, intent, kept)
        = {Marked(q, TypedFilters(input.message, intent), StaleFields(input)) : q \in Outcomes}
  BY DEF ReportBranch, Marked
<1> HIDE DEF Ended, verdicts
<1>2. PICK q \in Outcomes : r = Marked(q, TypedFilters(input.message, intent), StaleFields(input))
  BY <1>1
<1>3. PICK d \in verdicts : q \in Ended(d)
  BY <1>2
<1>4. \E plan, found : d \in Verdicts(plan, DropInsufficient(DialogueCatalog, seen, found))
  <2> HIDE DEF plans, seen, Found, Judged
  <2>1. PICK plan \in plans : d \in Judged(plan)
    BY <1>3 DEF verdicts
  <2>2. PICK found \in Found(plan) : d \in Verdicts(plan, DropInsufficient(DialogueCatalog, seen, found))
    BY <2>1 DEF Judged
  <2> QED BY <2>2
<1> QED BY <1>2, <1>3, <1>4 DEF Ended

\* Fewer filters are easier to honour.
LEMMA FewerFilters ==
    ASSUME NEW r, NEW more, OfRequest(r, more), NEW expressed, expressed \subseteq more
    PROVE  OfRequest(r, expressed)
  BY DEF OfRequest, Honour

\* A turn may end with this outcome: what ran or is offered honours the
\* filters it records, but for those with an earlier value.
Honest(r) == OfRequest(r, r.expressed \ r.stale)

\* A routed request ends in an outcome that honours the filters it records.
LEMMA ReportsHonestly ==
    ASSUME NEW input, NEW intent, NEW kept, NEW r \in ReportBranch(input, intent, kept)
    PROVE  Honest(r)
<1> DEFINE typed == TypedFilters(input.message, intent)
           stale == StaleFields(input)
           seen  == FiltersSeen(input, intent)
           x     == OnRecord(input)
<1>1. PICK plan, found, d, q :
         /\ d \in Verdicts(plan, DropInsufficient(DialogueCatalog, seen, found))
         /\ q \in Conclude(input, intent, x, d, kept)
         /\ r = Marked(q, typed, stale)
  BY ReportsWhatItConcludes
<1> DEFINE evidence == DropInsufficient(DialogueCatalog, seen, found)
<1>2. Honour(evidence, seen)
  BY DEF DropInsufficient, Honour
<1>3. typed \ stale \subseteq seen
  BY SeesTypedFilters
<1> HIDE DEF typed, stale, seen, evidence, x
<1>4. /\ d.verdict \in {"select", "clarify", "unsupported", "failed_operational"}
      /\ d.verdict = "select" => d.id \subseteq evidence
      /\ d.verdict = "clarify" => d.alternatives \subseteq evidence
  BY <1>1, VerdictsHaveEvidence DEF evidence
<1>5. /\ d.verdict = "select" => Honour(d.id, seen)
      /\ d.verdict = "clarify" => Honour(d.alternatives, seen)
  BY <1>2, <1>4 DEF Honour
<1>6. OfRequest(q, seen)
  BY <1>1, <1>4, <1>5, ConcludesHonestly
<1>7. OfRequest(q, typed \ stale)
  BY <1>3, <1>6, FewerFilters
<1>8. /\ IsOutcome(r) /\ r.expressed = typed /\ r.stale = stale
      /\ r.ran = q.ran /\ r.reason = q.reason /\ r.next = q.next
  <2>1. IsOutcome(q)
    BY <1>6 DEF OfRequest
  <2> QED BY <1>1, <2>1, ExpressedFields
<1> QED BY <1>7, <1>8 DEF OfRequest, Honest

-----------------------------------------------------------------------------
(* The turns *)

\* An outcome of one capability, of a turn that was not routed as a request.
LEMMA UnroutedOutcome ==
    ASSUME NEW r, NEW id, OfCapability(r, id)
    PROVE  Honest(r)
  BY DEF OfCapability, Honest, OfRequest, Honour

\* An outcome without a run.
LEMMA PlainIsHonest ==
    ASSUME NEW terminal, NEW reason, NEW next
    PROVE  Honest(Outcome(terminal, reason, next))
  BY OutcomeFields DEF Honest, OfRequest, Honour

\* The reply to a question, decided without the router.
LEMMA RepliesHonestly ==
    ASSUME NEW input, NEW p, Settled(input, p), NEW r \in ReplyOutcomes(input, p)
    PROVE  Honest(r)
<1>1. ASSUME NEW id, r \in Continue(id, input, p) PROVE Honest(r)
  BY <1>1, ExecutesSelected, UnroutedOutcome DEF Continue
<1>2. \/ \E id : r \in Continue(id, input, p)
      \/ \E terminal, reason, next : r = Outcome(terminal, reason, next)
  <2> DEFINE resolved == ResolvePending(input, p)
  <2>1. CASE Continues(input, p)
    BY <2>1 DEF ReplyOutcomes
  <2>2. CASE ~Continues(input, p) /\ resolved.outcome = "selected"
    BY <2>2 DEF ReplyOutcomes
  <2>3. CASE ~Continues(input, p) /\ resolved.outcome = "free_form_other"
    <3>1. r = Outcome(Waiting, "clarification_other_selected", {})
      BY <2>3 DEF ReplyOutcomes
    <3> QED BY <3>1
  <2>4. CASE ~Continues(input, p) /\ resolved.outcome = "unresolved"
    <3>1. \/ r = Outcome(Waiting, "clarification_recovery", {})
          \/ r = Outcome(Waiting, "clarification_unresolved", {Incremented(p)})
      BY <2>4 DEF ReplyOutcomes
    <3> QED BY <3>1
  <2> QED BY <2>1, <2>2, <2>3, <2>4 DEF Settled
<1> QED BY <1>1, <1>2, PlainIsHonest

\* The reply to a question, as the resolver of the router read it.
LEMMA ReplyBranchHonest ==
    ASSUME NEW input, NEW p, NEW resolved, NEW kept, NEW r \in ReplyBranch(input, p, resolved, kept)
    PROVE  Honest(r)
<1>1. ASSUME NEW id, NEW intent, NEW x, NEW active, NEW next,
             r \in ExecuteSelected(id, input.message, intent, x, active, next)
      PROVE  Honest(r)
  BY <1>1, ExecutesSelected, UnroutedOutcome
<1>2. ASSUME NEW id, r \in ContinueWithClient(input, p, id, kept) PROVE Honest(r)
  <2>1. CASE id \notin EntityIds
    BY <1>2, <2>1, PlainIsHonest DEF ContinueWithClient
  <2>2. CASE id \in EntityIds
    BY <1>1, <1>2, <2>2 DEF ContinueWithClient
  <2> QED BY <2>1, <2>2
<1>3. CASE resolved.outcome = "unresolved"
           /\ ~(resolved.outcome = "free_form_other" \/ resolved.id = {"others"})
  BY <1>3, PlainIsHonest DEF ReplyBranch
<1>4. CASE resolved.outcome # "unresolved"
           /\ (resolved.outcome = "free_form_other" \/ resolved.id = {"others"})
  BY <1>4, PlainIsHonest DEF ReplyBranch
<1>5. CASE resolved.outcome # "unresolved"
           /\ ~(resolved.outcome = "free_form_other" \/ resolved.id = {"others"})
  <2>1. PICK id \in resolved.id :
           r \in IF p.kind = "select_entity" THEN ContinueWithClient(input, p, id, kept)
                 ELSE ExecuteSelected(id, input.message, IntentFromSource(p),
                                      ContinuationExtraction(input.message, p), {p}, {})
    BY <1>5 DEF ReplyBranch
  <2> QED BY <1>1, <1>2, <2>1
<1>6. CASE resolved.outcome = "unresolved" /\ resolved.id = {"others"}
  <2>1. \/ r = Outcome(Waiting, "clarification_unresolved", kept)
        \/ r = Outcome(Waiting, "clarification_other_selected", {})
    BY <1>6 DEF ReplyBranch
  <2> QED BY <2>1, PlainIsHonest
<1> QED BY <1>3, <1>4, <1>5, <1>6

\* What ran was in the principal's scope.
RanInScope == last.ran \subseteq scope

DialogueInv == RetrievedHonoursFilters /\ RanInScope

\* A turn that ends honestly leaves the invariant behind.
LEMMA EndsHonestly ==
    ASSUME NEW input, NEW x, NEW outcomes, \A r \in outcomes : Honest(r), EndTurn(input, x, outcomes)
    PROVE  DialogueInv'
<1>1. PICK r \in outcomes : /\ pending' = r.next
                            /\ last' = [k \in DOMAIN NothingYet |-> r[k]]
                            /\ UNCHANGED scope
  BY DEF EndTurn
<1>2. /\ last'.ran = r.ran /\ last'.reason = r.reason
      /\ last'.expressed = r.expressed /\ last'.stale = r.stale
  BY <1>1 DEF NothingYet
<1>3. OfRequest(r, r.expressed \ r.stale)
  BY <1>1 DEF Honest
<1>4. RanInScope'
  BY <1>1, <1>2, <1>3 DEF OfRequest, RanInScope
<1>5. RetrievedHonoursFilters'
  BY <1>1, <1>2, <1>3 DEF OfRequest, Honour, Honoured, RetrievedHonoursFilters
<1> QED BY <1>4, <1>5 DEF DialogueInv

\* Every turn ends honestly.
LEMMA NextDialogueInv == DialogueInv /\ [DialogueNext]_dialogueVars => DialogueInv'
<1> SUFFICES ASSUME DialogueInv, [DialogueNext]_dialogueVars PROVE DialogueInv'
  OBVIOUS
<1>0. CASE UNCHANGED dialogueVars
  BY <1>0 DEF dialogueVars, DialogueInv, RetrievedHonoursFilters, Honoured, RanInScope
<1>1. CASE ContextWindowExceeded
  <2>1. PICK input, x : EndTurn(input, x,
            {Outcome("context_window_exceeded", "context_window_exceeded", pending)})
    BY <1>1 DEF ContextWindowExceeded
  <2> QED BY <2>1, PlainIsHonest, EndsHonestly
<1>2. CASE ReplyDecided
  <2>1. PICK p, input, x : Settled(input, p) /\ EndTurn(input, x, ReplyOutcomes(input, p))
    BY <1>2 DEF ReplyDecided
  <2>2. \A r \in ReplyOutcomes(input, p) : Honest(r)
    BY <2>1, RepliesHonestly
  <2> QED BY <2>1, <2>2, EndsHonestly
<1>3. CASE RouteFails
  <2>1. PICK input, reason, x : EndTurn(input, x, {Outcome("failed_operational", reason, Kept(input))})
    BY <1>3 DEF RouteFails
  <2> QED BY <2>1, PlainIsHonest, EndsHonestly
<1>4. CASE RouteToReply
  <2>1. PICK p, input, resolved, x : EndTurn(input, x, ReplyBranch(input, p, resolved, Kept(input)))
    BY <1>4 DEF RouteToReply
  <2>2. \A r \in ReplyBranch(input, p, resolved, Kept(input)) : Honest(r)
    BY ReplyBranchHonest
  <2> QED BY <2>1, <2>2, EndsHonestly
<1>5. CASE RouteToTalk
  <2>1. PICK input, x : EndTurn(input, x, {Outcome("completed", "greeting", Kept(input)),
                                           Outcome("completed", "help", Kept(input)),
                                           Outcome("blocked_by_policy", "unsafe_request", Kept(input))})
    BY <1>5 DEF RouteToTalk
  <2> QED BY <2>1, PlainIsHonest, EndsHonestly
<1>6. CASE RouteToReport
  <2>1. PICK input, intent, x : EndTurn(input, x, ReportBranch(input, intent, Kept(input)))
    BY <1>6 DEF RouteToReport
  <2>2. \A r \in ReportBranch(input, intent, Kept(input)) : Honest(r)
    BY ReportsHonestly
  <2> QED BY <2>1, <2>2, EndsHonestly
<1> QED BY <1>0, <1>1, <1>2, <1>3, <1>4, <1>5, <1>6 DEF DialogueNext

\* No turn has ended yet.
LEMMA InitDialogueInv == DialogueInit => DialogueInv
  BY DEF DialogueInit, DialogueInv, RetrievedHonoursFilters, Honoured, RanInScope, NothingYet

\* A routed request is neither answered nor offered an answer by a capability
\* that cannot bind a filter the user typed (drop_insufficient of
\* retrieval/sufficiency.rs), for every catalog and index, also one that is
\* stale, and whatever the router and the reranker say.
THEOREM FiltersHonoured == DialogueSpec => []RetrievedHonoursFilters
<1>1. DialogueInv => RetrievedHonoursFilters
  BY DEF DialogueInv
<1> QED BY <1>1, InitDialogueInv, NextDialogueInv, PTL DEF DialogueSpec

\* Only a capability of the principal's scope ever runs: every way to a run,
\* a selected id, an id a model invented, the answer to a question, the client
\* picked from a list, passes guard_selected_capability
\* (runtime/execution.rs).
THEOREM OnlyScopeRuns == DialogueSpec => []RanInScope
<1>1. DialogueInv => RanInScope
  BY DEF DialogueInv
<1> QED BY <1>1, InitDialogueInv, NextDialogueInv, PTL DEF DialogueSpec
-----------------------------------------------------------------------------
(* What a validated catalog plans or asks for *)

\* The entries of a list that validate_unique_ids accepts differ in their ids.
LEMMA UniqueIds ==
    ASSUME NEW entries, entries \in Seq(ToSet(entries)), ValidateUniqueIds(entries)
    PROVE  \A d, e \in ToSet(entries) : d.id = e.id => d = e
<1>1. Len(entries) \in Nat /\ DOMAIN entries = 1 .. Len(entries)
  OBVIOUS
<1> DEFINE positions == 1 .. Len(entries)
           idOf      == [i \in positions |-> entries[i].id]
<1>2. IsFiniteSet(positions) /\ Cardinality(positions) = Len(entries)
  BY <1>1, FS_Interval
<1>3. Ids(entries) = {entries[i].id : i \in positions}
  BY <1>1 DEF Ids, ToSet
<1>4. idOf \in Surjection(positions, Ids(entries))
  BY <1>3 DEF Surjection
<1>5. Cardinality(positions) = Cardinality(Ids(entries))
  BY <1>2 DEF ValidateUniqueIds
<1>6. idOf \in Injection(positions, Ids(entries))
  BY <1>2, <1>4, <1>5, FS_SurjSameCardinalityImpliesInj
<1>7. \A i, j \in positions : entries[i].id = entries[j].id => i = j
  BY <1>6 DEF Injection, IsInjective
<1> QED BY <1>1, <1>7 DEF ToSet

\* A validated catalog, and the conventions of its inputs.
SoundCatalog(c) ==
    /\ Validate(c)
    /\ InputsByConvention(c)
    /\ c.capabilities \in Seq(ToSet(c.capabilities))

\* The planner finds an approved capability by its id, and no other.
LEMMA FindsExecutable ==
    ASSUME NEW c, SoundCatalog(c), NEW cap \in ToSet(c.capabilities), cap.status = "approved_mvp"
    PROVE  Executable(c, cap.id) = {cap}
<1>1. ValidateUniqueIds(c.capabilities)
  BY DEF SoundCatalog, Validate, ValidateAllIds
<1>2. \A d, e \in ToSet(c.capabilities) : d.id = e.id => d = e
  BY <1>1, UniqueIds DEF SoundCatalog
<1> QED BY <1>2 DEF Executable, Named

\* An approved capability has its query.
LEMMA HasQuery ==
    ASSUME NEW c, SoundCatalog(c), NEW cap \in ToSet(c.capabilities)
    PROVE  QueryOf(c, cap) \in ToSet(c.queries)
<1>1. cap.query \in Ids(c.queries)
  BY DEF SoundCatalog, Validate, ValidateCapability
<1>2. \E q \in ToSet(c.queries) : q.id = cap.query
  BY <1>1 DEF Ids
<1> QED BY <1>2 DEF QueryOf

\* What is required, not filled by the server, and without a value is no date,
\* and neither "limit" nor "top_n": those have defaults.
Lacks(c, cap, facts, p) ==
    /\ p \in ToSet(QueryOf(c, cap).parameters)
    /\ p.required /\ ~ServerFilled(p)
    /\ p.name \notin ParamsFromVerified(c, cap, facts)

LEMMA LacksHasNoDefault ==
    ASSUME NEW c, SoundCatalog(c), NEW cap \in ToSet(c.capabilities), cap.status = "approved_mvp",
           NEW facts, NEW p, Lacks(c, cap, facts, p)
    PROVE  /\ ~BindParameter(c, facts, p)
           /\ p.name \notin {"from_date", "to_date", "limit", "top_n"}
<1> DEFINE q == QueryOf(c, cap)
<1>1. /\ ~BindParameter(c, facts, p)
      /\ ~ResolvePolicyDefault(cap, p.name)
      /\ ~DefaultRequiredParameter(p)
  BY DEF Lacks, ParamsFromVerified
<1>2. UserRequired(p)
  BY DEF Lacks, UserRequired, ServerFilled
<1>3. ValidateClarificationContract(cap, q)
  BY DEF SoundCatalog, Validate, ValidateCapability
<1>4. p.name \notin {"from_date", "to_date"}
  BY <1>1, <1>2, <1>3 DEF ValidateClarificationContract, ResolvePolicyDefault, Lacks
<1> QED BY <1>1, <1>4 DEF DefaultRequiredParameter, Lacks

\* An input asks for it, of which "date_range" and "limit" are none, and which
\* is "search" only where a person's name would fill it.
LEMMA LacksIsAsked ==
    ASSUME NEW c, SoundCatalog(c), NEW cap \in ToSet(c.capabilities), cap.status = "approved_mvp",
           NEW facts, NEW p, Lacks(c, cap, facts, p)
    PROVE  \E input \in RequiredInputs(c, cap) :
               /\ p.name \in ToSet(input.parameters)
               /\ input.id \notin {"date_range", "limit"}
               /\ input.id = "search" => "person_name" \notin DOMAIN facts
<1> DEFINE q == QueryOf(c, cap)
<1>1. UserRequired(p) /\ p \in ToSet(q.parameters) /\ p.required /\ ~ServerFilled(p)
  BY DEF Lacks, UserRequired, ServerFilled
<1>2. ValidateCapabilityParameterContract(c, cap, q)
  BY DEF SoundCatalog, Validate, ValidateCapability
<1>3. Cardinality({i \in DOMAIN c.inputs : p.name \in ToSet(c.inputs[i].parameters)}) = 1
  BY <1>1, <1>2 DEF ValidateCapabilityParameterContract
<1>4. \A S : Cardinality(S) = 1 => S # {}
  BY FS_EmptySet
<1>5. PICK i \in DOMAIN c.inputs : p.name \in ToSet(c.inputs[i].parameters)
  BY <1>3, <1>4
<1> DEFINE input == c.inputs[i]
<1>6. input \in ToSet(c.inputs)
  BY DEF ToSet
<1>7. input \in RequiredInputs(c, cap)
  BY <1>1, <1>5, <1>6 DEF RequiredInputs
<1>8. /\ ~BindParameter(c, facts, p)
      /\ p.name \notin {"from_date", "to_date", "limit", "top_n"}
  BY LacksHasNoDefault
<1>9. ValidateParameterInputRegistry(c) /\ ValidateParameterBindings(c) /\ InputsByConvention(c)
  BY DEF SoundCatalog, Validate
<1>10. input.id # "limit"
  BY <1>5, <1>6, <1>8, <1>9 DEF InputsByConvention
<1>11. input.type # "date_range"
  BY <1>5, <1>6, <1>8, <1>9 DEF ValidateParameterInputRegistry
<1>12. input.id # "date_range"
  BY <1>6, <1>9, <1>11 DEF InputsByConvention
<1>13. ASSUME input.id = "search", "person_name" \in DOMAIN facts
       PROVE  FALSE
  <2>1. q \in ToSet(c.queries)
    BY HasQuery
  <2>2. p.name \in DOMAIN c.bindings
    BY <1>1, <1>9, <2>1 DEF ValidateParameterBindings
  <2>3. "person_name" \in ToSet(c.bindings[p.name]) /\ input.type = "text"
    BY <1>5, <1>6, <1>9, <1>13, <2>2 DEF InputsByConvention
  <2>4. p \in ParametersNamed(c, p.name)
    BY <1>1, <2>1 DEF ParametersNamed
  <2>5. p.kind = InputKind("text")
    BY <1>5, <1>6, <1>9, <2>3, <2>4 DEF ValidateParameterInputRegistry
  <2>6. p.kind = "string"
    BY <2>5 DEF InputKind
  <2>7. BindParameter(c, facts, p)
    BY <1>13, <2>2, <2>3, <2>6 DEF BindParameter, BindsValue
  <2> QED BY <1>8, <2>7
<1> QED BY <1>5, <1>7, <1>10, <1>12, <1>13

\* What a plan misses, lacks a value.
LEMMA MissingLacks ==
    ASSUME NEW c, NEW cap, NEW facts, NEW name \in MissingParameter(c, cap, facts)
    PROVE  \E p : Lacks(c, cap, facts, p) /\ p.name = name
<1> DEFINE parameters == QueryOf(c, cap).parameters
           Unfilled(p) == p.required /\ ~ServerFilled(p) /\ p.name \notin ParamsFromVerified(c, cap, facts)
<1>1. PICK i \in DOMAIN parameters : Unfilled(parameters[i]) /\ name = parameters[i].name
  BY DEF MissingParameter
<1>2. parameters[i] \in ToSet(parameters)
  BY DEF ToSet
<1> QED BY <1>1, <1>2 DEF Lacks

\* Only a missing parameter makes a plan name one, and of the capability that
\* was asked for.
LEMMA PlanMisses ==
    ASSUME NEW c, SoundCatalog(c), NEW cap \in ToSet(c.capabilities), cap.status = "approved_mvp",
           NEW request, NEW name \in PlanSelectedCapability(c, cap.id, request).missing
    PROVE  name \in MissingParameter(c, cap, request.facts)
<1>1. Executable(c, cap.id) = {cap}
  BY FindsExecutable
<1>2. (CHOOSE e \in Executable(c, cap.id) : TRUE) = cap
  BY <1>1
<1> QED BY <1>1, <1>2 DEF PlanSelectedCapability

\* In a validated catalog whose inputs keep to the conventions, a parameter
\* that a plan of an approved capability misses is no date, and the
\* clarification planner asks for it, whatever the user said.
LEMMA MissingIsAsked ==
    ASSUME NEW c, SoundCatalog(c), NEW cap \in ToSet(c.capabilities), cap.status = "approved_mvp",
           NEW facts, NEW name \in MissingParameter(c, cap, facts)
    PROVE  /\ name \notin {"from_date", "to_date"}
           /\ \E input \in RequiredInputs(c, cap) :
                  name \in ToSet(input.parameters) /\ input.id \in MissingFields(c, cap, facts)
<1>1. PICK p : Lacks(c, cap, facts, p) /\ p.name = name
  BY MissingLacks
<1>2. name \notin {"from_date", "to_date"}
  BY <1>1, LacksHasNoDefault
<1>3. PICK input \in RequiredInputs(c, cap) :
          /\ name \in ToSet(input.parameters)
          /\ input.id \notin {"date_range", "limit"}
          /\ input.id = "search" => "person_name" \notin DOMAIN facts
  BY <1>1, LacksIsAsked
<1>4. ~InputSatisfied(c, cap, input, facts)
  BY <1>3 DEF InputSatisfied
<1>5. input.id \in MissingFields(c, cap, facts)
  BY <1>4 DEF MissingFields
<1> QED BY <1>2, <1>3, <1>5

-----------------------------------------------------------------------------
(* The catalog a process serves *)

\* Edits and loading keep the lists and the conventions; what is served was
\* validated, and is at most one catalog.
CatalogInv ==
    /\ ListedByConvention(files)
    /\ \A c \in served : SoundCatalog(c)
    /\ served = {} \/ \E c : served = {c}
    /\ catalogEdits \in 0 .. MaxCatalogEdits

\* A function over the first numbers is a list of its values.
LEMMA IsList ==
    ASSUME NEW n \in Nat, NEW t, t = [j \in 1 .. n |-> t[j]]
    PROVE  t \in Seq(ToSet(t)) /\ Len(t) = n /\ DOMAIN t = 1 .. n
<1>1. \A j \in 1 .. n : t[j] \in ToSet(t)
  BY DEF ToSet
<1>2. t \in [1 .. n -> ToSet(t)]
  BY <1>1
<1> QED BY <1>2

\* A list stays one when an entry of it is replaced.
LEMMA ReplacesEntry ==
    ASSUME NEW s, s \in Seq(ToSet(s)), NEW i \in DOMAIN s, NEW e
    PROVE  [s EXCEPT ![i] = e] \in Seq(ToSet([s EXCEPT ![i] = e]))
<1> DEFINE t == [s EXCEPT ![i] = e]
<1>1. Len(s) \in Nat /\ DOMAIN s = 1 .. Len(s)
  OBVIOUS
<1>2. t = [j \in 1 .. Len(s) |-> t[j]]
  BY <1>1
<1> HIDE DEF t
<1>3. t \in Seq(ToSet(t))
  BY <1>1, <1>2, IsList
<1> QED BY <1>3 DEF t

\* Without one of its entries a list has no others.
LEMMA RemovesEntry ==
    ASSUME NEW s, s \in Seq(ToSet(s)), NEW i \in DOMAIN s
    PROVE  /\ RemoveAt(s, i) \in Seq(ToSet(RemoveAt(s, i)))
           /\ ToSet(RemoveAt(s, i)) \subseteq ToSet(s)
<1> DEFINE t == RemoveAt(s, i)
<1>1. Len(s) \in Nat /\ DOMAIN s = 1 .. Len(s) /\ i \in 1 .. Len(s)
  OBVIOUS
<1>2. t \in Seq(ToSet(s))
  BY <1>1 DEF RemoveAt
<1>3. Len(t) \in Nat /\ DOMAIN t = 1 .. Len(t) /\ \A j \in 1 .. Len(t) : t[j] \in ToSet(s)
  BY <1>2
<1>4. t = [j \in 1 .. Len(t) |-> t[j]]
  BY <1>2, <1>3
<1> HIDE DEF t
<1>5. t \in Seq(ToSet(t))
  BY <1>3, <1>4, IsList
<1>6. ToSet(t) \subseteq ToSet(s)
  BY <1>3 DEF ToSet
<1> QED BY <1>5, <1>6 DEF t

\* An edit of a capability replaces an entry of their list.
LEMMA EditsCapability ==
    ASSUME NEW f, ListedByConvention(f), NEW i \in DOMAIN f.capabilities, NEW e,
           NEW g, g = [f EXCEPT !.capabilities = [f.capabilities EXCEPT ![i] = e]]
    PROVE  ListedByConvention(g)
<1>1. /\ DOMAIN g = DOMAIN f
      /\ \A k \in DOMAIN f \ {"capabilities"} : g[k] = f[k]
      /\ g.capabilities = [f.capabilities EXCEPT ![i] = e]
  BY DEF ListedByConvention
<1>2. g.capabilities \in Seq(ToSet(g.capabilities))
  BY <1>1, ReplacesEntry DEF ListedByConvention
<1>3. g.inputs = f.inputs /\ g.bindings = f.bindings /\ g.garbled = f.garbled
  BY <1>1 DEF ListedByConvention
<1>4. InputsByConvention(g)
  BY <1>3 DEF ListedByConvention, InputsByConvention
<1> QED BY <1>1, <1>2, <1>3, <1>4 DEF ListedByConvention

\* Every other edit leaves the capabilities alone, and of inputs and bindings
\* it only removes some.
LEMMA EditsElsewhere ==
    ASSUME NEW f, ListedByConvention(f), NEW g, DOMAIN g = DOMAIN f,
           g.capabilities = f.capabilities, g.garbled \in BOOLEAN,
           g.inputs \in Seq(ToSet(g.inputs)), ToSet(g.inputs) \subseteq ToSet(f.inputs),
           DOMAIN g.bindings \subseteq DOMAIN f.bindings,
           \A name \in DOMAIN g.bindings : g.bindings[name] = f.bindings[name]
    PROVE  ListedByConvention(g)
<1>1. InputsByConvention(g)
  BY DEF ListedByConvention, InputsByConvention
<1> QED BY <1>1 DEF ListedByConvention

\* Every edit keeps the lists and the conventions.
LEMMA EditKeepsConvention ==
    ASSUME NEW f, ListedByConvention(f), NEW g \in EditsOf(f)
    PROVE  ListedByConvention(g)
<1>0. /\ {"garbled", "capabilities", "inputs", "bindings"} \subseteq DOMAIN f
      /\ f.garbled \in BOOLEAN /\ f.inputs \in Seq(ToSet(f.inputs))
  BY DEF ListedByConvention
<1>1. ASSUME NEW i \in DOMAIN f.capabilities, g \in CapabilityEdits(f, i)
      PROVE  ListedByConvention(g)
  <2> DEFINE Replaced(e) == [f EXCEPT !.capabilities = [f.capabilities EXCEPT ![i] = e]]
             cap  == f.capabilities[i]
             more == [cap EXCEPT !.maxLimit = {2000}]
             PolicyEdits(j) == {[f EXCEPT !.capabilities[i].policies[j].required = {~(TRUE \in @)}],
                                [f EXCEPT !.capabilities[i].policies[j].default = {}],
                                [f EXCEPT !.capabilities[i].policies[j].hardCap = {}],
                                [f EXCEPT !.capabilities[i].policies[j].userRequired = {TRUE}]}
  <2>1. \A e : ListedByConvention(Replaced(e))
    BY EditsCapability
  <2>2. ASSUME NEW s, g = [f EXCEPT !.capabilities[i].status = s]
        PROVE  ListedByConvention(g)
    <3>1. g = Replaced([cap EXCEPT !.status = s])
      BY <2>2
    <3> QED BY <2>1, <3>1, Zenon
  <2>3. ASSUME g = [f EXCEPT !.capabilities[i].maxLimit = {2000}]
        PROVE  ListedByConvention(g)
    <3>1. g = Replaced(more)
      BY <2>3
    <3> HIDE DEF more, Replaced
    <3> QED BY <2>1, <3>1, Zenon
  <2>4. ASSUME NEW j, g \in PolicyEdits(j)
        PROVE  ListedByConvention(g)
    <3>1. \/ g = Replaced([cap EXCEPT !.policies[j].required = {~(TRUE \in @)}])
          \/ g = Replaced([cap EXCEPT !.policies[j].default = {}])
          \/ g = Replaced([cap EXCEPT !.policies[j].hardCap = {}])
          \/ g = Replaced([cap EXCEPT !.policies[j].userRequired = {TRUE}])
      BY <2>4
    <3> HIDE DEF Replaced
    <3> QED BY <2>1, <3>1, Zenon
  <2>5. CapabilityEdits(f, i) =
            {[f EXCEPT !.capabilities[i].status = s] : s \in {"candidate", "rejected"}}
            \union {[f EXCEPT !.capabilities[i].maxLimit = {2000}]}
            \union (UNION {PolicyEdits(j) : j \in DOMAIN f.capabilities[i].policies})
    BY DEF CapabilityEdits
  <2> HIDE DEF PolicyEdits
  <2> QED BY <1>1, <2>2, <2>3, <2>4, <2>5
<1>2. ASSUME NEW i \in DOMAIN f.queries, g \in QueryEdits(f, i)
      PROVE  ListedByConvention(g)
  <2>1. \E e : g = [f EXCEPT !.queries = e]
    BY <1>2 DEF QueryEdits
  <2> QED BY <1>0, <2>1, EditsElsewhere
<1>3. ASSUME NEW i \in DOMAIN f.inputs, g = [f EXCEPT !.inputs = RemoveAt(f.inputs, i)]
      PROVE  ListedByConvention(g)
  <2>1. /\ g.inputs \in Seq(ToSet(g.inputs))
        /\ ToSet(g.inputs) \subseteq ToSet(f.inputs)
    BY <1>0, <1>3, RemovesEntry
  <2> QED BY <1>0, <1>3, <2>1, EditsElsewhere
<1>4. ASSUME NEW name \in DOMAIN f.bindings,
             g = [f EXCEPT !.bindings = [n \in DOMAIN f.bindings \ {name} |-> f.bindings[n]]]
      PROVE  ListedByConvention(g)
  BY <1>0, <1>4, EditsElsewhere
<1>5. ASSUME NEW i \in DOMAIN f.areas, g = [f EXCEPT !.areas[i].status = "deferred"]
      PROVE  ListedByConvention(g)
  BY <1>0, <1>5, EditsElsewhere
<1>6. ASSUME NEW i \in DOMAIN f.datasets, g = [f EXCEPT !.datasets[i].exempt = {}]
      PROVE  ListedByConvention(g)
  BY <1>0, <1>6, EditsElsewhere
<1>7. ASSUME g = [f EXCEPT !.garbled = TRUE]
      PROVE  ListedByConvention(g)
  BY <1>0, <1>7, EditsElsewhere
<1>8. \/ \E i \in DOMAIN f.capabilities : g \in CapabilityEdits(f, i)
      \/ \E i \in DOMAIN f.queries : g \in QueryEdits(f, i)
      \/ \E i \in DOMAIN f.inputs : g = [f EXCEPT !.inputs = RemoveAt(f.inputs, i)]
      \/ \E name \in DOMAIN f.bindings :
             g = [f EXCEPT !.bindings = [n \in DOMAIN f.bindings \ {name} |-> f.bindings[n]]]
      \/ \E i \in DOMAIN f.areas : g = [f EXCEPT !.areas[i].status = "deferred"]
      \/ \E i \in DOMAIN f.datasets : g = [f EXCEPT !.datasets[i].exempt = {}]
      \/ g = [f EXCEPT !.garbled = TRUE]
  BY DEF EditsOf
<1> QED BY <1>1, <1>2, <1>3, <1>4, <1>5, <1>6, <1>7, <1>8

\* What a process accepts is the catalog of the files, validated, with the
\* conventions of the files.
LEMMA AcceptsSound ==
    ASSUME NEW f, ListedByConvention(f), NEW onStartup
    PROVE  /\ \A c \in Accepted(f, onStartup) : SoundCatalog(c)
           /\ Accepted(f, onStartup) \in {{}, {Load(f)}}
<1>1. ASSUME NEW c \in Accepted(f, onStartup)
      PROVE  c = Load(f) /\ Validate(c)
  BY DEF Accepted
<1> DEFINE c == Load(f)
<1>2. /\ {"capabilities", "inputs", "bindings"} \subseteq DOMAIN f
      /\ f.capabilities \in Seq(ToSet(f.capabilities))
      /\ InputsByConvention(f)
  BY DEF ListedByConvention
<1>3. /\ c.inputs = f.inputs /\ c.bindings = f.bindings
      /\ c.capabilities = [i \in DOMAIN f.capabilities |-> ParseCapability(f.capabilities[i])]
  BY <1>2 DEF Load
<1>4. InputsByConvention(c)
  BY <1>2, <1>3 DEF InputsByConvention
<1>5. Len(f.capabilities) \in Nat /\ DOMAIN f.capabilities = 1 .. Len(f.capabilities)
  BY <1>2
<1>6. c.capabilities = [i \in 1 .. Len(f.capabilities) |-> c.capabilities[i]]
  BY <1>3, <1>5
<1>7. c.capabilities \in Seq(ToSet(c.capabilities))
  BY <1>5, <1>6, IsList
<1> QED BY <1>1, <1>4, <1>7 DEF SoundCatalog

\* The catalog invariant is inductive.
LEMMA NextCatalogInv == CatalogInv /\ [CatalogNext]_catalogVars => CatalogInv'
<1> SUFFICES ASSUME CatalogInv, [CatalogNext]_catalogVars PROVE CatalogInv'
  OBVIOUS
<1>1. CASE EditCatalog
  <2>1. ListedByConvention(files')
    BY <1>1, EditKeepsConvention DEF EditCatalog, CatalogInv
  <2>2. catalogEdits' \in 0 .. MaxCatalogEdits
    BY <1>1, EditsBound DEF EditCatalog, CatalogInv
  <2> QED BY <1>1, <2>1, <2>2 DEF EditCatalog, CatalogInv
<1>2. CASE ServeCatalog
  <2>1. PICK onStartup \in BOOLEAN : served' = Accepted(files, onStartup)
    BY <1>2 DEF ServeCatalog
  <2>2. UNCHANGED <<files, catalogEdits>>
    BY <1>2 DEF ServeCatalog
  <2>3. /\ \A c \in served' : SoundCatalog(c)
        /\ served' \in {{}, {Load(files)}}
    BY <2>1, AcceptsSound DEF CatalogInv
  <2> QED BY <2>2, <2>3 DEF CatalogInv
<1>3. CASE RefuseCatalog
  BY <1>3 DEF RefuseCatalog, CatalogInv, catalogVars
<1>4. CASE StopServing
  BY <1>4 DEF StopServing, CatalogInv
<1>5. CASE UNCHANGED catalogVars
  BY <1>5 DEF CatalogInv, catalogVars
<1> QED BY <1>1, <1>2, <1>3, <1>4, <1>5 DEF CatalogNext

\* It holds of the shipped files.
LEMMA InitCatalogInv == CatalogInit => CatalogInv
  BY ShippedFiles, EditsBound DEF CatalogInit, CatalogInv

\* The invariant of a state holds what the runs check of it.
LEMMA CatalogInvSuffices == CatalogInv => CatalogTypeOK /\ ServedPlansOrAsks
<1> SUFFICES ASSUME CatalogInv PROVE CatalogTypeOK /\ ServedPlansOrAsks
  OBVIOUS
<1>1. CatalogTypeOK
  <2>1. Cardinality({}) = 0 /\ \A c : Cardinality({c}) = 1
    BY FS_EmptySet, FS_Singleton
  <2>2. CASE served = {}
    <3>1. Cardinality(served) <= 1
      BY <2>1, <2>2
    <3> QED BY <3>1 DEF CatalogInv, CatalogTypeOK, ListedByConvention
  <2>3. CASE \E c : served = {c}
    <3>1. PICK c : served = {c}
      BY <2>3
    <3>2. Cardinality(served) = 1
      BY <2>1, <3>1, Zenon
    <3>3. Cardinality(served) <= 1
      BY <3>2
    <3> QED BY <3>3 DEF CatalogInv, CatalogTypeOK, ListedByConvention
  <2> QED BY <2>2, <2>3 DEF CatalogInv
<1>2. ServedPlansOrAsks
  <2> SUFFICES ASSUME NEW c \in served, NEW cap \in ToSet(c.capabilities), cap.status = "approved_mvp",
                      NEW facts \in PossibleFacts,
                      NEW name \in PlanSelectedCapability(c, cap.id, Request(facts)).missing
               PROVE  /\ name \notin {"from_date", "to_date"}
                      /\ \E input \in RequiredInputs(c, cap) :
                             name \in ToSet(input.parameters) /\ input.id \in MissingFields(c, cap, facts)
    BY DEF ServedPlansOrAsks
  <2>1. SoundCatalog(c)
    BY DEF CatalogInv
  <2>2. name \in MissingParameter(c, cap, Request(facts).facts)
    BY <2>1, PlanMisses
  <2>3. Request(facts).facts = facts
    BY DEF Request
  <2> QED BY <2>1, <2>2, <2>3, MissingIsAsked
<1> QED BY <1>1, <1>2

\* Over every series of edits to files that keep to the conventions, what a
\* process serves plans every approved capability or asks for what it misses:
\* validate, params_from_verified and the clarification planner agree,
\* although each has its own idea of what is required.
THEOREM ServedAsks == CatalogSpec => [](CatalogTypeOK /\ ServedPlansOrAsks)
<1>1. CatalogSpec => []CatalogInv
  BY InitCatalogInv, NextCatalogInv, PTL DEF CatalogSpec
<1> QED BY <1>1, CatalogInvSuffices, PTL

-----------------------------------------------------------------------------
(* The rows a statement shows *)

\* Every non-empty set of naturals has a least one.
LEMMA LeastNatural ==
    ASSUME NEW T \in SUBSET Nat, T # {}
    PROVE  \E x \in T : \A y \in T : x <= y
<1>1. IsWellFoundedOn(OpToRel(<, Nat), Nat)
  BY NatLessThanWellFounded
<1>2. PICK x \in T : \A y \in T : ~(<<y, x>> \in OpToRel(<, Nat))
  BY <1>1, WFMin
<1>3. \A y \in T : ~(y < x)
  BY <1>2 DEF OpToRel
<1> QED BY <1>3

\* The smaller of two numbers.
LEMMA MinOfTwo ==
    ASSUME NEW a \in Nat, NEW b \in Nat
    PROVE  Min({a, b}) = IF a <= b THEN a ELSE b
<1>1. \E x \in {a, b} : \A y \in {a, b} : x <= y
  OBVIOUS
<1>2. Min({a, b}) \in {a, b} /\ \A y \in {a, b} : Min({a, b}) <= y
  BY <1>1 DEF Min
<1> QED BY <1>2

\* The smallest of one.
LEMMA MinOfOne == ASSUME NEW a \in Nat PROVE Min({a}) = a
<1>1. \E x \in {a} : \A y \in {a} : x <= y
  OBVIOUS
<1> QED BY <1>1 DEF Min

\* A list has one first limit, if any.
LEMMA OneLimit ==
    ASSUME NEW entries, entries \in Seq(ToSet(entries))
    PROVE  /\ FirstLimit(entries) = {} \/ \E p : FirstLimit(entries) = {p}
           /\ "limit" \in NamesOf(entries) => FirstLimit(entries) # {}
<1> DEFINE limits == {i \in DOMAIN entries : entries[i].name \in LimitNames}
           firsts == {i \in limits : \A j \in limits : i <= j}
<1>1. limits \subseteq Nat
  OBVIOUS
<1>2. FirstLimit(entries) = {entries[i] : i \in firsts}
  BY DEF FirstLimit
<1>3. \A i, j \in firsts : i = j
  BY <1>1
<1>4. limits # {} => firsts # {}
  BY <1>1, LeastNatural
<1>5. "limit" \in NamesOf(entries) => limits # {}
  BY DEF NamesOf, ToSet, LimitNames
<1> HIDE DEF limits, firsts
<1> QED BY <1>2, <1>3, <1>4, <1>5

\* Whatever limit was asked for and however many rows there are: a user who is
\* shown fewer than there are, and than he asked for, is told so, unless he
\* asked for more than the hard cap; none are told of that are not there; and a
\* statement with a limit shows no more than its cap.  One row more than the cap
\* is fetched to know (effective_row_cap, truncation_limit and
\* execute_plan_with_sensitive of execution/repository.rs, clamp_hard_caps of
\* tool/parameters.rs).
THEOREM WithheldRowsTold ==
    ASSUME NEW c, NEW cap, NEW request, NEW asked \in Nat, NEW available \in Nat,
           StatementParameters(c, cap) \in Seq(ToSet(StatementParameters(c, cap))),
           HardCap(cap) = {} \/ \E rows \in Nat : HardCap(cap) = {rows}
    PROVE  RowsTold(c, cap, request, asked, available)
<1> DEFINE limit == ClampHardCaps(cap, asked)
           most  == EffectiveRowCap(cap)
           limited   == LimitParameter(c, cap)
           requested == {limit : p \in {p \in limited : p.name \in request.params}}
           probe     == IF limited = {} THEN {} ELSE TruncationLimit(requested, most)
           bound     == IF probe = {} THEN requested ELSE {rows + 1 : rows \in probe}
           fetched   == Min({available} \union bound)
           truncated == \E rows \in probe : fetched > rows
           shown     == IF truncated THEN CHOOSE rows \in probe : TRUE ELSE fetched
<1>1. /\ most \in Nat /\ limit \in Nat
      /\ WithinHardCap(cap, asked) => limit = asked
  <2>1. CASE HardCap(cap) = {}
    <3>1. {asked} \union HardCap(cap) = {asked}
      BY <2>1
    <3> QED BY <2>1, <3>1, MinOfOne, RowsBound DEF ClampHardCaps, EffectiveRowCap, WithinHardCap
  <2>2. CASE \E rows \in Nat : HardCap(cap) = {rows}
    <3>1. PICK rows \in Nat : HardCap(cap) = {rows}
      BY <2>2
    <3>2. {asked} \union HardCap(cap) = {asked, rows}
      BY <3>1
    <3>3. limit = IF asked <= rows THEN asked ELSE rows
      BY <3>2, MinOfTwo DEF ClampHardCaps
    <3>4. most = rows
      BY <3>1 DEF EffectiveRowCap
    <3>5. WithinHardCap(cap, asked) => asked <= rows
      BY <3>1 DEF WithinHardCap
    <3> QED BY <3>3, <3>4, <3>5
  <2> QED BY <2>1, <2>2
<1>2. /\ limited = {} \/ \E p : limited = {p}
      /\ "limit" \in NamesOf(StatementParameters(c, cap)) => limited # {}
  BY OneLimit DEF LimitParameter
<1>3. /\ Shown(c, cap, request, asked, available).shown = shown
      /\ Shown(c, cap, request, asked, available).truncated = truncated
  BY DEF Shown, Fetch
<1> SUFFICES /\ shown < available => truncated \/ shown = limit
             /\ truncated => shown < available
             /\ limited # {} => shown <= most
  <2> HIDE DEF limit, limited, shown, truncated
  <2> QED BY <1>1, <1>2, <1>3 DEF RowsTold, ShortfallTold
<1> HIDE DEF limit, most, limited
<1>4. requested = {} \/ requested = {limit}
  OBVIOUS
<1>5. CASE limited = {}
  <2>1. probe = {} /\ requested = {}
    BY <1>5
  <2>2. {available} \union bound = {available}
    BY <2>1
  <2>3. fetched = available
    BY <2>2, MinOfOne
  <2>4. ~truncated
    BY <2>1
  <2> HIDE DEF fetched, truncated
  <2> QED BY <1>5, <2>3, <2>4
<1>6. CASE limited # {} /\ requested = {limit} /\ limit <= most
  <2>1. probe = {}
    BY <1>6 DEF TruncationLimit
  <2>2. {available} \union bound = {available, limit}
    BY <1>6, <2>1
  <2>3. fetched = IF available <= limit THEN available ELSE limit
    BY <1>1, <2>2, MinOfTwo
  <2>4. ~truncated
    BY <2>1
  <2> HIDE DEF fetched, truncated
  <2> QED BY <1>1, <1>6, <2>3, <2>4
<1>7. CASE limited # {} /\ (requested = {} \/ (requested = {limit} /\ ~(limit <= most)))
  <2>1. probe = {most}
    BY <1>7 DEF TruncationLimit
  <2>2. {available} \union bound = {available, most + 1}
    BY <2>1
  <2>a. most + 1 \in Nat
    BY <1>1
  <2>3. fetched = IF available <= most + 1 THEN available ELSE most + 1
    <3>1. fetched = Min({available, most + 1})
      BY <2>2
    <3> HIDE DEF fetched
    <3> QED BY <2>a, <3>1, MinOfTwo
  <2> HIDE DEF fetched, probe
  <2>4. truncated <=> fetched > most
    BY <2>1
  <2>5. shown = IF truncated THEN most ELSE fetched
    BY <2>1
  <2> HIDE DEF fetched, truncated, shown
  <2> QED BY <1>1, <2>3, <2>4, <2>5
<1> QED BY <1>4, <1>5, <1>6, <1>7

-----------------------------------------------------------------------------
(* A plan that fails, and the planner of the questions *)

\* A parameter that lacks a value makes the plan miss one.
LEMMA LackIsMissed ==
    ASSUME NEW c, NEW cap, NEW facts, NEW p, Lacks(c, cap, facts, p),
           QueryOf(c, cap).parameters \in Seq(ToSet(QueryOf(c, cap).parameters))
    PROVE  MissingParameter(c, cap, facts) # {}
<1> DEFINE parameters == QueryOf(c, cap).parameters
           Unfilled(q) == q.required /\ ~ServerFilled(q) /\ q.name \notin ParamsFromVerified(c, cap, facts)
           unfilled == {i \in DOMAIN parameters : Unfilled(parameters[i])}
<1>1. DOMAIN parameters \subseteq Nat
  OBVIOUS
<1>2. \E i \in DOMAIN parameters : parameters[i] = p
  BY DEF Lacks, ToSet
<1>3. unfilled \in SUBSET Nat /\ unfilled # {}
  BY <1>1, <1>2 DEF Lacks
<1>4. PICK i \in unfilled : \A j \in unfilled : i <= j
  <2> HIDE DEF unfilled
  <2> QED BY <1>3, LeastNatural
<1>5. parameters[i].name \in MissingParameter(c, cap, facts)
  BY <1>4 DEF MissingParameter
<1> QED BY <1>5

\* When nothing is missing, the recipe of an approved capability resolves.
LEMMA RecipeResolves ==
    ASSUME NEW c, SoundCatalog(c), FiltersByRequired(c),
           NEW cap \in ToSet(c.capabilities), cap.status = "approved_mvp", NEW facts,
           \A p : ~Lacks(c, cap, facts, p)
    PROVE  ResolvesRecipe(c, cap, ParamsFromVerified(c, cap, facts))
<1> DEFINE q      == QueryOf(c, cap)
           params == ParamsFromVerified(c, cap, facts)
<1>1. ValidateDatasetRecipe(c, cap, q)
  BY DEF SoundCatalog, Validate, ValidateCapability
<1> SUFFICES ASSUME NEW r \in cap.recipe
             PROVE  \E d \in Named(c.datasets, r.dataset) : \E s \in ShapesOf(d, r.shape) :
                        /\ r.orderBy \subseteq s.orderBy
                        /\ \A f \in ToSet(r.filters) : \E slot \in Named(d.filters, f.filter) :
                               /\ f.operator \in slot.operators
                               /\ (f.parameter # {}) # (f.value # {})
                               /\ slot.exact \/ (f.parameter \subseteq params /\ FitsFilter(c, cap, f, slot))
                        /\ r.projection \subseteq NamesOf(OutputFields(d, s))
  BY DEF ResolvesRecipe
<1>2. PICK d \in Named(c.datasets, r.dataset) : \E s \in ShapesOf(d, r.shape) :
          /\ r.orderBy \subseteq s.orderBy
          /\ \A f \in ToSet(r.filters) : ValidateRecipeFilter(d, q, f)
          /\ \A name \in r.projection : \E o \in ToSet(OutputFields(d, s)) :
                 o.name = name /\ o.sensitivity \notin {"filter_only", "never_use"}
  BY <1>1 DEF ValidateDatasetRecipe
<1>3. PICK s \in ShapesOf(d, r.shape) :
          /\ r.orderBy \subseteq s.orderBy
          /\ \A f \in ToSet(r.filters) : ValidateRecipeFilter(d, q, f)
          /\ \A name \in r.projection : \E o \in ToSet(OutputFields(d, s)) : o.name = name
  BY <1>2
<1>4. r.projection \subseteq NamesOf(OutputFields(d, s))
  BY <1>3 DEF NamesOf
<1>5. ASSUME NEW f \in ToSet(r.filters)
      PROVE  \E slot \in Named(d.filters, f.filter) :
                 /\ f.operator \in slot.operators
                 /\ (f.parameter # {}) # (f.value # {})
                 /\ slot.exact \/ (f.parameter \subseteq params /\ FitsFilter(c, cap, f, slot))
  <2>1. PICK slot \in Named(d.filters, f.filter) :
            f.operator \in slot.operators /\ (f.parameter # {}) # (f.value # {})
    BY <1>3 DEF ValidateRecipeFilter
  <2>2. CASE slot.exact
    BY <2>1, <2>2
  <2>3. CASE ~slot.exact
    <3>1. /\ FitsFilter(c, cap, f, slot)
          /\ \A name \in f.parameter : \E p \in ToSet(q.parameters) :
                 p.name = name /\ p.required /\ ~ServerFilled(p)
      BY <1>2, <2>1, <2>3 DEF FiltersByRequired
    <3>2. f.parameter \subseteq params
      BY <3>1 DEF Lacks
    <3> QED BY <2>1, <3>1, <3>2
  <2> QED BY <2>2, <2>3
<1> QED BY <1>3, <1>4, <1>5

\* The planner of the questions calls one capability complete only when it is
\* executable and none of its inputs is missing.
LEMMA CompleteMissesNothing ==
    ASSUME NEW c, NEW id, NEW facts, PlanClarification(c, {id}, facts).result = "complete",
           NEW cap, Executable(c, id) \subseteq {cap}
    PROVE  Executable(c, id) = {cap} /\ MissingFields(c, cap, facts) = {}
<1> DEFINE known == {i \in {id} : Executable(c, i) # {}}
           caps  == UNION {Executable(c, i) : i \in known}
           Fields(i) == MissingFields(c, CHOOSE e \in Executable(c, i) : TRUE, facts)
           shared == {f \in UNION {Fields(i) : i \in known} :
                         (\A i \in known : f \in Fields(i)) /\ SameInput(caps, f)}
<1>0. Cardinality({}) = 0 /\ \A e : Cardinality({e}) = 1
  BY FS_EmptySet, FS_Singleton
<1>1. Cardinality(known) = 1 /\ shared = {}
  BY DEF PlanClarification
<1>2. known # {}
  BY <1>0, <1>1
<1>3. Executable(c, id) = {cap}
  BY <1>2
<1>4. known = {id} /\ Fields(id) = MissingFields(c, cap, facts)
  BY <1>3
<1>5. caps = {cap}
  BY <1>3, <1>4
<1>6. \A f : SameInput(caps, f)
  <2>1. {e.maxDays : e \in caps} = {cap.maxDays}
    BY <1>5
  <2> QED BY <1>0, <2>1 DEF SameInput
<1>7. shared = MissingFields(c, cap, facts)
  BY <1>4, <1>6
<1> QED BY <1>1, <1>3, <1>7

\* The catalog of the dialogue is one the earlier lemmas are about.
LEMMA DialogueCatalogSound == SoundCatalog(DialogueCatalog)
  BY CatalogServed DEF SoundCatalog

\* The fields of the facts.
LEMMA FactFields == \A fields : DOMAIN FactsOf(fields) = fields
  BY DEF FactsOf

\* A plan of the dialogue's catalog that fails while the planner of the
\* questions calls the capability complete, fails for its metric: a parameter
\* is never missing to one and known to the other, as long as no constraint of
\* the intent is a person's name.
LEMMA FailsForMetric ==
    ASSUME NEW id, NEW facts, NEW metric, NEW intent, "person_name" \notin intent.constraints,
           NEW plan, plan = PlanSelectedCapability(DialogueCatalog, id,
                       [facts |-> facts, metric |-> metric, temporalError |-> FALSE]),
           plan.outcome # "planned",
           PlanClarification(DialogueCatalog, {id}, ClarificationFacts(intent, {})).result = "complete"
    PROVE  plan.outcome = "metric"
<1> DEFINE c     == DialogueCatalog
           known == ClarificationFacts(intent, {})
<1>1. SoundCatalog(c)
  BY DialogueCatalogSound
<1>2. \E cap : Executable(c, id) \subseteq {cap}
  <2>1. CASE Executable(c, id) = {}
    BY <2>1
  <2>2. CASE Executable(c, id) # {}
    <3>1. PICK cap \in Executable(c, id) : TRUE
      BY <2>2
    <3>2. cap \in ToSet(c.capabilities) /\ cap.status = "approved_mvp" /\ cap.id = id
      BY <3>1 DEF Executable, Named
    <3> QED BY <1>1, <3>2, FindsExecutable
  <2> QED BY <2>1, <2>2
<1>3. PICK cap : Executable(c, id) = {cap} /\ MissingFields(c, cap, known) = {}
  BY <1>2, CompleteMissesNothing
<1>4. cap \in ToSet(c.capabilities) /\ cap.status = "approved_mvp"
  BY <1>3 DEF Executable, Named
<1>5. (CHOOSE e \in Executable(c, id) : TRUE) = cap
  BY <1>3
<1>6. DOMAIN known = intent.constraints
  BY FactFields DEF ClarificationFacts
<1>7. ASSUME NEW p, Lacks(c, cap, facts, p) PROVE FALSE
  <2>1. PICK input \in RequiredInputs(c, cap) :
            input.id \notin {"date_range", "limit"}
    BY <1>1, <1>4, <1>7, LacksIsAsked
  <2>2. ~InputSatisfied(c, cap, input, known)
    BY <1>6, <2>1 DEF InputSatisfied
  <2> QED BY <1>3, <2>1, <2>2 DEF MissingFields
<1>8. MissingParameter(c, cap, facts) = {}
  BY <1>7, MissingLacks
<1>9. ResolvesRecipe(c, cap, ParamsFromVerified(c, cap, facts))
  BY <1>1, <1>4, <1>7, RecipeResolves, CatalogServed
<1>10. ~VerifyCapabilityMetric(c, cap, metric)
  BY <1>3, <1>5, <1>8, <1>9 DEF PlanSelectedCapability
<1> QED BY <1>3, <1>5, <1>10 DEF PlanSelectedCapability

-----------------------------------------------------------------------------
(* What is asked, and from which intent *)

\* The constraints of an intent or an extraction hold no entity.
NoEntity(fields) == fields \intersect EntityFields = {}

IsIntent(intent) ==
    /\ intent = [kind |-> intent.kind, entities |-> intent.entities, constraints |-> intent.constraints]
    /\ NoEntity(intent.constraints)

\* An extraction, of no constraint on an entity.
IsExtraction(x) == DOMAIN x = DOMAIN NoExtraction /\ NoEntity(x.constraints)

\* A payload of at most n attempts, whose source can be continued from.
IsPayload(p, n) ==
    /\ p = [kind |-> p.kind, each |-> p.each, fields |-> p.fields, attempt |-> p.attempt,
            missing |-> p.missing, source |-> p.source]
    /\ p.kind \in {"select_option", "select_entity", "collect_fields", "free_text"}
    /\ p.attempt \in 0 .. n
    /\ NoEntity(p.source.constraints) /\ NoEntity(p.source.prompt.constraints)

\* At most one payload.
OnePayload(ps, n) == (ps = {} \/ \E p : ps = {p}) /\ \A p \in ps : IsPayload(p, n)

Terminals == {Waiting, "completed", "blocked_by_policy", "unsupported",
              "failed_operational", "context_window_exceeded"}

\* A turn may end with this outcome.
Ends(r) ==
    /\ IsOutcome(r)
    /\ r.terminal \in Terminals
    /\ OnePayload(r.next, turns + 1)
    /\ r.reason = "planning_inconsistent" => r.cause = "metric"

\* What the dialogue keeps: the question that is pending, with its attempts
\* within the turns, the extraction on record, and how the last turn ended.
AskInv ==
    /\ turns \in 0 .. MaxTurns
    /\ OnePayload(pending, turns)
    /\ IsExtraction(extracted)
    /\ last.terminal \in Terminals \union {"none"}
    /\ InconsistentOnlyOnMetric

\* What Outcome makes, for another reason than an inconsistent plan.
LEMMA PlainEnds ==
    ASSUME NEW terminal \in Terminals, NEW reason, reason # "planning_inconsistent",
           NEW next, OnePayload(next, turns + 1)
    PROVE  Ends(Outcome(terminal, reason, next))
  BY OutcomeFields DEF Ends

\* What is extracted from a message constrains no entity, nor does what is
\* merged, patched, or taken from a payload.
LEMMA ExtractsNoEntity ==
    /\ \A m : IsExtraction(Extraction(m)) /\ NoEntity(Extraction(m).constraints)
    /\ IsExtraction(NoExtraction) /\ NoEntity(NoExtraction.constraints)
    /\ \A source, current : NoEntity(source.constraints) /\ NoEntity(current.constraints) =>
           IsExtraction(PreferCurrentTurn(source, current))
  BY DEF IsExtraction, Extraction, NoExtraction, PreferCurrentTurn, NoEntity

\* Nor does what is on record, before the router is asked and after, or when a
\* payload is answered.
LEMMA RecordsNoEntity ==
    ASSUME AskInv, NEW input
    PROVE  /\ IsExtraction(extracted)
           /\ \A p : IsPayload(p, turns) => IsExtraction(ContinuationExtraction(input.message, p))
           /\ IsExtraction(BeforeRoute(input))
           /\ IsExtraction(OnRecord(input))
<1>1. IsExtraction(extracted)
  BY DEF AskInv
<1>2. ASSUME NEW p, IsPayload(p, turns) PROVE IsExtraction(ContinuationExtraction(input.message, p))
  <2>1. IsExtraction(PreferCurrentTurn(p.source.prompt, Extraction(input.message)))
    BY <1>2, ExtractsNoEntity DEF IsPayload
  <2> QED BY <1>1, <2>1 DEF ContinuationExtraction, Recorded
<1>3. IsExtraction(BeforeRoute(input))
  <2> DEFINE replied == {p \in pending : ResolvePending(input, p).outcome # "none"}
  <2>1. CASE replied = {}
    BY <1>1, <2>1 DEF BeforeRoute
  <2>2. CASE replied # {}
    <3>1. PICK p : p = (CHOOSE q \in replied : TRUE)
      OBVIOUS
    <3>2. p \in replied
      BY <2>2, <3>1
    <3>3. IsPayload(p, turns)
      BY <3>2 DEF AskInv, OnePayload
    <3>4. BeforeRoute(input) = ContinuationExtraction(input.message, p)
      BY <2>2, <3>1 DEF BeforeRoute
    <3> QED BY <1>2, <3>3, <3>4
  <2> QED BY <2>1, <2>2
<1>4. IsExtraction(OnRecord(input))
  BY <1>3, ExtractsNoEntity DEF OnRecord, Recorded
<1> QED BY <1>1, <1>2, <1>3, <1>4

\* An intent stays one when an extraction is merged into it.
LEMMA MergesIntent ==
    ASSUME NEW x, NoEntity(x.constraints), NEW intent, IsIntent(intent)
    PROVE  IsIntent(MergeInto(x, intent))
<1> DEFINE merged == MergeInto(x, intent)
<1>1. merged = [kind |-> intent.kind, entities |-> intent.entities \union x.entities,
                constraints |-> intent.constraints \union x.constraints]
  <2>1. PICK es, cs : es = intent.entities \union x.entities /\ cs = intent.constraints \union x.constraints
    OBVIOUS
  <2>2. merged = [intent EXCEPT !.entities = es, !.constraints = cs]
    BY <2>1 DEF MergeInto
  <2>3. PICK k, e, t : intent = [kind |-> k, entities |-> e, constraints |-> t]
    BY DEF IsIntent
  <2>4. merged = [kind |-> k, entities |-> es, constraints |-> cs]
    <3> HIDE DEF merged
    <3> QED BY <2>2, <2>3
  <2> HIDE DEF merged
  <2> QED BY <2>1, <2>3, <2>4
<1>2. NoEntity(intent.constraints \union x.constraints)
  BY DEF NoEntity, IsIntent
<1> HIDE DEF merged
<1>3. IsIntent(merged)
  BY <1>1, <1>2 DEF IsIntent
<1> QED BY <1>3 DEF merged

\* The intent of a payload's source is one.
LEMMA SourceIntent ==
    ASSUME NEW p, NEW n, IsPayload(p, n)
    PROVE  IsIntent(IntentFromSource(p))
<1> DEFINE i == [kind |-> "clarification_reply", entities |-> p.source.entities,
                 constraints |-> p.source.constraints \union PendingQuantity]
<1>1. NoEntity(p.source.constraints \union PendingQuantity)
  BY DEF IsPayload, NoEntity, PendingQuantity, EntityFields
<1>2. IsIntent(i)
  BY <1>1 DEF IsIntent
<1>3. NoEntity(p.source.prompt.constraints)
  BY DEF IsPayload
<1> QED BY <1>2, <1>3, MergesIntent DEF IntentFromSource

\* A patch brings dates and quantities.
LEMMA PatchesIntent ==
    ASSUME NEW intent, IsIntent(intent), NEW patch
    PROVE  IsIntent(ApplyConstraintPatch(intent, patch))
<1> DEFINE patched == ApplyConstraintPatch(intent, patch)
           fields  == intent.constraints \union (patch \intersect {"from_date", "to_date", "limit_value"})
<1>1. patched = [kind |-> intent.kind, entities |-> intent.entities, constraints |-> fields]
  BY DEF ApplyConstraintPatch, IsIntent
<1>2. NoEntity(fields)
  BY DEF NoEntity, IsIntent, EntityFields
<1> HIDE DEF patched, fields
<1>3. IsIntent(patched)
  BY <1>1, <1>2 DEF IsIntent
<1> QED BY <1>3 DEF patched

\* A payload that Payload makes.
LEMMA MakesPayload ==
    ASSUME NEW kind \in {"select_option", "select_entity", "collect_fields", "free_text"},
           NEW each, NEW fields, NEW n \in Nat, NEW attempt \in 0 .. n, NEW source,
           NoEntity(source.constraints), NoEntity(source.prompt.constraints)
    PROVE  IsPayload(Payload(kind, each, fields, attempt, source), n)
  BY DEF Payload, IsPayload

\* The source of a payload is the intent it is made from.
LEMMA SnapshotsIntent ==
    ASSUME NEW intent, IsIntent(intent), NEW prompt, NoEntity(prompt.constraints)
    PROVE  /\ NoEntity(SourceIntentSnapshot(intent, prompt).constraints)
           /\ NoEntity(SourceIntentSnapshot(intent, prompt).prompt.constraints)
  BY DEF SourceIntentSnapshot, IsIntent

\* What the wording of a model repeats constrains no entity either.
LEMMA PromptsNoEntity ==
    ASSUME NEW x, NoEntity(x.constraints), NEW prompt \in ReasonPrompts(x)
    PROVE  NoEntity(prompt.constraints)
  BY ExtractsNoEntity DEF ReasonPrompts

\* A planned question is at most one payload.
LEMMA PlansPayload ==
    ASSUME NEW ids, NEW intent, NEW patch, NEW source, NEW n \in Nat, NEW attempt \in 0 .. n,
           NoEntity(source.constraints), NoEntity(source.prompt.constraints)
    PROVE  OnePayload(PlannedClarification(ids, intent, patch, source, attempt), n)
<1> DEFINE plan == PlanClarification(DialogueCatalog, ids, ClarificationFacts(intent, patch))
           p    == Payload(plan.kind, plan.each, plan.fields, attempt, source)
<1>1. plan.kind \in {"select_option", "collect_fields"}
  BY DEF PlanClarification
<1>2. IsPayload(p, n)
  <2> HIDE DEF plan
  <2> QED BY <1>1, MakesPayload
<1>3. PlannedClarification(ids, intent, patch, source, attempt) \in {{}, {p}}
  BY DEF PlannedClarification
<1> HIDE DEF p
<1> QED BY <1>2, <1>3 DEF OnePayload

\* Asking again makes one payload, with one attempt more.
LEMMA AsksAgain ==
    ASSUME NEW id, NEW intent, IsIntent(intent), NEW x, NoEntity(x.constraints),
           turns \in Nat, NEW active, OnePayload(active, turns),
           NEW p \in AskAgain(id, intent, x, active)
    PROVE  IsPayload(p, turns + 1)
<1> DEFINE attempt == IF active = {} THEN 1 ELSE 1 + (CHOOSE q \in active : TRUE).attempt
<1>1. attempt \in 0 .. turns + 1
  <2>1. CASE active = {}
    BY <2>1
  <2>2. CASE active # {}
    <3>1. PICK q : q = (CHOOSE each \in active : TRUE)
      OBVIOUS
    <3>2. q \in active
      BY <2>2, <3>1
    <3>3. q.attempt \in 0 .. turns
      BY <3>2 DEF OnePayload, IsPayload
    <3>4. attempt = 1 + q.attempt
      BY <2>2, <3>1
    <3> QED BY <3>3, <3>4
  <2> QED BY <2>1, <2>2
<1> HIDE DEF attempt
<1>2. PICK prompt \in ReasonPrompts(x) :
          LET source == SourceIntentSnapshot(intent, prompt)
              asked  == PlannedClarification({id}, intent, {}, source, attempt)
          IN  p \in IF asked = {} THEN {Payload("free_text", NoFacts, {}, 1, source)} ELSE asked
  BY DEF AskAgain, attempt
<1> DEFINE source == SourceIntentSnapshot(intent, prompt)
           asked  == PlannedClarification({id}, intent, {}, source, attempt)
<1>3. NoEntity(source.constraints) /\ NoEntity(source.prompt.constraints)
  BY PromptsNoEntity, SnapshotsIntent
<1> HIDE DEF source
<1>4. OnePayload(asked, turns + 1)
  BY <1>1, <1>3, PlansPayload
<1>5. IsPayload(Payload("free_text", NoFacts, {}, 1, source), turns + 1)
  BY <1>3, MakesPayload
<1>6. p = Payload("free_text", NoFacts, {}, 1, source) \/ p \in asked
  BY <1>2 DEF source
<1> HIDE DEF asked
<1> QED BY <1>4, <1>5, <1>6 DEF OnePayload

\* One payload is one.
LEMMA SinglePayload ==
    ASSUME NEW p, NEW n, IsPayload(p, n)
    PROVE  OnePayload({p}, n)
  BY DEF OnePayload

\* None is, and what was one payload of fewer attempts still is.
LEMMA KeepsPayload ==
    /\ \A n : OnePayload({}, n)
    /\ \A n \in Nat : \A ps : OnePayload(ps, n) => OnePayload(ps, n + 1)
<1>1. \A n : OnePayload({}, n)
  BY DEF OnePayload
<1>2. \A n \in Nat : \A p : IsPayload(p, n) => IsPayload(p, n + 1)
  BY DEF IsPayload
<1> QED BY <1>1, <1>2 DEF OnePayload

\* Whatever the run of a workflow comes to ends a turn.
LEMMA RunEndsTurn ==
    ASSUME NEW id, NEW wf, NEW sent, NEW intent, IsIntent(intent), NEW x, NoEntity(x.constraints),
           turns \in Nat, NEW kept, OnePayload(kept, turns),
           NEW r \in RunWorkflow(id, wf, sent, intent, x, kept)
    PROVE  Ends(r)
<1>1. \/ \E reason \in {"execution_failed", "execution_timed_out"} :
            r = Outcome("failed_operational", reason, kept)
      \/ r = Outcome("completed", "execution_completed", kept)
      \/ \E prompt \in ReasonPrompts(x) :
            r = Outcome(Waiting, "ambiguous_client_identity",
                        {EntityPayload(SourceIntentSnapshot(intent, prompt))})
      \/ \E options : r = Outcome(Waiting, "ambiguous_client_identity", {InterruptPayload(options)})
  BY DEF RunWorkflow
<1>2. OnePayload(kept, turns + 1)
  BY KeepsPayload
<1>3. ASSUME NEW prompt \in ReasonPrompts(x)
      PROVE  OnePayload({EntityPayload(SourceIntentSnapshot(intent, prompt))}, turns + 1)
  <2>1. PICK source : source = SourceIntentSnapshot(intent, prompt)
    OBVIOUS
  <2>2. NoEntity(source.constraints) /\ NoEntity(source.prompt.constraints)
    BY <2>1, PromptsNoEntity, SnapshotsIntent
  <2>3. IsPayload(EntityPayload(source), turns + 1)
    BY <2>2, MakesPayload DEF EntityPayload
  <2> QED BY <2>1, <2>3, SinglePayload
<1>4. ASSUME NEW options PROVE OnePayload({InterruptPayload(options)}, turns + 1)
  <2>1. NoEntity(NoSource.constraints) /\ NoEntity(NoSource.prompt.constraints)
    BY DEF NoSource, NoExtraction, NoEntity
  <2>2. PICK each, yes, made :
            /\ each = [o \in options |-> {}] /\ yes = TRUE
            /\ made = Payload("select_entity", each, {}, 0, NoSource)
    OBVIOUS
  <2>3. InterruptPayload(options) = [kind |-> "select_entity", each |-> each, fields |-> {},
                                     attempt |-> 0, missing |-> yes, source |-> NoSource]
    <3>1. PICK missing : made = [kind |-> "select_entity", each |-> each, fields |-> {},
                                 attempt |-> 0, missing |-> missing, source |-> NoSource]
      BY <2>2 DEF Payload
    <3>2. InterruptPayload(options) = [made EXCEPT !.missing = yes]
      BY <2>2 DEF InterruptPayload
    <3> QED BY <3>1, <3>2
  <2>4. IsPayload(InterruptPayload(options), turns + 1)
    BY <2>1, <2>3 DEF IsPayload
  <2> QED BY <2>4, SinglePayload
<1>5. {"completed", "failed_operational", Waiting} \subseteq Terminals
  BY DEF Terminals
<1>6. CASE \E reason \in {"execution_failed", "execution_timed_out"} :
            r = Outcome("failed_operational", reason, kept)
  BY <1>2, <1>5, <1>6, PlainEnds
<1>7. CASE r = Outcome("completed", "execution_completed", kept)
  BY <1>2, <1>5, <1>7, PlainEnds
<1>8. CASE \E prompt \in ReasonPrompts(x) :
            r = Outcome(Waiting, "ambiguous_client_identity",
                        {EntityPayload(SourceIntentSnapshot(intent, prompt))})
  BY <1>3, <1>5, <1>8, PlainEnds
<1>9. CASE \E options : r = Outcome(Waiting, "ambiguous_client_identity", {InterruptPayload(options)})
  BY <1>4, <1>5, <1>9, PlainEnds
<1> QED BY <1>1, <1>6, <1>7, <1>8, <1>9

\* So does the workflow of a capability.
LEMMA CompiledEnds ==
    ASSUME NEW id, NEW facts, NEW intent, IsIntent(intent), NEW x, NoEntity(x.constraints),
           turns \in Nat, NEW kept, OnePayload(kept, turns),
           NEW r \in CompileAndRun(id, facts, intent, x, kept)
    PROVE  Ends(r)
<1>1. CASE r = Outcome("failed_operational", "workflow_compile_failed", kept)
  <2>1. OnePayload(kept, turns + 1) /\ "failed_operational" \in Terminals
    BY KeepsPayload DEF Terminals
  <2> QED BY <1>1, <2>1, PlainEnds
<1>2. CASE \E q, bound, wf, sent : /\ q \in RunWorkflow(id, wf, sent, intent, x, kept)
                                   /\ r = [q EXCEPT !.ran = {id}, !.bound = bound]
  <2>1. PICK q, bound, wf, sent : /\ q \in RunWorkflow(id, wf, sent, intent, x, kept)
                                  /\ r = [q EXCEPT !.ran = {id}, !.bound = bound]
    BY <1>2
  <2>2. Ends(q)
    BY <2>1, RunEndsTurn
  <2>3. r = [terminal |-> q.terminal, reason |-> q.reason, ran |-> {id}, bound |-> bound,
             cause |-> q.cause, expressed |-> q.expressed, stale |-> q.stale, next |-> q.next]
    BY <2>1, <2>2 DEF Ends, IsOutcome
  <2> QED BY <2>2, <2>3 DEF Ends, IsOutcome
<1> QED BY <1>1, <1>2 DEF CompileAndRun

\* execute_selected_capability ends a turn: a plan that fails although nothing
\* is to be asked, fails for its metric.
LEMMA SelectedEnds ==
    ASSUME NEW id, NEW m, NEW intent, IsIntent(intent), NEW x, NoEntity(x.constraints),
           turns \in Nat, NEW active, OnePayload(active, turns), NEW kept, OnePayload(kept, turns),
           NEW r \in ExecuteSelected(id, m, intent, x, active, kept)
    PROVE  Ends(r)
<1> DEFINE facts == RequestFacts(m, intent, x)
           plan  == PlanSelectedCapability(DialogueCatalog, id,
                       [facts |-> facts, metric |-> x.metric, temporalError |-> FALSE])
           asked == PlanClarification(DialogueCatalog, {id}, ClarificationFacts(intent, {}))
           again == AskAgain(id, intent, x, active)
           run   == CompileAndRun(id, facts, intent, x, kept)
           inconsistent == [Outcome("failed_operational", "planning_inconsistent", kept)
                               EXCEPT !.cause = plan.outcome]
<1>1. \/ x.bad /\ \E p \in again : r = Outcome(Waiting, "invalid_temporal_input", {p})
      \/ plan.outcome # "planned" /\ asked.result = "complete" /\ r = inconsistent
      \/ \E p \in again : r = Outcome(Waiting, "missing_execution_parameters", {p})
      \/ r = Outcome("blocked_by_policy", "blocked_by_policy", kept)
      \/ r \in run
  <2> HIDE DEF facts, asked, again, run
  <2>1. CASE x.bad
    BY <2>1 DEF ExecuteSelected, facts, asked, again, run
  <2> QED BY DEF ExecuteSelected, facts, asked, again, run
<1>2. OnePayload(kept, turns + 1) /\ {Waiting, "blocked_by_policy", "failed_operational"} \subseteq Terminals
  BY KeepsPayload DEF Terminals
<1>3. \A p \in again : OnePayload({p}, turns + 1)
  BY AsksAgain, SinglePayload
<1>4. ASSUME plan.outcome # "planned", asked.result = "complete", r = inconsistent
      PROVE  Ends(r)
  <2>1. PICK cause : cause = plan.outcome
    OBVIOUS
  <2>2. "person_name" \notin intent.constraints
    BY DEF IsIntent, NoEntity, EntityFields
  <2>3. cause = "metric"
    <3> HIDE DEF facts
    <3> QED BY <1>4, <2>1, <2>2, FailsForMetric
  <2>4. r = [Outcome("failed_operational", "planning_inconsistent", kept) EXCEPT !.cause = cause]
    BY <1>4, <2>1
  <2>5. r = [terminal |-> "failed_operational", reason |-> "planning_inconsistent", ran |-> {},
             bound |-> {}, cause |-> cause, expressed |-> {}, stale |-> {}, next |-> kept]
    BY <2>4 DEF Outcome
  <2> QED BY <1>2, <2>3, <2>5 DEF Ends, IsOutcome
<1>5. ASSUME NEW p \in again, r = Outcome(Waiting, "invalid_temporal_input", {p}) PROVE Ends(r)
  BY <1>2, <1>3, <1>5, PlainEnds
<1>6. ASSUME NEW p \in again, r = Outcome(Waiting, "missing_execution_parameters", {p}) PROVE Ends(r)
  BY <1>2, <1>3, <1>6, PlainEnds
<1>7. ASSUME r = Outcome("blocked_by_policy", "blocked_by_policy", kept) PROVE Ends(r)
  BY <1>2, <1>7, PlainEnds
<1>8. ASSUME r \in run PROVE Ends(r)
  BY <1>8, CompiledEnds
<1> HIDE DEF plan, asked, again, run, inconsistent
<1> QED BY <1>1, <1>4, <1>5, <1>6, <1>7, <1>8

\* Every verdict on a request ends a turn.
LEMMA ConcludeEnds ==
    ASSUME NEW input, NEW intent, IsIntent(intent), NEW x, NoEntity(x.constraints),
           turns \in Nat, NEW kept, OnePayload(kept, turns), NEW d,
           d.verdict \in {"select", "clarify", "unsupported", "failed_operational"},
           NEW r \in Conclude(input, intent, x, d, kept)
    PROVE  Ends(r)
<1>1. OnePayload({}, turns) /\ OnePayload(kept, turns + 1)
  BY KeepsPayload
<1>2. {Waiting, "unsupported", "failed_operational"} \subseteq Terminals
  BY DEF Terminals
<1>3. ASSUME NEW id, r \in ExecuteSelected(id, input.message, intent, x, {}, kept) PROVE Ends(r)
  BY <1>1, <1>3, SelectedEnds
<1>4. CASE d.verdict = "select"
  BY <1>3, <1>4 DEF Conclude
<1>5. CASE d.verdict = "clarify"
  <2> DEFINE source == SourceIntentSnapshot(intent, Extraction(input.message))
             asked  == PlannedClarification(d.alternatives, intent, input.patch, source, 1)
  <2>1. r \in ClarifyCandidates(input, intent, x, d.alternatives, kept)
    BY <1>5 DEF Conclude
  <2>2. \/ r = Outcome(Waiting, "weak_retrieval_evidence", asked)
        \/ \E id : r \in ExecuteSelected(id, input.message, intent, x, {}, kept)
    BY <2>1 DEF ClarifyCandidates
  <2>3. NoEntity(source.constraints) /\ NoEntity(source.prompt.constraints)
    BY ExtractsNoEntity, SnapshotsIntent
  <2>4. OnePayload(asked, turns + 1)
    <3> HIDE DEF source
    <3> QED BY <2>3, PlansPayload
  <2> HIDE DEF asked
  <2> QED BY <1>2, <1>3, <2>2, <2>4, PlainEnds
<1>6. CASE d.verdict \in {"unsupported", "failed_operational"}
  <2>1. \/ r = Outcome("unsupported", "unsupported_in_domain", kept)
        \/ r = Outcome("failed_operational", "reranker_failed_operational", kept)
    BY <1>6 DEF Conclude
  <2> QED BY <1>1, <1>2, <2>1, PlainEnds
<1> QED BY <1>4, <1>5, <1>6

\* A routed request ends a turn.
LEMMA ReportEnds ==
    ASSUME AskInv, NEW input, NEW intent, IsIntent(intent), turns \in Nat,
           NEW kept, OnePayload(kept, turns), NEW r \in ReportBranch(input, intent, kept)
    PROVE  Ends(r)
<1> DEFINE typed == TypedFilters(input.message, intent)
           stale == StaleFields(input)
           seen  == FiltersSeen(input, intent)
           x     == OnRecord(input)
<1>1. PICK plan, found, d, q :
         /\ d \in Verdicts(plan, DropInsufficient(DialogueCatalog, seen, found))
         /\ q \in Conclude(input, intent, x, d, kept)
         /\ r = Marked(q, typed, stale)
  BY ReportsWhatItConcludes
<1>2. d.verdict \in {"select", "clarify", "unsupported", "failed_operational"}
  BY <1>1, VerdictsHaveEvidence
<1>3. NoEntity(x.constraints)
  BY RecordsNoEntity DEF IsExtraction
<1> HIDE DEF x, typed, stale, seen
<1>4. Ends(q)
  BY <1>1, <1>2, <1>3, ConcludeEnds
<1>5. r = [terminal |-> q.terminal, reason |-> q.reason, ran |-> q.ran, bound |-> q.bound,
           cause |-> q.cause, expressed |-> typed, stale |-> stale, next |-> q.next]
  BY <1>1, <1>4 DEF Ends, IsOutcome, Marked
<1> QED BY <1>4, <1>5 DEF Ends, IsOutcome

\* The reply to a pending question, decided without the router, ends a turn.
LEMMA ReplyEnds ==
    ASSUME AskInv, NEW input, turns \in Nat, NEW p, IsPayload(p, turns), Settled(input, p),
           NEW r \in ReplyOutcomes(input, p)
    PROVE  Ends(r)
<1>1. OnePayload({}, turns) /\ OnePayload({}, turns + 1) /\ Waiting \in Terminals
  BY KeepsPayload DEF Terminals
<1>2. OnePayload({p}, turns)
  BY SinglePayload
<1>3. NoEntity(Extraction(input.message).constraints)
  BY ExtractsNoEntity
<1>4. IsIntent(ContinuationIntent(input, p))
  BY <1>3, SourceIntent, MergesIntent, PatchesIntent DEF ContinuationIntent
<1>5. NoEntity(ContinuationExtraction(input.message, p).constraints)
  BY RecordsNoEntity DEF IsExtraction
<1>6. ASSUME NEW id, r \in Continue(id, input, p) PROVE Ends(r)
  BY <1>1, <1>2, <1>4, <1>5, <1>6, SelectedEnds DEF Continue
<1>7. OnePayload({Incremented(p)}, turns + 1)
  <2>1. PICK n : n = p.attempt + 1
    OBVIOUS
  <2>2. Incremented(p) = [kind |-> p.kind, each |-> p.each, fields |-> p.fields, attempt |-> n,
                          missing |-> p.missing, source |-> p.source]
    BY <2>1 DEF Incremented, IsPayload
  <2>3. n \in 0 .. turns + 1
    BY <2>1 DEF IsPayload
  <2>4. IsPayload(Incremented(p), turns + 1)
    BY <2>2, <2>3 DEF IsPayload
  <2> QED BY <2>4, SinglePayload
<1>8. \/ \E id : r \in Continue(id, input, p)
      \/ r = Outcome(Waiting, "clarification_other_selected", {})
      \/ r = Outcome(Waiting, "clarification_recovery", {})
      \/ r = Outcome(Waiting, "clarification_unresolved", {Incremented(p)})
  <2> DEFINE resolved == ResolvePending(input, p)
  <2>1. CASE Continues(input, p)
    BY <2>1 DEF ReplyOutcomes
  <2>2. CASE ~Continues(input, p) /\ resolved.outcome = "selected"
    BY <2>2 DEF ReplyOutcomes
  <2>3. CASE ~Continues(input, p) /\ resolved.outcome = "free_form_other"
    BY <2>3 DEF ReplyOutcomes
  <2>4. CASE ~Continues(input, p) /\ resolved.outcome = "unresolved"
    BY <2>4 DEF ReplyOutcomes
  <2> QED BY <2>1, <2>2, <2>3, <2>4 DEF Settled
<1>9. CASE \E id : r \in Continue(id, input, p)
  BY <1>6, <1>9
<1>10. CASE \/ r = Outcome(Waiting, "clarification_other_selected", {})
            \/ r = Outcome(Waiting, "clarification_recovery", {})
            \/ r = Outcome(Waiting, "clarification_unresolved", {Incremented(p)})
  BY <1>1, <1>7, <1>10, PlainEnds
<1> QED BY <1>8, <1>9, <1>10

\* So does the reply the resolver of the router read.
LEMMA ReplyBranchEnds ==
    ASSUME AskInv, NEW input, turns \in Nat, NEW p, IsPayload(p, turns), NEW resolved,
           NEW kept, OnePayload(kept, turns), NEW r \in ReplyBranch(input, p, resolved, kept)
    PROVE  Ends(r)
<1>1. OnePayload({}, turns) /\ OnePayload({}, turns + 1) /\ OnePayload(kept, turns + 1)
  BY KeepsPayload
<1>2. {Waiting, "failed_operational"} \subseteq Terminals
  BY DEF Terminals
<1>3. OnePayload({p}, turns)
  BY SinglePayload
<1>4. IsIntent(IntentFromSource(p))
  BY SourceIntent
<1>5. /\ NoEntity(OnRecord(input).constraints)
      /\ NoEntity(ContinuationExtraction(input.message, p).constraints)
  BY RecordsNoEntity DEF IsExtraction
<1>6. ASSUME NEW id, r \in ExecuteSelected(id, input.message, IntentFromSource(p),
                                ContinuationExtraction(input.message, p), {p}, {})
      PROVE  Ends(r)
  BY <1>1, <1>3, <1>4, <1>5, <1>6, SelectedEnds
<1>7. ASSUME NEW id, r \in ContinueWithClient(input, p, id, kept) PROVE Ends(r)
  <2>1. CASE id \notin EntityIds
    BY <1>1, <1>2, <1>7, <2>1, PlainEnds DEF ContinueWithClient
  <2>2. CASE id \in EntityIds
    <3>1. PICK i, es : i = IntentFromSource(p) /\ es = i.entities \union {"client_id"}
      OBVIOUS
    <3>2. PICK j : j = [i EXCEPT !.entities = es]
      OBVIOUS
    <3>3. j = [kind |-> i.kind, entities |-> es, constraints |-> i.constraints]
      BY <1>4, <3>1, <3>2 DEF IsIntent
    <3>4. IsIntent(j)
      BY <1>4, <3>1, <3>3 DEF IsIntent
    <3>5. r \in ExecuteSelected("client_relationship_by_id", input.message, j,
                                OnRecord(input), {p}, {})
      BY <1>7, <2>2, <3>1, <3>2 DEF ContinueWithClient
    <3> QED BY <1>1, <1>3, <1>5, <3>4, <3>5, SelectedEnds
  <2> QED BY <2>1, <2>2
<1>8. \/ r = Outcome(Waiting, "clarification_unresolved", kept)
      \/ r = Outcome(Waiting, "clarification_other_selected", {})
      \/ \E id : r \in ContinueWithClient(input, p, id, kept)
      \/ \E id : r \in ExecuteSelected(id, input.message, IntentFromSource(p),
                                       ContinuationExtraction(input.message, p), {p}, {})
  <2> DEFINE others == resolved.outcome = "free_form_other" \/ resolved.id = {"others"}
  <2>1. CASE resolved.outcome = "unresolved" /\ ~others
    BY <2>1 DEF ReplyBranch
  <2>2. CASE resolved.outcome = "unresolved" /\ others
    BY <2>2 DEF ReplyBranch
  <2>3. CASE resolved.outcome # "unresolved" /\ others
    BY <2>3 DEF ReplyBranch
  <2>4. CASE resolved.outcome # "unresolved" /\ ~others
    <3>1. PICK id \in resolved.id :
           r \in IF p.kind = "select_entity" THEN ContinueWithClient(input, p, id, kept)
                 ELSE ExecuteSelected(id, input.message, IntentFromSource(p),
                                      ContinuationExtraction(input.message, p), {p}, {})
      BY <2>4 DEF ReplyBranch
    <3> QED BY <3>1
  <2> QED BY <2>1, <2>2, <2>3, <2>4
<1>9. CASE \/ r = Outcome(Waiting, "clarification_unresolved", kept)
           \/ r = Outcome(Waiting, "clarification_other_selected", {})
  BY <1>1, <1>2, <1>9, PlainEnds
<1> QED BY <1>6, <1>7, <1>8, <1>9

\* A turn that ends so leaves the invariant behind.
LEMMA TurnKeepsAsking ==
    ASSUME AskInv, MayTurn, NEW input, NEW x, IsExtraction(x),
           NEW outcomes, \A r \in outcomes : Ends(r), EndTurn(input, x, outcomes)
    PROVE  AskInv'
<1>1. PICK r \in outcomes : /\ pending' = r.next
                            /\ last' = [k \in DOMAIN NothingYet |-> r[k]]
                            /\ extracted' = x
                            /\ turns' = turns + 1
  BY DEF EndTurn
<1>2. last'.terminal = r.terminal /\ last'.reason = r.reason /\ last'.cause = r.cause
  BY <1>1 DEF NothingYet
<1>3. Ends(r)
  BY <1>1
<1>4. turns' \in 0 .. MaxTurns
  BY <1>1, TurnsBound DEF AskInv, MayTurn
<1>5. OnePayload(pending', turns')
  BY <1>1, <1>3 DEF Ends
<1>6. last'.terminal \in Terminals
  BY <1>2, <1>3 DEF Ends
<1>7. InconsistentOnlyOnMetric'
  BY <1>2, <1>3 DEF Ends, InconsistentOnlyOnMetric
<1> QED BY <1>1, <1>4, <1>5, <1>6, <1>7 DEF AskInv

\* Every turn does.
LEMMA NextAskInv == AskInv /\ [DialogueNext]_dialogueVars => AskInv'
<1> SUFFICES ASSUME AskInv, [DialogueNext]_dialogueVars PROVE AskInv'
  OBVIOUS
<1>a. /\ turns \in Nat
      /\ OnePayload(pending, turns) /\ OnePayload(pending, turns + 1)
      /\ \A p \in pending : IsPayload(p, turns)
  <2>1. turns \in 0 .. MaxTurns /\ OnePayload(pending, turns)
    BY DEF AskInv
  <2>2. turns \in Nat
    BY <2>1, TurnsBound
  <2>3. \A p \in pending : IsPayload(p, turns)
    BY <2>1 DEF OnePayload
  <2> QED BY <2>1, <2>2, <2>3, KeepsPayload
<1>b. \A input : OnePayload(Kept(input), turns) /\ OnePayload(Kept(input), turns + 1)
  <2>1. ASSUME NEW input PROVE Kept(input) = {} \/ Kept(input) = pending
    <3>1. pending = {} \/ \E p : pending = {p}
      BY <1>a DEF OnePayload
    <3> QED BY <3>1 DEF Kept
  <2> QED BY <1>a, <2>1, KeepsPayload
<1>c. /\ IsExtraction(extracted)
      /\ \A input : /\ IsExtraction(BeforeRoute(input)) /\ IsExtraction(OnRecord(input))
                     /\ \A p \in pending : IsExtraction(ContinuationExtraction(input.message, p))
  BY <1>a, RecordsNoEntity
<1>0. CASE UNCHANGED dialogueVars
  BY <1>0 DEF dialogueVars, AskInv, IsExtraction, InconsistentOnlyOnMetric
<1>1. CASE ContextWindowExceeded
  <2>1. PICK input : MayTurn /\ EndTurn(input, extracted,
            {Outcome("context_window_exceeded", "context_window_exceeded", pending)})
    BY <1>1 DEF ContextWindowExceeded
  <2>2. "context_window_exceeded" \in Terminals
    BY DEF Terminals
  <2>3. Ends(Outcome("context_window_exceeded", "context_window_exceeded", pending))
    BY <1>a, <2>2, PlainEnds
  <2> QED BY <1>c, <2>1, <2>3, TurnKeepsAsking
<1>2. CASE ReplyDecided
  <2>1. PICK p, input : /\ p \in pending
                        /\ MayTurn /\ Settled(input, p)
                        /\ EndTurn(input, ContinuationExtraction(input.message, p), ReplyOutcomes(input, p))
    BY <1>2 DEF ReplyDecided
  <2>2. \A r \in ReplyOutcomes(input, p) : Ends(r)
    BY <1>a, <2>1, ReplyEnds
  <2> QED BY <1>c, <2>1, <2>2, TurnKeepsAsking
<1>3. CASE RouteFails
  <2>1. PICK input, reason :
            MayTurn /\ EndTurn(input, BeforeRoute(input),
                               {Outcome("failed_operational", reason, Kept(input))})
            /\ reason # "planning_inconsistent"
    BY <1>3 DEF RouteFails, Routed
  <2>2. "failed_operational" \in Terminals
    BY DEF Terminals
  <2>3. Ends(Outcome("failed_operational", reason, Kept(input)))
    BY <1>b, <2>1, <2>2, PlainEnds
  <2> QED BY <1>c, <2>1, <2>3, TurnKeepsAsking
<1>4. CASE RouteToReply
  <2>1. PICK p, input, resolved :
            /\ p \in pending /\ MayTurn
            /\ EndTurn(input, RecordedByReply(input, p, resolved),
                       ReplyBranch(input, p, resolved, Kept(input)))
    BY <1>4 DEF RouteToReply, Routed
  <2>2. \A r \in ReplyBranch(input, p, resolved, Kept(input)) : Ends(r)
    BY <1>a, <1>b, <2>1, ReplyBranchEnds
  <2>3. IsExtraction(RecordedByReply(input, p, resolved))
    BY <1>c, <2>1 DEF RecordedByReply
  <2> QED BY <2>1, <2>2, <2>3, TurnKeepsAsking
<1>5. CASE RouteToTalk
  <2>1. PICK input : MayTurn /\ EndTurn(input, OnRecord(input),
                                    {Outcome("completed", "greeting", Kept(input)),
                                     Outcome("completed", "help", Kept(input)),
                                     Outcome("blocked_by_policy", "unsafe_request", Kept(input))})
    BY <1>5 DEF RouteToTalk, Routed
  <2>2. {"completed", "blocked_by_policy"} \subseteq Terminals
    BY DEF Terminals
  <2>3. /\ Ends(Outcome("completed", "greeting", Kept(input)))
        /\ Ends(Outcome("completed", "help", Kept(input)))
        /\ Ends(Outcome("blocked_by_policy", "unsafe_request", Kept(input)))
    BY <1>b, <2>2, PlainEnds
  <2> QED BY <1>c, <2>1, <2>3, TurnKeepsAsking
<1>6. CASE RouteToReport
  <2>0. PICK input : /\ MayTurn
                     /\ \E intent \in RoutedIntents(input.message, {"report", "out_of_domain"}) :
                            EndTurn(input, OnRecord(input), ReportBranch(input, intent, Kept(input)))
    BY <1>6 DEF RouteToReport, Routed
  <2>1. PICK intent \in RoutedIntents(input.message, {"report", "out_of_domain"}) :
            MayTurn /\ EndTurn(input, OnRecord(input), ReportBranch(input, intent, Kept(input)))
    BY <2>0
  <2>2. IsIntent(intent)
    <3>1. PICK kind, entities : intent = MergeInto(Extraction(input.message),
                                    [kind |-> kind, entities |-> entities, constraints |-> {}])
      <4> DEFINE Merged(k, es) == MergeInto(Extraction(input.message),
                                    [kind |-> k, entities |-> es, constraints |-> {}])
      <4>1. RoutedIntents(input.message, {"report", "out_of_domain"})
              = {Merged(k, es) : k \in {"report", "out_of_domain"},
                                 es \in {{}, {"office"}, {"person_name"}}}
        BY DEF RoutedIntents
      <4>2. intent \in {Merged(k, es) : k \in {"report", "out_of_domain"},
                                        es \in {{}, {"office"}, {"person_name"}}}
        BY <2>1, <4>1
      <4> HIDE DEF Merged
      <4>3. \E k, es : intent = Merged(k, es)
        BY <4>2
      <4> QED BY <4>3 DEF Merged
    <3>2. IsIntent([kind |-> kind, entities |-> entities, constraints |-> {}])
      BY DEF IsIntent, NoEntity
    <3> QED BY <3>1, <3>2, ExtractsNoEntity, MergesIntent
  <2>3. \A r \in ReportBranch(input, intent, Kept(input)) : Ends(r)
    BY <1>a, <1>b, <2>2, ReportEnds
  <2> QED BY <1>c, <2>1, <2>3, TurnKeepsAsking
<1> QED BY <1>0, <1>1, <1>2, <1>3, <1>4, <1>5, <1>6 DEF DialogueNext

\* Nothing is pending before the first turn.
LEMMA InitAskInv == DialogueInit => AskInv
  BY TurnsBound, KeepsPayload, ExtractsNoEntity
     DEF DialogueInit, AskInv, NothingYet, InconsistentOnlyOnMetric

\* The invariant of a state holds its types.
LEMMA AskInvTypes == AskInv => DialogueTypeOK
<1> SUFFICES ASSUME AskInv PROVE DialogueTypeOK
  OBVIOUS
<1>1. Cardinality({}) = 0 /\ \A p : Cardinality({p}) = 1
  BY FS_EmptySet, FS_Singleton
<1>2. pending = {} \/ \E p : pending = {p}
  BY DEF AskInv, OnePayload
<1>3. Cardinality(pending) <= 1
  <2>1. CASE pending = {}
    BY <1>1, <2>1
  <2>2. CASE \E p : pending = {p}
    <3>1. Cardinality(pending) = 1
      BY <1>1, <2>2, Zenon
    <3> QED BY <3>1
  <2> QED BY <1>2, <2>1, <2>2
<1>4. \A p \in pending : /\ p.kind \in {"select_option", "select_entity", "collect_fields", "free_text"}
                         /\ p.attempt \in 0 .. MaxTurns
  <2>1. ASSUME NEW p \in pending
        PROVE  /\ p.kind \in {"select_option", "select_entity", "collect_fields", "free_text"}
               /\ p.attempt \in 0 .. turns
    BY DEF AskInv, OnePayload, IsPayload
  <2>2. turns \in 0 .. MaxTurns
    BY DEF AskInv
  <2> QED BY <2>1, <2>2, TurnsBound
<1>5. /\ turns \in 0 .. MaxTurns
      /\ last.terminal \in {"none", Waiting, "completed", "blocked_by_policy", "unsupported",
                            "failed_operational", "context_window_exceeded"}
      /\ DOMAIN extracted = DOMAIN NoExtraction
  BY DEF AskInv, IsExtraction, Terminals
<1> QED BY <1>3, <1>4, <1>5 DEF DialogueTypeOK

\* planning_inconsistent is reported only for a metric the capability does not
\* have, in every catalog that passed validation and keeps to the conventions,
\* over any number of turns and whatever the models decide: the plan reads the
\* extraction and the entities of the intent, the clarification planner only
\* its constraints, and no required parameter falls between them, because no
\* entity ever becomes a constraint (runtime/execution.rs against
\* context/clarification_planner.rs).
THEOREM InconsistentForMetric == DialogueSpec => [](DialogueTypeOK /\ InconsistentOnlyOnMetric)
<1>1. DialogueSpec => []AskInv
  BY InitAskInv, NextAskInv, PTL DEF DialogueSpec
<1>2. AskInv => InconsistentOnlyOnMetric
  BY DEF AskInv
<1> QED BY <1>1, <1>2, AskInvTypes, PTL
=============================================================================
