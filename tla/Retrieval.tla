----------------------------- MODULE Retrieval -----------------------------
(***************************************************************************)
(* Which capabilities a routed request is offered to: the retrieval engine *)
(* (assistant/retrieval/engine.rs), the sufficiency gate (sufficiency.rs)  *)
(* and the reranker (reranker.rs).                                         *)
(*                                                                         *)
(* Scores are hundredths.  How close a request is to a capability (vector  *)
(* distance, shared words, dimensions of the request shape) is near or     *)
(* far: a plan is [kind, domain, allowAll, allowed, entities, metric, near].*)
(***************************************************************************)
EXTENDS Planning

ShapeBoost         == 6      \* SHAPE_BOOST / 5, for each matching dimension
DomainBoost        == 5
MetricBoost        == 25
OutOfDomainPenalty == 15

\* What near and far are worth to the vector arm, to the keywords and to
\* shape_score.
VectorScore(plan, id) == IF id \in plan.near THEN 50 ELSE 20
KeywordScore(plan, id) == IF id \in plan.near THEN 17 ELSE 0
ShapeHits(plan, id) == IF id \in plan.near THEN 2 ELSE 0

\* metric_score: every metric the request named, resolved, is declared.
MetricScore(c, plan, cap) ==
    LET requested == UNION {ResolveMetricId(c, raw) : raw \in plan.metric}
        declared  == UNION {ResolveMetricId(c, raw) : raw \in cap.metrics}
    IN  IF requested # {} /\ requested \subseteq declared THEN 1 ELSE 0

Allowed(plan, id) == plan.allowAll \/ id \in plan.allowed

\* parameters_feasible.
ParametersFeasible(plan, cap) == "search" \in cap.required => "person_name" \in plan.entities

\* The vector arm returns what the index holds, for the ids the caller may
\* use: the index may know a capability the catalog has dropped.
VectorArm(plan, indexed) ==
    {[id |-> id, score |-> VectorScore(plan, id)] : id \in {i \in indexed : Allowed(plan, i)}}

\* catalog_fallback.
CatalogArm(c, plan) ==
    {e \in {[id |-> cap.id, score |-> 25 + KeywordScore(plan, cap.id)] : cap \in
                {cap \in ToSet(c.capabilities) : /\ cap.status \in {"approved_mvp", "active"}
                                                 /\ Allowed(plan, cap.id)
                                                 /\ ParametersFeasible(plan, cap)}}
       : e.score > 25}

Clamp(score) == IF score < 0 THEN 0 ELSE IF score > 99 THEN 99 ELSE score

\* The priors retrieve applies to both arms.
Prior(c, plan, e) ==
    LET known == Named(c.capabilities, e.id)
        boost == IF known = {} THEN 0
                 ELSE LET cap == CHOOSE cap \in known : TRUE
                      IN  ShapeBoost * ShapeHits(plan, e.id)
                          + (IF cap.domain = plan.domain THEN DomainBoost ELSE 0)
                          + MetricBoost * MetricScore(c, plan, cap)
    IN  Clamp(e.score + boost - (IF plan.kind = "out_of_domain" THEN OutOfDomainPenalty ELSE 0))

Arms(c, plan, indexed) == VectorArm(plan, indexed) \union CatalogArm(c, plan)

\* merge: the better of the two arms.
Score(c, plan, indexed, id) ==
    Max({Prior(c, plan, e) : e \in {e \in Arms(c, plan, indexed) : e.id = id}})

\* retrieve: the ids that reach the floor, in either arm.
Retrieve(c, plan, indexed) ==
    {e.id : e \in {e \in Arms(c, plan, indexed) : Prior(c, plan, e) >= c.classification.floor}}

\* The first three by score, ties in the order they were found.
FirstThree(c, plan, indexed, evidence) ==
    {ids \in SUBSET evidence :
        /\ Cardinality(ids) = Min({3, Cardinality(evidence)})
        /\ \A i \in ids : \A j \in evidence \ ids :
               Score(c, plan, indexed, i) >= Score(c, plan, indexed, j)}

-----------------------------------------------------------------------------
(* sufficiency.rs *)

GatedFilters == {"office", "person_name", "client_id", "product", "charge_type",
                 "account_number", "transaction_amount"}

\* expressed_filters: the gated facts whose value occurs in the message.
ExpressedFilters(facts, typed) == DOMAIN facts \intersect GatedFilters \intersect typed

\* capability_honours: an id the catalog does not know is not judged.
CapabilityHonours(c, id, field) ==
    \A cap \in Named(c.capabilities, id) :
        \E p \in ToSet(QueryOf(c, cap).parameters) :
            /\ p.source # "authorized_scope"
            /\ p.name \in DOMAIN c.bindings /\ field \in ToSet(c.bindings[p.name])

\* Deviation: the gate gives way when it would leave nothing.
DropUnlessEmpty(c, expressed, evidence) ==
    LET honest == {id \in evidence : \A f \in expressed : CapabilityHonours(c, id, f)}
    IN  IF honest = {} THEN evidence ELSE honest

\* drop_insufficient.
DropInsufficient(c, expressed, evidence) ==
    {id \in evidence : \A f \in expressed : CapabilityHonours(c, id, f)}

-----------------------------------------------------------------------------
(* reranker.rs: what the model may decide about the candidates; the id it   *)
(* selects and the alternatives it names are its own words, invented or not *)

Decision(verdict, id, alternatives) ==
    [verdict |-> verdict, id |-> id, alternatives |-> alternatives]

Rerank(evidence) ==
    IF evidence = {} THEN {Decision("unsupported", {}, {})}
    ELSE {Decision("select", {id}, {}) : id \in evidence \union {"invented"}}
         \union {Decision("clarify", {}, ids) :
                    ids \in {ids \in SUBSET (evidence \union {"invented"}) : Cardinality(ids) <= 2}}
         \union {Decision("unsupported", {}, {}), Decision("failed_operational", {}, {})}
=============================================================================
