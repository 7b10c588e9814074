----------------------------- MODULE ServicesMC -----------------------------
(***************************************************************************)
(* The services around the job, on small instances.  They share no state,  *)
(* so one of them runs in a behaviour while the others stay where they     *)
(* start: the states are the sum of theirs, not the product.               *)
(***************************************************************************)
EXTENDS Auth, AuditTrail, LlmCall, LookupLimit, KnowledgeIndex, CatalogServing, DialogueMC

VARIABLE running  \* the service that runs

Services == {"auth", "audit", "llm", "limit", "index", "catalog", "dialogue"}

servicesVars == <<authVars, auditVars, llmVars, limitVars, indexVars, catalogVars,
                  dialogueVars, running>>

-----------------------------------------------------------------------------
(* The catalogs of the index: two valid ones, one that is not, and none *)

SavingsDomain   == [kind |-> "domain", id |-> "savings"]
BalancesQuery   == [kind |-> "query", id |-> "balances"]
Reports(id)     == [kind |-> "capability", id |-> id, domain |-> "savings", query |-> "balances"]
SavingsEntries  == {SavingsDomain, BalancesQuery, Reports("list")}
SavingsCatalog  == [valid |-> TRUE, entries |-> SavingsEntries]
IndexedCatalogs == {SavingsCatalog,
                    [valid |-> TRUE, entries |-> SavingsEntries \union {Reports("sum")}],
                    [valid |-> FALSE, entries |-> SavingsEntries],
                    [valid |-> TRUE, entries |-> {}]}

-----------------------------------------------------------------------------
(* The files of the catalog: those of the dialogue, and a lookup by an      *)
(* account number, which is never a parameter of the statement *)

AccountDataset ==
    [OfficeDataset EXCEPT
        !.id      = "accounts",
        !.filters = <<Slot("account_number", "string", "eq", TRUE), Slot("client_id", "integer", "in", FALSE)>>,
        !.shapes  = <<Shape("identity", "terminal", << >>)>>,
        !.outputs = @ \o <<[name |-> "account", kind |-> "string", sensitivity |-> "masked_output",
                            core |-> FALSE, foreignKey |-> FALSE]>>]

CatalogFiles ==
    [BaseFiles EXCEPT
        !.capabilities = Append(@,
            [Capability("account_lookup", "list", {}, <<Policy("account_number", "string", TRUE, {})>>)
                EXCEPT !.recipe = {Recipe("accounts", "identity",
                                          <<MappedFrom("account_number", "account_number")>>)}]),
        !.queries  = Append(@, Query("account_lookup",
            <<OfficeScope, QueryParameter("account_number", "string", TRUE, "transient_sensitive_input")>>, << >>)),
        !.inputs   = Append(@, InputFile("account_number", <<"account_number">>, "text")),
        !.bindings = @ @@ [account_number |-> <<"account_number">>],
        !.datasets = Append(@, AccountDataset)]

-----------------------------------------------------------------------------

\* A service that does not run has one initial state, and no files to serve.
NoFiles == [garbled |-> TRUE]

ServicesInit ==
    /\ running \in Services
    /\ AuthInit    /\ (running = "auth" \/ account.row)
    /\ AuditInit
    /\ LlmInit
    /\ LimitInit
    /\ IndexInit   /\ disk = SavingsCatalog
    /\ \/ running = "catalog" /\ CatalogInit
       \/ running # "catalog" /\ files = NoFiles /\ served = {} /\ catalogEdits = 0
    /\ DialogueInit /\ (running = "dialogue" \/ scope = FullScope)

ServicesNext ==
    \/ /\ running = "auth" /\ AuthNext
       /\ UNCHANGED <<auditVars, llmVars, limitVars, indexVars, catalogVars, dialogueVars, running>>
    \/ /\ running = "audit" /\ AuditNext
       /\ UNCHANGED <<authVars, llmVars, limitVars, indexVars, catalogVars, dialogueVars, running>>
    \/ /\ running = "llm" /\ LlmNext
       /\ UNCHANGED <<authVars, auditVars, limitVars, indexVars, catalogVars, dialogueVars, running>>
    \/ /\ running = "limit" /\ LimitNext
       /\ UNCHANGED <<authVars, auditVars, llmVars, indexVars, catalogVars, dialogueVars, running>>
    \/ /\ running = "index" /\ IndexNext
       /\ UNCHANGED <<authVars, auditVars, llmVars, limitVars, catalogVars, dialogueVars, running>>
    \/ /\ running = "catalog" /\ CatalogNext
       /\ UNCHANGED <<authVars, auditVars, llmVars, limitVars, indexVars, dialogueVars, running>>
    \/ /\ running = "dialogue" /\ DialogueNext
       /\ UNCHANGED <<authVars, auditVars, llmVars, limitVars, indexVars, catalogVars, running>>

ServicesSpec == ServicesInit /\ [][ServicesNext]_servicesVars /\ AuditFairness

\* Every service keeps its state within its types.
ServicesTypeOK ==
    /\ running \in Services
    /\ AuthTypeOK /\ AuditTypeOK /\ LlmTypeOK /\ LimitTypeOK
    /\ IndexTypeOK /\ CatalogTypeOK /\ DialogueTypeOK
=============================================================================
