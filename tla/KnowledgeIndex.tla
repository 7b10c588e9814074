--------------------------- MODULE KnowledgeIndex ---------------------------
(***************************************************************************)
(* The vector index of the knowledge catalog (crates/chat/src/knowledge:   *)
(* index/sync.rs, index/repository.rs, retrieval.rs, embedding.rs) and the *)
(* two callers that bring it up to date: ChatAppState::new when a replica  *)
(* starts and the vector_index_rebuild handler.                            *)
(*                                                                         *)
(* A sync is a process: it reads the files, asks the embedding service and *)
(* writes the index in one transaction, and other replicas, edits of the   *)
(* files and crashes come between.  knowledge_catalog_versions has one row *)
(* per content hash; the searches read the row with the latest synced_at,  *)
(* which is the START of the transaction that last wrote it.               *)
(*                                                                         *)
(* Data abstracted: a catalog is the set of its entries; the text of a     *)
(* document is the entries it is made from; hashing is injective, so a     *)
(* version is named by its documents.                                      *)
(***************************************************************************)
EXTENDS Integers, FiniteSets

CONSTANTS
    Catalogs,         \* what the files may hold: [valid, entries]
    CatalogReplicas,  \* the processes that serve chat
    MaxFileEdits,     \* bound: edits of the files
    MaxSyncs,         \* bound: syncs started
    IndexFaults       \* "embed": no embeddings; "db": a statement errs;
                      \* "crash": a replica stops

ASSUME IndexAssumption ==
    /\ IsFiniteSet(CatalogReplicas)
    /\ MaxFileEdits \in Nat /\ MaxSyncs \in Nat

NoCatalog == [valid |-> FALSE, entries |-> {}]

VARIABLES
    disk,      \* the catalog in the files
    edits,     \* edits of the files so far
    memory,    \* memory[r]: the catalog replica r plans with
    sync,      \* sync[r]: the sync replica r is in
    versions,  \* knowledge_catalog_versions with their knowledge_index rows
    clock,     \* transactions begun: their now()
    indexed,   \* edits seen by the newest sync that ended well
    raced      \* the files were edited while a sync was under way, and no
               \* sync has started afresh since

indexVars == <<disk, edits, memory, sync, versions, clock, indexed, raced>>

-----------------------------------------------------------------------------
(* RetrievalDocumentBuilder::build *)

Document(e, text) == [type |-> e.kind, id |-> e.id, text |-> text]

\* build_generic_document, build_data_area_document: the entry alone.
GenericDocument(e)  == Document(e, {e})
DataAreaDocument(e) == Document(e, {e})

\* build_domain_document, with the concepts of the domain.
DomainDocument(e) == Document(e, {e})

\* build_query_document: parameters and output fields are the entry's own.
QueryDocument(e) == Document(e, {e})

\* build_capability_document quotes the synonyms of its domain and the user
\* filters of its query, when the catalog has them.
CapabilityDocument(e, entries) ==
    Document(e, {e} \union {d \in entries : d.kind = "domain" /\ d.id = e.domain}
                    \union {q \in entries : q.kind = "query" /\ q.id = e.query})

BuildDocuments(c) ==
    {CASE e.kind = "data_area"  -> DataAreaDocument(e)
       [] e.kind = "domain"     -> DomainDocument(e)
       [] e.kind = "query"      -> QueryDocument(e)
       [] e.kind = "capability" -> CapabilityDocument(e, c.entries)
       [] OTHER                 -> GenericDocument(e) : e \in c.entries}

DocumentSets == {BuildDocuments(c) : c \in Catalogs}

-----------------------------------------------------------------------------

Idle == [at |-> "idle", boot |-> FALSE, docs |-> {}, edit |-> 0, began |-> 0]
SyncSteps == {"idle", "latest", "embed", "begin", "upsert", "rows", "commit", "reload"}

IndexTypeOK ==
    /\ disk \in Catalogs
    /\ edits \in 0..MaxFileEdits
    /\ memory \in [CatalogReplicas -> Catalogs \union {NoCatalog}]
    /\ sync \in [CatalogReplicas -> [at : SyncSteps, boot : BOOLEAN,
                                     docs : DocumentSets \union {{}}, edit : 0..MaxFileEdits,
                                     began : 0..MaxSyncs]]
    /\ DOMAIN versions \subseteq DocumentSets
    /\ \A h \in DOMAIN versions : versions[h] \in [rows : DocumentSets, synced : 1..MaxSyncs]
    /\ clock \in 0..MaxSyncs
    /\ indexed \in -1..MaxFileEdits
    /\ raced \in BOOLEAN

IndexInit ==
    /\ disk \in {c \in Catalogs : c.valid /\ c.entries # {}}
    /\ edits = 0
    /\ memory   = [r \in CatalogReplicas |-> NoCatalog]
    /\ sync     = [r \in CatalogReplicas |-> Idle]
    /\ versions = [h \in {} |-> Idle]
    /\ clock = 0
    /\ indexed = -1
    /\ raced = FALSE

InSync(r) == sync[r].at \notin {"idle", "reload"}

\* latest_catalog_version: ORDER BY synced_at DESC LIMIT 1.  Every version is
\* 'embedded', since both callers configure an embedding model.
LatestCatalogVersion ==
    CHOOSE h \in DOMAIN versions :
        \A other \in DOMAIN versions : versions[other].synced <= versions[h].synced

\* What search_hybrid_by_source_type ranks: the rows of the latest version.
SearchedRows == IF versions = << >> THEN {} ELSE versions[LatestCatalogVersion].rows

\* Deviation: any version with the hash counts, not only the latest one.
EverIndexed(docs) == docs \in DOMAIN versions

\* sync_if_stale: the latest version already has this hash.
AlreadyIndexed(docs) == versions # << >> /\ LatestCatalogVersion = docs

\* The sync of replica r ends here: a start that fails stops the process, a
\* rebuild that fails is answered with an error.
Fail(r) == /\ sync' = [sync EXCEPT ![r] = Idle]
           /\ UNCHANGED <<disk, edits, memory, versions, clock, indexed, raced>>

\* The index is right for what this sync read: a start goes on to load the
\* catalog it will serve, a rebuild is answered.
Settle(r) == /\ sync' = [sync EXCEPT ![r] = IF @.boot THEN [@ EXCEPT !.at = "reload"] ELSE Idle]
             /\ indexed' = IF sync[r].edit > indexed THEN sync[r].edit ELSE indexed
             /\ UNCHANGED <<disk, edits, memory, clock, raced>>

Goto(r, from, to) == /\ sync[r].at = from
                     /\ sync' = [sync EXCEPT ![r].at = to]

Begun == Cardinality({r \in CatalogReplicas : sync[r].at \in {"latest", "embed", "begin"}})

\* ChatAppState::new and vector_index_rebuild call sync or sync_if_stale: both
\* load, validate and build the documents before the first await, and only
\* sync_if_stale refuses a catalog without documents.
StartSync(r, boot, always) ==
    LET docs == BuildDocuments(disk)
    IN  /\ sync[r].at = "idle"
        /\ boot <=> memory[r] = NoCatalog
        /\ boot \/ always
        /\ clock + Begun < MaxSyncs
        /\ disk.valid /\ (always \/ docs # {})
        /\ sync' = [sync EXCEPT ![r] = [at |-> IF always THEN "embed" ELSE "latest",
                                        boot |-> boot,
                                        docs |-> docs, edit |-> edits, began |-> 0]]
        /\ raced' = (raced /\ \E q \in CatalogReplicas : InSync(q))
        /\ indexed' = IF raced /\ ~raced' THEN -1 ELSE indexed
        /\ UNCHANGED <<disk, edits, memory, versions, clock>>

ReadLatest(r) ==
    /\ sync[r].at = "latest"
    /\ IF AlreadyIndexed(sync[r].docs)
       THEN Settle(r) /\ UNCHANGED versions
       ELSE Goto(r, "latest", "embed")
            /\ UNCHANGED <<disk, edits, memory, versions, clock, indexed, raced>>

\* embed_documents: one request for all documents, as many embeddings back,
\* and no request at all for none.
EmbedDocuments(r) ==
    /\ Goto(r, "embed", "begin")
    /\ UNCHANGED <<disk, edits, memory, versions, clock, indexed, raced>>

BeginTransaction(r) ==
    /\ sync[r].at = "begin"
    /\ clock' = clock + 1
    /\ sync' = [sync EXCEPT ![r] = [@ EXCEPT !.at = "upsert", !.began = clock + 1]]
    /\ UNCHANGED <<disk, edits, memory, versions, indexed, raced>>

\* upsert_catalog_version: ON CONFLICT (content_hash) waits for another
\* transaction that has written the row.
UpsertCatalogVersion(r) ==
    /\ \A q \in CatalogReplicas \ {r} :
           ~(sync[q].at \in {"rows", "commit"} /\ sync[q].docs = sync[r].docs)
    /\ Goto(r, "upsert", "rows")
    /\ UNCHANGED <<disk, edits, memory, versions, clock, indexed, raced>>

\* DELETE and insert_knowledge_index_document for each document.
ReplaceRows(r) ==
    /\ Goto(r, "rows", "commit")
    /\ UNCHANGED <<disk, edits, memory, versions, clock, indexed, raced>>

\* Nothing the transaction wrote was visible before.
Commit(r) ==
    /\ sync[r].at = "commit"
    /\ versions' = [h \in DOMAIN versions \union {sync[r].docs} |->
                       IF h = sync[r].docs
                       THEN [rows |-> sync[r].docs, synced |-> sync[r].began]
                       ELSE versions[h]]
    /\ Settle(r)

\* The embedding service or a statement fails; the transaction rolls back.
SyncFails(r) ==
    /\ \/ "embed" \in IndexFaults /\ sync[r].at = "embed" /\ sync[r].docs # {}
       \/ "db" \in IndexFaults /\ sync[r].at \in {"latest", "begin", "upsert", "rows", "commit"}
    /\ Fail(r)

\* ChatAppState::new loads and validates the files AGAIN for the catalog the
\* replica plans with, and fails to start when they no longer validate.
LoadCatalog(r) ==
    /\ sync[r].at = "reload"
    /\ sync'   = [sync EXCEPT ![r] = Idle]
    /\ memory' = [memory EXCEPT ![r] = IF disk.valid THEN disk ELSE NoCatalog]
    /\ UNCHANGED <<disk, edits, versions, clock, indexed, raced>>

StopReplica(r) ==
    /\ "crash" \in IndexFaults
    /\ memory[r] # NoCatalog \/ sync[r] # Idle
    /\ memory' = [memory EXCEPT ![r] = NoCatalog]
    /\ sync'   = [sync EXCEPT ![r] = Idle]
    /\ UNCHANGED <<disk, edits, versions, clock, indexed, raced>>

\* The files are edited, rolled back or mislaid.
EditFiles(c) ==
    /\ edits < MaxFileEdits /\ c # disk
    /\ disk'  = c
    /\ edits' = edits + 1
    /\ raced' = (raced \/ \E r \in CatalogReplicas : InSync(r))
    /\ UNCHANGED <<memory, sync, versions, clock, indexed>>

IndexNext ==
    \/ \E r \in CatalogReplicas :
        \/ \E boot, always \in BOOLEAN : StartSync(r, boot, always)
        \/ ReadLatest(r)           \/ EmbedDocuments(r) \/ BeginTransaction(r)
        \/ UpsertCatalogVersion(r) \/ ReplaceRows(r)    \/ Commit(r)
        \/ SyncFails(r)            \/ LoadCatalog(r)    \/ StopReplica(r)
    \/ \E c \in Catalogs : EditFiles(c)

-----------------------------------------------------------------------------
(* Properties *)

\* Once a sync of the files as they are has ended well and none is under way,
\* the searches rank exactly the documents of those files: whatever syncs of
\* other replicas, failures and rollbacks of the files came before, no
\* capability of the catalog is left out and none of an older one is ranked.
\* Not so for an edit that lands while a sync is under way: the slower sync
\* then writes what it read before the edit.
IndexFollowsFiles ==
    ~raced /\ indexed = edits /\ (\A r \in CatalogReplicas : ~InSync(r)) =>
        SearchedRows = BuildDocuments(disk)
=============================================================================
