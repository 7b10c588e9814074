SPECIFICATION ServicesSpec
CONSTANTS
    Requests = {1, 2}
    Replicas = {b1, b2}
    Offices = {o1, o2}
    TenantOffices = {o1}
    AuthFaults = {"db", "redis", "crash"}
    MaxEvents = 4
    QueueCapacity = 2
    AuditBatchSize = 2
    AuditFaultKinds = {"db", "unheard", "crash"}
    MaxRetries = 3
    SlowAnswer = 14000
    TraceFaults = TRUE
    Lookups = {1, 2, 3, 4, 5}
    LookupLimit = 2
    LookupFaults = TRUE
    Catalogs <- IndexedCatalogs
    CatalogReplicas = {r1, r2}
    MaxFileEdits = 2
    MaxSyncs = 3
    IndexFaults = {"embed", "db", "crash"}
    InitialFiles <- CatalogFiles
    MaxCatalogEdits = 2
    DialogueCatalog <- Served
    IndexedIds <- StaleIndex
    DialogueMessages <- Messages
    Scopes <- SomeScopes
    MaxNear = 1
    MaxTurns = 2
    GlobalMaxRows = 3
INVARIANTS
    ServicesTypeOK
    LoggedOutStaysOut
    RestrictedKeyRestricts
    OneDefaultKey
    AuditAccounted
    CallIsBounded
    WithinLookupLimit
    IndexFollowsFiles
    ServedPlansOrAsks
    PlannedRuns
    PlannedStatementsRun
    InconsistentOnlyOnMetric
    RetrievedHonoursFilters
PROPERTIES
    AuditSettles
CHECK_DEADLOCK FALSE
