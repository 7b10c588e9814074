SPECIFICATION DialogueSpec
CONSTANTS
    DialogueCatalog <- Served
    IndexedIds <- StaleIndex
    DialogueMessages <- Messages
    Scopes <- SomeScopes
    MaxNear = 1
    MaxTurns = 2
    GlobalMaxRows = 3
INVARIANT
    TypedFiltersHonoured
CHECK_DEADLOCK FALSE
