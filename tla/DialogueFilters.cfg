SPECIFICATION DialogueSpec
CONSTANTS
    DialogueCatalog <- Served
    IndexedIds <- StaleIndex
    DialogueMessages <- Messages
    Scopes <- SomeScopes
    MaxNear = 1
    MaxTurns = 2
    GlobalMaxRows = 3
INVARIANT
    AnswerNarrowed
CHECK_DEADLOCK FALSE
