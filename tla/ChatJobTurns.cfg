\* One job, three turns, every fault, no workflow pause.
CONSTANTS
    Jobs = {j1}
    MaxTurns = 3
    MaxMessages = 3
    MaxRelevant = 2
    WorkflowPauses = FALSE
    Faults = {"error", "fail", "drop", "crash", "archive"}
SPECIFICATION FairSpec
INVARIANTS
    TypeOK
    OneTaskPerJob
    OutcomeIsOfLastTurn
PROPERTIES
    CompletedIsFinal
    KeepsPromise
CHECK_DEADLOCK FALSE
