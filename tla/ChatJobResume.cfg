\* A resumed workflow is taken up by no task.
CONSTANTS
    Jobs = {j1}
    MaxTurns = 2
    MaxMessages = 3
    MaxRelevant = 2
    WorkflowPauses = TRUE
    Faults = {}
SPECIFICATION FairSpec
PROPERTIES
    QueuedSettles
CHECK_DEADLOCK FALSE
