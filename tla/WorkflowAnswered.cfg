\* The compiled workflows, paused and answered, without faults.
CONSTANTS
    Workflows <- Compiled
    Faults = {}
SPECIFICATION Spec
CHECK_DEADLOCK FALSE
PROPERTIES
    AnsweredCompletes
