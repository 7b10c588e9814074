\* The stream that is never ended.
CONSTANTS
    MaxTurns = 1
    Faults = {}
SPECIFICATION Spec
CHECK_DEADLOCK FALSE
PROPERTIES
    StreamEnds
