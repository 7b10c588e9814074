\* A polled stream of the second turn.
CONSTANTS
    MaxTurns = 2
    Faults = {}
SPECIFICATION Spec
CHECK_DEADLOCK FALSE
INVARIANTS
    EndsWithItsTurn
