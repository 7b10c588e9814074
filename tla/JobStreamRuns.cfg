\* Two turns without faults, one with every fault and an archive; with and
\* without Redis.
CONSTANTS
    MaxTurns = 2
    Faults = {"insert", "redis", "archive"}
SPECIFICATION BoundedSpec
CHECK_DEADLOCK FALSE
INVARIANTS
    TypeOK
    SentInLogOrder
    NothingAfterTerminal
    LogHoldsTheEnd
    HungOnlyInWindow
PROPERTIES
    InTimeStreamEnds
    PollingEnds
