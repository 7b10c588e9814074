\* Every workflow, every fault.
CONSTANTS
    Workflows <- AllWorkflows
    Faults = {"reject", "policy", "error", "overrun", "crash"}
SPECIFICATION Spec
CHECK_DEADLOCK FALSE
INVARIANTS
    TypeOK
    WithinBudget
    BegunOnce
    ArmsExclusive
    SettledWhenReturned
    LedgerExact
PROPERTIES
    RunEnds
