\* Two jobs of one session, with workflows that pause: the tasks of a job
\* overlap, and those of the two jobs contend for the session memory.
CONSTANTS
    Jobs = {j1, j2}
    MaxTurns = 2
    MaxMessages = 3
    MaxRelevant = 2
    WorkflowPauses = TRUE
    Faults = {}
SPECIFICATION Spec
SYMMETRY JobSymmetry
INVARIANTS
    CompletedJobsRemembered
PROPERTIES
    NoLostMemory
CHECK_DEADLOCK FALSE
