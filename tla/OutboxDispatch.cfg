\* Two replicas, two good rows and an undecodable one.
CONSTANTS
    Rows = {"a", "b", "p"}
    Poison = {"p"}
    Dispatchers = {"d1", "d2"}
    BatchSize = 2
    RetryBase = 1
    RetryMax = 3
    AttemptCap = 2
    MaxFaults = 2
SPECIFICATION Spec
INVARIANTS
    TypeOK
    PublishedOnce
    ClaimsApart
PROPERTIES
    PublishedIsFinal
    EventuallyPublished
