SPECIFICATION WatchedSpec
CONSTANTS
    k1 = k1
    k2 = k2
    NoKey = NoKey
    Keys = {k2}
    Scheduled <- MCScheduled
    MaxDeviation = 1
    Overlap = 1
    Retention = 2
    Window = 1
    RetryBase = 2
    RetryMax = 2
    RetryJitter = 0
    Kinds = {"ping", "malformed", "poison"}
    ComputeOutcomes <- AllOutcomes
    QuietCommitRaises = TRUE
    MaxTs = 3
    MaxLog = 3
    MaxCrashes = 1
    MaxOutages = 1
INVARIANTS
    TypeOK
    NoSilentSkip
    SuppressionSound
    CommittedStored
    StoredIsFirstArrival
PROPERTIES
    CommitAfterStore
    ImplementsLogConsumer
