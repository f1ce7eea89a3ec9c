SPECIFICATION FairWatchedSpec
CONSTANTS
    k1 = k1
    k2 = k2
    NoKey = NoKey
    Keys = {k1}
    Scheduled <- MCOnTime
    MaxDeviation = 9
    Overlap = 0
    Retention = 9
    Window = 1
    RetryBase = 1
    RetryMax = 2
    RetryJitter = 1
    Kinds = {"ping"}
    ComputeOutcomes = {"ok"}
    QuietCommitRaises = TRUE
    MaxTs = 1
    MaxLog = 3
    MaxCrashes = 0
    MaxOutages = 2
PROPERTIES
    LagDrains
    Recovers
