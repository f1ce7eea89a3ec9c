SPECIFICATION Spec
CONSTANTS
    k1 = k1
    k2 = k2
    NoKey = NoKey
    Keys = {k1, k2}
    Scheduled <- MCOnTime
    MaxDeviation = 9
    Overlap = 1
    Retention = 9
    Window = 1
    RetryBase = 1
    RetryMax = 1
    RetryJitter = 0
    Kinds = {"ping"}
    ComputeOutcomes = {"ok"}
    QuietCommitRaises = FALSE
    MaxTs = 2
    MaxLog = 2
    MaxCrashes = 0
    MaxOutages = 1
INVARIANTS
    AtLeastOnce
