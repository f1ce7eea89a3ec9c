SPECIFICATION Spec
CONSTANTS
    none = none
    null = null
    NoFile = none
    Null = null
    MaxUnfiltered = 2
    FirstDay = 0
    LastDay = 7
    ShiftDay = 3
    Bundles <- MCBundles
    Delays <- MCDelays
    Gate = 1
    Begin = 96
    End = 240
    MaxWindow = 2
INVARIANTS
    DeviationIsTrue
    OnTimeIsReported
    EveryPingCounted
    LookupsOfOneBundle
    EngineAgreesWithNotebooks
CHECK_DEADLOCK FALSE
