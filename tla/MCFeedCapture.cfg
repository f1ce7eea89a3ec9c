SPECIFICATION Spec
CONSTANTS
    none = none
    None = none
    Missing = none
    Vehicles = {1, 2, 3, 4}
    Scripts <- MCScripts
    Entity <- MCEntity
    Partitions <- MCPartitions
    Interval = 1
    MaxBackoff = 2
    AlertThreshold = 2
    MaxAttempts = 2
    MaxTime = 8
    MaxFaults = 2
    MaxStall = 3
    MaxTrouble = 3
    MinuteTicks = 3
    PollTicks = 1
    DwellDistance = 1
    ExpectedPolls = 3
    PollTolerance = 1
    Percent = 75
    MinPercent = 30
    MinRunLength = 2
    MinVehicles = 1
INVARIANTS
    GreenMeansPublished
    RecoveryNoticed
    GapsAddUp
    CadenceGateIsFair
    IncidentsNeverBridge
CHECK_DEADLOCK FALSE
