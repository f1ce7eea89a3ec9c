SPECIFICATION Spec
CONSTANTS
    r1 = r1
    unknown = unknown
    none = none
    Routes <- MCRoutes
    Unknown = unknown
    NoRoute = none
    WindowResults <- MCStatsResults
    VolumeCounts <- QuietHour
    Delivered = {TRUE}
    HourTicks = 2
    MaxTime = 3
    MaxStepsBack = 1
    MaxBack = 1
    MaxJump = 2
    ConnectAttempts = 2
    MaxWindows = 2
    MaxOutages = 1
    MaxProcesses = 2
    RatioWindow = 2
    Retention = 3
    MinWeekAgo = 2
    MinSamples = 2
INVARIANTS NoItemLost CountedOnce PoisonNeedsClockBack
PROPERTIES PendingDrains
CHECK_DEADLOCK FALSE
