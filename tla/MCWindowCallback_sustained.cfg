SPECIFICATION Spec
CONSTANTS
    r1 = r1
    unknown = unknown
    none = none
    Routes <- MCRoutes
    Unknown = unknown
    NoRoute = none
    WindowResults <- MCAlertResults
    VolumeCounts <- QuietHour
    Delivered = {TRUE}
    HourTicks = 6
    MaxTime = 8
    MaxStepsBack = 0
    MaxBack = 2
    MaxJump = 2
    ConnectAttempts = 2
    MaxWindows = 5
    MaxOutages = 0
    MaxProcesses = 1
    RatioWindow = 3
    Retention = 4
    MinWeekAgo = 2
    MinSamples = 3
INVARIANT SustainedLowRatioFires
CHECK_DEADLOCK FALSE
