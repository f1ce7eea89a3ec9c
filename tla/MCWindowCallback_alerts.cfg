SPECIFICATION Spec
CONSTANTS
    r1 = r1
    unknown = unknown
    none = none
    Routes <- MCRoutes
    Unknown = unknown
    NoRoute = none
    WindowResults <- MCAlertResults
    VolumeCounts <- EveryHour
    Delivered = {TRUE, FALSE}
    HourTicks = 2
    MaxTime = 3
    MaxStepsBack = 1
    MaxBack = 1
    MaxJump = 2
    ConnectAttempts = 2
    MaxWindows = 3
    MaxOutages = 0
    MaxProcesses = 2
    RatioWindow = 1
    Retention = 2
    MinWeekAgo = 2
    MinSamples = 2
INVARIANTS HoursJudgedInOrder
PROPERTIES GreenIsEarned
CHECK_DEADLOCK FALSE
