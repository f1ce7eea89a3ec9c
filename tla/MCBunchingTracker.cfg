SPECIFICATION Spec
CONSTANTS
    out = out
    back = back
    r1 = r1
    none = none
    NoPlace = none
    NoDirection = none
    Vehicles = {1, 2, 3, 4}
    Trips <- MCTrips
    RouteOf <- MCRouteOf
    DirectionOf <- MCDirectionOf
    Terminals <- MCTerminals
    Reports <- MCReports
    BucketTicks = 3
    Threshold = 1
    TerminalRadius = 0
    MinConsecutive = 2
    Window = 7
    Phases = {4, 6}
    Overlap = 6
    Retention = 7
    MaxTick = 17
    MaxFailures = 1
    MaxCrashes = 1
    Thresholds = {1, 3}
    Persistence = {2, 3}
INVARIANTS
    NoIncidentMissed
    NothingMergedAcross
    MinimumKept
    NotebooksAgree
CHECK_DEADLOCK FALSE
