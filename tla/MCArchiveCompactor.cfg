SPECIFICATION FairSpec
CONSTANTS
    daily = daily
    once = once
    Procs = {daily, once}
    Hours = {0, 1, 2, 3}
    Lines <- MCLines
    Unreadable = {3}
    KeepRawDays = 1
    MinAgeDays = 2
    MaxDay = 4
    LastWriteDay = 0
    MaxCrashes = 1
INVARIANTS
    NoHourLost
    PublishedWhole
PROPERTIES
    DeletionGated
    EventuallyFolded
