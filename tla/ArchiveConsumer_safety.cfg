SPECIFICATION FairSpec
CONSTANTS
    BatchSize = 2
    BufCap = 3
    StartLatest = TRUE
    MaxHour = 1
    MaxLog = 3
    MaxCrashes = 1
    MaxShortWrites = 1
    MaxClockBacks = 1
INVARIANTS
    CommittedIntact
    FsyncedUnlessRotated
PROPERTIES
    NothingErased
    ArchiveDrains
    ImplementsLogConsumer
CHECK_DEADLOCK FALSE
