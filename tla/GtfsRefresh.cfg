SPECIFICATION FairSpec
CONSTANTS
    HasValidator = TRUE
    MaxRelease = 3
    MaxCrashes = 2
    MaxFaults = 1
INVARIANTS
    SurvivesOneInterruption
PROPERTIES
    CatchesUp
