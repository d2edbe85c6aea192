CONSTANTS
    Splash = TRUE
    MaxScreens = 4
    MaxJobs = 2
    MaxLaunches = 2
    MaxKills = 1
SPECIFICATION FairSpec
INVARIANTS
    TypeOK
    InitHasPin
    WordsNeedCore
PROPERTIES
    ClosesOnPurpose
    GetsOn
CHECK_DEADLOCK FALSE
