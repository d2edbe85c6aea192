CONSTANTS
    Window = 1
    SyncGap = 2
    ScreenGap = 3
    MaxGap = 3
    MaxMail = 3
SPECIFICATION FairSpec
INVARIANTS
    TypeOK
    OfflineIsKnown
PROPERTIES
    CatchesUp
