CONSTANTS
    ScheduleDelay = 3
    RetryDelay = 2
    Heights <- OneHeight
    MaxInbox = 3
    Faults <- LiveFaults
SPECIFICATION FairSpec
PROPERTIES
    WokenAgain
    ResetLeadsToErasure
CHECK_DEADLOCK TRUE
