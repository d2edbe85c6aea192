CONSTANTS
    ScheduleDelay = 3
    RetryDelay = 2
    Heights <- OneHeight
    MaxInbox = 4
    Faults <- AllFaults
SPECIFICATION Spec
INVARIANTS
    TypeOK
    WakeUpPending
PROPERTIES
    OnlyAskedResets
CHECK_DEADLOCK TRUE
