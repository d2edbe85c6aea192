CONSTANTS
    ScheduleDelay = 3
    RetryDelay = 2
    Heights <- OneHeight
    MaxInbox = 4
    Faults <- NoFaults
SPECIFICATION Spec
INVARIANTS
    ScheduledAfterShutdown
CHECK_DEADLOCK TRUE
