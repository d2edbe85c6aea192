CONSTANTS
    NoTx = NoTx
    t1 = t1
    t2 = t2
    Tx <- TwoTx
    MaxInstances = 3
    MaxKills = 1
SPECIFICATION FairSpec
INVARIANTS
    TypeOK
    OneSpendPerInstance
    SubmittedOnce
    NoStuckNotification
PROPERTIES
    KeepsContract
    SendingIsReleased
    SpendIsSettled
CHECK_DEADLOCK FALSE
