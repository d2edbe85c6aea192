CONSTANTS
    Tx = {t1, t2}
    MaxTxDeaths = 2
    MaxVersion = 3
    MaxLoads = 3
    Requester = {r1, r2, r3}
    RateTtl = 1
    MaxTime = 3
    Thread = {n1, n2}
    Amounts = {1, 2}
    MaxCoins = 3
    Trace = {e1, e2}
    Reader = {d1, d2}
    MaxReboots = 1
SPECIFICATION FairSpec
INVARIANTS
    TypesOK
    OneRowPerCoin
    NeverOverstated
    TracesAccountedFor
PROPERTIES
    CommittedIsSent
    NeverOlder
    RefreshEnds
CHECK_DEADLOCK FALSE
