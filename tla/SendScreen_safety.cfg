CONSTANTS
    bob = bob
    c1 = c1
    c2 = c2
    Receive = Receive
    NoAddress = NoAddress
    NoTransaction = NoTransaction
    Address <- Others
    Coin <- TwoCoins
    MaxScreens = 2
    MaxOptions = 2
    MaxSends = 2
SPECIFICATION Spec
INVARIANTS
    TypeOK
    CommittedWasConfirmed
    ShowsWhatWasAsked
CHECK_DEADLOCK FALSE
