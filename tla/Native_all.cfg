CONSTANTS
    Object = {o1, o2, o3}
    PageSize = 2
    PageCount = 2
    Byte = {0, 1}
    Zero = 0
    Mark = 1
    BlockSize = 5
    LengthSize = 2
    DigestSize = 2
    SizeDesc <- Bits
    MaxWrite = 7
    MaxBytes = 10
    Base = 4
    WordSize = 2
    Rounds = 2
    MaxAsked = 3
SPECIFICATION Spec
INVARIANTS
    CountIsRight
    SecretIsLocked
    StreamIsWritten
    PaddedWhole
    SameExpansion
    ExpansionIsWhole
PROPERTIES
    KeepsPromise
CHECK_DEADLOCK FALSE
