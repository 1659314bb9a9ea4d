CONSTANTS
    SrcSizes <- Sizes
    OldSizes = {0, 7}
    BlkSize = 2
    NumThrds = {2, 3}
    MaxShort = 2
    CallsFail = TRUE
SPECIFICATION FairSpec
INVARIANTS
    TypeOK
    NoWrongByte
    AtExit
PROPERTY Terminates
CHECK_DEADLOCK FALSE
