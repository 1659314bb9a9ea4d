CONSTANTS
    SrcSizes <- Sizes
    OldSizes = {0}
    BlkSize = 2
    NumThrds = {2}
    MaxShort = 1
    CallsFail = FALSE
SPECIFICATION Spec
INVARIANT RemainingTransferred
CHECK_DEADLOCK FALSE
