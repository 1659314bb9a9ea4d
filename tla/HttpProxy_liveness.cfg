CONSTANTS
    Client = {c1, c2}
    Worker = {w1}
    FdLimit = 2
    Parts = 2
    Segments = 1
    MaxAddr = 2
    AllocFails = TRUE
    AllRefuse = TRUE
    PeersFail = TRUE
SPECIFICATION FairSpec
PROPERTIES
    HandlerEnds
    ShutdownEnds
CHECK_DEADLOCK FALSE
