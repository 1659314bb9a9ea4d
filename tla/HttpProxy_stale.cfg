CONSTANTS
    Client = {c1, c2}
    Worker = {w1}
    FdLimit = 3
    Parts = 1
    Segments = 1
    MaxAddr = 1
    AllocFails = FALSE
    AllRefuse = TRUE
    PeersFail = FALSE
SPECIFICATION Spec
INVARIANT SocketForTarget
CHECK_DEADLOCK FALSE
