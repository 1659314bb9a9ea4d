CONSTANTS
    Client = {c1, c2}
    Worker = {w1}
    FdLimit = 3
    Parts = 1
    Segments = 2
    MaxAddr = 1
    AllocFails = FALSE
    AllRefuse = FALSE
    PeersFail = FALSE
SPECIFICATION Spec
INVARIANT ResponseForwarded
CHECK_DEADLOCK FALSE
