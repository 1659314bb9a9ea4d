CONSTANTS
    Client = {c1, c2}
    Worker = {w1, w2}
    FdLimit = 3
    Parts = 2
    Segments = 2
    MaxAddr = 1
    AllocFails = TRUE
    AllRefuse = TRUE
    PeersFail = TRUE
SPECIFICATION Spec
SYMMETRY Symmetry
INVARIANTS
    TypeOK
    OwnResponseOnly
    DescriptorsOwned
    DrainedAtExit
CHECK_DEADLOCK FALSE
