CONSTANTS
    MaxWorkers = 2
    Thread = {0, 1, 2}
    ThreadArgs = {0, 1, 2, 3}
    NumRequests = 3
    Data = {1, 2, 3}
    Node = {n1, n2}
    MaxSpurious = 1
    Header = Header
    NULL = NULL
    NoThread = NoThread
    AllocFails = TRUE
SPECIFICATION FairSpec
INVARIANTS
    ServerTypeOK
    EveryRequestInOnePlace
    NoUseAfterDestroy
    PoolInv
    AllServed
    LogConsistent
PROPERTY Terminates
