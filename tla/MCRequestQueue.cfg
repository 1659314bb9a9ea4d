CONSTANTS
    Thread = {t1, t2, t3}
    Node = {n1, n2, n3}
    Data = {d1}
    Header = Header
    NULL = NULL
    NoThread = NoThread
    AllocFails = TRUE
SPECIFICATION QueueSpec
SYMMETRY Symmetry
INVARIANTS
    QueueTypeOK
    MemorySafe
    NodesAccounted
    QueueInv
    NoLostWakeup
PROPERTY ImplementsFifo
CHECK_DEADLOCK FALSE
