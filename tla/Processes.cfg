CONSTANTS
    NProcs = 4
    Programs <- BookPrograms
    Code <- BookCode
    Starts <- BookStarts
    UserSignals <- BookSignals
    CallsFail = TRUE
    NSignals = 2
SPECIFICATION FairSpec
INVARIANTS
    TypeOK
    ChildrenAccounted
    SharedDataKept
    EndsAsHandled
    PrivilegeDropPermanent
PROPERTIES
    DaemonDetached
    GetsOn
CHECK_DEADLOCK FALSE
