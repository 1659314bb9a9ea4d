CONSTANTS
    NThreads = 3
    Programs <- BookPrograms
    Code <- BookCode
    Args <- BookArgs
    Mutexes <- BookMutexes
    CallsFail = TRUE
    NSignals = 2
SPECIFICATION FairSpec
INVARIANTS
    TypeOK
    RaceFree
    MemorySafe
    Results
PROPERTIES
    Ends
    SignalsTaken
CHECK_DEADLOCK FALSE
