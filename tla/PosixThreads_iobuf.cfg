CONSTANTS
    NThreads = 3
    Programs <- IobufPrograms
    Code <- BookCode
    Args <- BookArgs
    Mutexes <- BookMutexes
    CallsFail = TRUE
    NSignals = 2
SPECIFICATION Spec
INVARIANT LockedBufferWritten
CHECK_DEADLOCK FALSE
