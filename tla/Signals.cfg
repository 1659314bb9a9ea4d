CONSTANTS
    NumStops = 3
    MaxSum = 15
    CallsFail = TRUE
SPECIFICATION FairSpec
INVARIANTS
    TypeOK
    ReportsInOrder
    ParentStaysForRunningChild
PROPERTY BothEnd
CHECK_DEADLOCK FALSE
