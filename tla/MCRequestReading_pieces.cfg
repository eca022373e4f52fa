CONSTANTS
    Requests <- MCRequests
    MaxSize = 11
SPECIFICATION FairSpec
CHECK_DEADLOCK FALSE
INVARIANTS
    TypeOK
    HandledAsMeant
    KeptInStep
PROPERTY EveryRequestRead
