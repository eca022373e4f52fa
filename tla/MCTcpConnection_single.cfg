CONSTANTS
    Threads = {t1}
    MaxRequests = 6
    Pipelining = TRUE
SPECIFICATION FairSpec
INVARIANTS
    TypeOK
    WrittenInOrder
    Accounted
    DeletedSafely
PROPERTIES
    EveryRequestAnswered
    ConnectionEnds
CHECK_DEADLOCK FALSE
