CONSTANTS
    Threads = {t1, t2}
    MaxRequests = 2
    Pipelining = FALSE
SPECIFICATION FairSpec
PROPERTY EveryRequestAnswered
CHECK_DEADLOCK FALSE
