CONSTANTS
    Threads = {t1, t2, t3}
    Connections = {c1, c2, c3}
    NoConnection = NoConnection
    MaxConnection = 3
    MinConnection = 0
SPECIFICATION FairSpec
INVARIANTS
    TypeOK
    OneOwner
    Limits
    NoLostWakeup
PROPERTIES
    RequestsReturn
CHECK_DEADLOCK FALSE
