CONSTANTS
    Runs = {r1, r2}
    Updates = {}
    NoRun = NoRun
    MaxWait = 2
    MaxKills = 1
    Libstores = {"none", "unique", "duplicate"}
    UpdatePyExists = TRUE
SPECIFICATION FairSpec
INVARIANT OwnIndexCommitted
PROPERTIES
    SettledForever
    FirstRunSettles
    LeavesEnsureDb
