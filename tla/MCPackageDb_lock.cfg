CONSTANTS
    Runs = {r1, r2}
    Updates = {u1}
    NoRun = NoRun
    MaxWait = 2
    MaxKills = 1
    Libstores = {"none", "unique", "duplicate"}
    UpdatePyExists = TRUE
SPECIFICATION Spec
SYMMETRY RunSymmetry
INVARIANTS
    TypeOK
    RebuildExclusion
