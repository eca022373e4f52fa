CONSTANTS
    Versions <- TwoVersions
    Specs <- TwoSpecs
    MaxEdits = 4
    MaxKills = 1
    None = None
    Torn = Torn
    Empty = Empty
SPECIFICATION Spec
CHECK_DEADLOCK FALSE
INVARIANTS
    TypeOK
    LocalOriginIsLocal
PROPERTIES
    KeepsVersion
    RepeatedRunAgrees
