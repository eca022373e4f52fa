CONSTANTS
    Versions <- TwoVersions
    Specs <- TwoSpecs
    MaxEdits = 1
    MaxKills = 0
    None = None
    Torn = Torn
    Empty = Empty
SPECIFICATION Spec
CHECK_DEADLOCK FALSE
PROPERTY ChoiceRemembered
