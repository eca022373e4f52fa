CONSTANTS
    Names <- ThreeLibraries
    Versions <- TwoVersions
    Projects <- SmallProjects
    MaxRounds = 100
    None = None
SPECIFICATION Spec
CHECK_DEADLOCK FALSE
INVARIANTS
    AcceptsSolutions
    RefusesTheImpossible
    AlwaysAnswers
