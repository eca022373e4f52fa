CONSTANTS
    Names <- FourLibraries
    Versions <- ThreeVersions
    Projects <- JumpProjects
    MaxRounds = 100
    None = None
SPECIFICATION FairSpec
CHECK_DEADLOCK FALSE
INVARIANTS
    TypeOK
    CandidatesUsable
PROPERTY Terminates
