CONSTANTS
    Pkgs <- ThreePackages
    Traits <- AllTraits
SPECIFICATION MCSpec
CHECK_DEADLOCK FALSE
INVARIANTS
    TypeOK
    StaticClosure
PROPERTIES
    ImplementsAssignment
    Terminates
