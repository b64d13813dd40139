SPECIFICATION FairSpec
CONSTANTS
    N = 4
    Ceiling = 3
    Adaptive = TRUE
CHECK_DEADLOCK FALSE
INVARIANTS
    TypeOK
    LimiterConsistent
    CompleteOnReturn
PROPERTIES
    NoLaunchOverLimit
    Returns
    GivesResults
