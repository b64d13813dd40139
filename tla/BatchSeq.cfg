SPECIFICATION FairSpec
CONSTANTS
    N = 4
    Ceiling = 2
    Adaptive = TRUE
CHECK_DEADLOCK FALSE
INVARIANTS
    NothingOutlives
    NoSendAfterClose
    BoundedAhead
PROPERTIES
    LoopEnds
    GivesResults
