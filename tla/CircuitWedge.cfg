SPECIFICATION FairSpec
CONSTANTS
    c1 = c1
    c2 = c2
    c3 = c3
    Callers <- TwoCallers
    Outcomes <- AnyOutcome
    Threshold = 2
    OpenFor = 2
    HalfOpenProbes = 2
    ClockLag = 1
PROPERTY ProbesDiscoverRecovery
