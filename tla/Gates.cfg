SPECIFICATION GatesSpec
CONSTANTS
    c1 = c1
    c2 = c2
    c3 = c3
    Callers <- ThreeCallers
    Outcomes <- AnyOutcome
    Threshold = 2
    OpenFor = 2
    HalfOpenProbes = 2
    ClockLag = 1
    MaxRequestsPerMinute = 3
    MaxTokensPerSecond = 3
    MaxTotalRequests = 5
    MaxTotalTokens = 8
    Minute = 3
    Second = 1
    Sizes <- SmallAndLarge
    Horizon = 7
INVARIANTS
    TypeOK
    ClosedMeansFewFailures
    SlotAccounting
    WedgedOnlyByLostProbe
    RequestsPerMinuteHold
    TokensPerSecondHold
PROPERTIES
    RestsBeforeProbing
    RecoversUnlessLost
    ImplementsQuota
