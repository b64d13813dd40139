SPECIFICATION FairSpec
CONSTANTS
    c1 = c1
    c2 = c2
    Calls <- TwoCalls
    MaxRetries = 2
    Timeout = 4
    Delays <- ShortDelays
    RetryAfters <- AnyRetryAfter
    MaxRetryAfter = 3
    Threshold = 2
    OpenFor = 2
    HalfOpenProbes = 1
    ClockLag = 0
INVARIANTS
    BackoffFitsBudget
    CauseReported
PROPERTIES
    RetryAfterHonored
    CallReturns
