SPECIFICATION HangingCallsSpec
CONSTANTS
    N = 2
    Ceiling = 1
    Adaptive = TRUE
CHECK_DEADLOCK FALSE
PROPERTY WatchdogWakesWaiter
