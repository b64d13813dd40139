SPECIFICATION Spec
CONSTANTS
    N = 3
    Ceiling = 1
    Adaptive = TRUE
CHECK_DEADLOCK FALSE
INVARIANT EveryGoroutineExits
