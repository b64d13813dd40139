SPECIFICATION Spec
CONSTANTS
    r1 = r1
    r2 = r2
    a = a
    b = b
    Requesters <- TwoRequesters
    Contents <- TwoContents
    Asks <- OwnContent
    Versions = 2
    TTL = 1
    MaxEntries = 1
    DiskMax = 2
    Latency = 0
    Horizon = 3
CHECK_DEADLOCK FALSE
INVARIANTS
    HitMatchesLookup
    MoveNoticed
    ServedWithinTwoTTLs
