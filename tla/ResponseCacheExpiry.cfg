SPECIFICATION Spec
CONSTANTS
    r1 = r1
    r2 = r2
    a = a
    b = b
    Requesters <- OneRequester
    Contents <- TwoContents
    Asks <- BothContents
    Versions = 2
    TTL = 1
    MaxEntries = 1
    DiskMax = 2
    Latency = 1
    Horizon = 4
CHECK_DEADLOCK FALSE
INVARIANT EntriesExpire
