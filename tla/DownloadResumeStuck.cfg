SPECIFICATION FairSpec
CONSTANTS
    c1 = c1
    c2 = c2
    Callers <- OneCaller
    Attempts <- RetryLoops
    Publishers = {c1}
    Inodes = {i1, i2, i3, i4, i5}
    None = None
    FileSize = 3
    MinChunks = 2
    MaxLag = 2
    HonoursRange = TRUE
    DrainFirst = TRUE
    MaxFaults = 0
    MaxCancels = 0
    MaxDeletes = 0
    MaxCrashes = 1
PROPERTIES
    EventuallyInstalled
