SPECIFICATION FairSpec
CONSTANTS
    c1 = c1
    c2 = c2
    Callers <- OneCaller
    Attempts <- RetryLoops
    Publishers = {c1}
    Inodes = {i1, i2, i3, i4, i5}
    None = None
    FileSize = 3
    MinChunks = 2
    MaxLag = 2
    HonoursRange = TRUE
    DrainFirst = TRUE
    MaxFaults = 2
    MaxCancels = 1
    MaxDeletes = 2
    MaxCrashes = 2
INVARIANTS
    TypeOK
    
    NoTraceOfFinishedDownload

    
    
