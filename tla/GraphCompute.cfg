SPECIFICATION FairSpec
CONSTANTS
    N = 3
    NNodes = 3
    Ops <- GraphOps
    NR0 = 4
    NR1 = 2
    ChunkSize = 1
    GraphWrap = 65536
    MaxGraphs = 2
INVARIANTS TypeOK NobodyInside InputsReady
PROPERTIES ComputesInOrder EveryGraphEnds EveryPoolStops
