SPECIFICATION Spec
CONSTANTS
    s1 = s1
    s2 = s2
    NCells = 3
    Seqs <- CacheSeqs
    MaxPos = 3
    Windows <- CacheWindows
    NUbatch = 1
    MaxBatch = 2
    Deltas <- CacheDeltas
SYMMETRY SeqSymmetry
INVARIANTS TypeOK  KeysFollowPositions
PROPERTIES AppliesWithoutGap 
