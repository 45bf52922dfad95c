CONSTANTS
    a1 = a1
    a2 = a2
    a3 = a3
    None = None
    Actors <- TwoActors
    Registered <- FreeAndPlus
    CanRun <- AllThree
    Targets <- AllThree
    Ready <- FreeAndPlus
    InitialFiles <- PlusBad
    Remote = TRUE
    MayClear = TRUE
    Attempts = 2
    MaxFailures = 3
    MaxDeletes = 1
    MaxReady = 1
SPECIFICATION FairSpec
INVARIANTS
    SwitchLock
PROPERTIES
    
    SwitchEnds
