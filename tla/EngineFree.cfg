CONSTANTS
    a1 = a1
    a2 = a2
    a3 = a3
    None = None
    Actors <- ThreeActors
    Registered <- OnlyFree
    CanRun <- FreeAndPlus
    Targets <- OnlyFree
    Ready <- OnlyFree
    InitialFiles <- FreeInstalled
    Remote = FALSE
    MayClear = TRUE
    Attempts = 2
    MaxFailures = 3
    MaxDeletes = 2
    MaxReady = 2
SYMMETRY ActorSymmetry
SPECIFICATION Spec
INVARIANTS
    TypeOK
    ActiveTierIsLoaded
