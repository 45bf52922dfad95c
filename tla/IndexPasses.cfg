SPECIFICATION FairSpec
CONSTANTS
    f = f
    g = g
    u = u
    c = c
    e = e
    ph = ph
    Items <- All
    Kind <- KindOf
    Scanned = {f, g, c, e, ph}
    Aliased = {ph}
    NChunks = 2
    Events <- Faults
    MaxEvents = 2
INVARIANTS TypeOK EntryIsWhole
PROPERTIES PassEnds 
\* A pass that could not open the database leaves _isRunning set, and no
\* pass follows until the app is restarted.
CHECK_DEADLOCK FALSE
