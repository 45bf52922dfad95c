SPECIFICATION FairSpec
CONSTANTS
    f = f
    g = g
    u = u
    c = c
    e = e
    ph = ph
    Items <- FileAndContact
    Kind <- KindOfTwo
    Scanned = {f, c}
    Aliased = {}
    NChunks = 1
    Events = {"clear"}
    MaxEvents = 1
PROPERTY LostIsReindexed
