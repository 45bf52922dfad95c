SPECIFICATION FairSpec
CONSTANTS
    q1 = q1
    q2 = q2
    q3 = q3
    Queries <- ThreeQueries
    Kind <- WebBriefingAction
    None = None
    InitialAccess = "askEveryTime"
    Choices = {"always"}
    MaxStops = 1
    MaxFailures = 1
INVARIANTS
    TypeOK
    ThinkingHasQuery
PROPERTIES
    
    EveryQueryEnds
\* Each query is asked once: when all are answered nothing is left to do.
CHECK_DEADLOCK FALSE
