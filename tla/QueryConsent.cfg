SPECIFICATION Spec
CONSTANTS
    q1 = q1
    q2 = q2
    q3 = q3
    Queries <- TwoQueries
    Kind <- WebTwice
    None = None
    InitialAccess = "askEveryTime"
    Choices = {"off"}
    MaxStops = 1
    MaxFailures = 0
PROPERTIES
    SearchHasConsent
