SPECIFICATION FairSpec
CONSTANTS
    ZoneStep = 20
    StopTime = 60
    StopTimes = {60}
    Eps = 1
    NaN = NaN
    Infinity = Infinity
    ManySteps = 100
    u0 = u0
    u1 = u1
    Inputs <- MCInputs
    Values <- MCValues
    Start = u0
    ModelOwn = ModelOwn
    Zeros = Zeros
    None = None
    Points <- MCPoints
    Sizes <- MCFewSizes
    Stops <- MCFewStops
    OutCapacity = 1
    Directories = {"temporary"}
    Keeps = {FALSE}
    Faults = {"kill", "crash", "large"}
    RunLengths <- MCRunLengths
    MaxWarmup = 2
    MaxLogs = 2
PROPERTIES
    CallsReturn
    OrphanExits
CHECK_DEADLOCK FALSE
