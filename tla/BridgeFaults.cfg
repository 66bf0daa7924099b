SPECIFICATION Spec
CONSTANTS
    ZoneStep = 20
    StopTime = 60
    StopTimes = {20, 60, 80}
    Eps = 1
    NaN = NaN
    Infinity = Infinity
    ManySteps = 100
    u0 = u0
    u1 = u1
    Inputs <- MCInputs
    Values <- MCOneValue
    Start = u0
    ModelOwn = ModelOwn
    Zeros = Zeros
    None = None
    Points <- MCPoints
    Sizes <- MCFewSizes
    Stops <- MCFewStops
    OutCapacity = 2
    Directories = {"temporary", "chosen"}
    Keeps = {FALSE, TRUE}
    Faults = {"kill", "crash", "config", "large"}
    RunLengths <- MCRunLengths
    MaxWarmup = 2
    MaxLogs = 1
INVARIANTS
    FreshSpawn
    NoStaleAnswer
    NothingLeftToDrain
    OutputsAsPromised
    Protocol
PROPERTIES
    ImplementsContract
CHECK_DEADLOCK FALSE
