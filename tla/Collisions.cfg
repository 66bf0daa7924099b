SPECIFICATION Spec
CONSTANTS
    k1 = k1
    k2 = k2
    None = None
    Names <- MCNames
    Keys <- MCKeys
    Requests <- MCWeatherRequests
INVARIANTS
    CollisionsReported
CHECK_DEADLOCK FALSE
