SPECIFICATION Spec
CONSTANTS
    k1 = k1
    k2 = k2
    None = None
    Names <- MCNames
    Keys <- MCKeys
    Requests <- MappingRequests
INVARIANTS
    AliasesPreserved
CHECK_DEADLOCK FALSE
