SPECIFICATION Spec
CONSTANTS
    k1 = k1
    k2 = k2
    None = None
    Names <- MCNames
    Keys <- MCKeys
    Requests <- MCRequests
INVARIANTS
    TypeOK
    ReferencesReachMappings
    StructureNamesVariables
    TargetsExist
    FilesResolve
    IdentifierIsC
    RuntimesMatch
    RunPeriodOnGrid
    RefusedForAReason
    VerdictsAgree
    FileAsReported
    InspectionTruthful
    GuidIgnoresOrderUnderOverlay
CHECK_DEADLOCK FALSE
