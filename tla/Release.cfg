SPECIFICATION Spec
CONSTANTS
    MaxAttempts = 2
    None = None
INVARIANTS
    EveryPlatformLoads
    SelectorsAgree
CHECK_DEADLOCK FALSE
