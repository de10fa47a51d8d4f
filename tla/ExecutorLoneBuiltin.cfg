SPECIFICATION Spec
CONSTANTS
    Scripts <- LoneBuiltinScripts
    MaxProcs = 4
    MaxPipes = 1
    PipeCap = 1
    Faults = {}
INVARIANTS
    LoneBuiltinsInPlace
CHECK_DEADLOCK FALSE
