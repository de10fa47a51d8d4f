SPECIFICATION Spec
CONSTANTS
    Scripts <- NewlineScripts
    MaxProcs = 4
    MaxPipes = 1
    PipeCap = 1
    Faults = {}
PROPERTIES
    ListOrderKept
CHECK_DEADLOCK FALSE
