SPECIFICATION LiveSpec
CONSTANTS
    Scripts <- HangScripts
    MaxProcs = 4
    MaxPipes = 1
    PipeCap = 1
    Faults = {}
PROPERTIES
    TerminatesAlways
CHECK_DEADLOCK FALSE
