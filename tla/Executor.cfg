SPECIFICATION LiveSpec
CONSTANTS
    Scripts <- PassScripts
    MaxProcs = 6
    MaxPipes = 3
    PipeCap = 1
    Faults = {"fork", "pipe"}
INVARIANTS
    TypeOK
    NoStrayChildren
    BuiltinsInPipelinesForked
    Plumbing
    WaitsWithPipesClosed
PROPERTIES
    PipelineStatus
    ListOrderKept
    ListPromise
    Terminates
CHECK_DEADLOCK FALSE
