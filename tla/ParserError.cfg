SPECIFICATION Spec
CONSTANTS
    Modes = {"tty"}
    Words = {"A"}
    Delims = {"A", "B"}
    Signs <- AllSigns
    MaxInput = 3
    TempFails = FALSE
INVARIANT ErrorRunsNothing
CHECK_DEADLOCK FALSE
