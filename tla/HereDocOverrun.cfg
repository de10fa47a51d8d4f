SPECIFICATION Spec
CONSTANTS
    Modes = {"tty", "file"}
    Words = {"A"}
    Delims = {"A", "B"}
    Signs <- HereSigns
    MaxInput = 6
    TempFails = FALSE
INVARIANT NeverOverruns
CHECK_DEADLOCK FALSE
