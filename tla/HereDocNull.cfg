SPECIFICATION Spec
CONSTANTS
    Modes = {"tty"}
    Words = {"A"}
    Delims = {"A", "B"}
    Signs <- HereSigns
    MaxInput = 6
    TempFails = FALSE
INVARIANT NeverReadsNull
CHECK_DEADLOCK FALSE
