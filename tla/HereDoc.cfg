SPECIFICATION LiveSpec
CONSTANTS
    Modes = {"tty", "file"}
    Words = {"A"}
    Delims = {"A", "B"}
    Signs <- HereSigns
    MaxInput = 6
    TempFails = TRUE
INVARIANTS BodiesMatch TokensAsWritten DocumentsClosed
PROPERTY Terminates
CHECK_DEADLOCK FALSE
