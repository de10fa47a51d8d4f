SPECIFICATION LiveSpec
CONSTANTS
    Modes = {"tty"}
    Words = {"A"}
    Delims = {"A"}
    Signs <- AllSigns
    MaxInput = 5
    TempFails = FALSE
INVARIANTS TypeOK GrammarKept ListsAsWritten NothingLeftOut
PROPERTY Terminates
CHECK_DEADLOCK FALSE
