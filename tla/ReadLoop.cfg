SPECIFICATION Spec
CONSTANTS
    Inputs <- MCInputs
    MaxReads = 3
    MaxInterrupts = 3
INVARIANTS TypeOK DroppedForGood
PROPERTIES DropsAreFresh ComesToAnEnd
CHECK_DEADLOCK FALSE
