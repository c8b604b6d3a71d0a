SPECIFICATION Spec
CONSTANTS
    MaxTotal = 8
    MaxAttributed = 8
INVARIANTS NeverCreatesValue
CHECK_DEADLOCK FALSE
