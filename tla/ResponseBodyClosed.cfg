SPECIFICATION Spec
CONSTANTS
    Readers = {r1, r2, r3}
    Length = 3
INVARIANTS AskingAfterCloseRaises
CHECK_DEADLOCK FALSE
