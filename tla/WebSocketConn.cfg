SPECIFICATION FairSpec
CONSTANTS
    Callers = {c1, c2, c3}
    nobody = nobody
INVARIANT PermitLast
PROPERTIES NothingAfterClose CloseReturns
CHECK_DEADLOCK FALSE
