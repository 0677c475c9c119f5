SPECIFICATION Spec
CONSTANT MaxRedirects = 2
CHECK_DEADLOCK FALSE
INVARIANTS AllFollowedInHistory
