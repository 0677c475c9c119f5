SPECIFICATION FairSpec
CONSTANT Retries = 2
INVARIANTS StreamAtRest CleanResponse
PROPERTIES FailureEnds PermitReturns
CHECK_DEADLOCK FALSE
