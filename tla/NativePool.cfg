SPECIFICATION FairSpec
CONSTANTS
    Calls = {c1, c2, c3}
    MaxConnections = 1
INVARIANTS LiveWithinLimit NoIdlePermit
PROPERTIES ImplementsGate CloseFreesPermit CancelledSendReturns NoStarvation
