SPECIFICATION CooperativeSpec
CONSTANTS
    Tasks = {t1, t2, t3}
    Setups <- MCSetups
    Chunks = 1
INVARIANTS NothingHeldBetweenRequests NoCircularWait
PROPERTIES EveryCallEnds ClientCloses
