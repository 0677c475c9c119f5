SPECIFICATION Spec
CONSTANTS
    Readers = {r1, r2, r3}
    Length = 3
    Threads = {th1, th2, th3}
    Transports = 2
    Flows = {f1, f2, f3}
    Nonces = 3
    Unusable = {2}
    MaxHops = 2
    Threaded = FALSE
    AppTasks = {a1, a2}
    Parts = 2
    Steps = 3
INVARIANTS OneReaderInOrder WholeUnlessClosed NoLateRequest NonceCountExact RequestInOrder ResponseIsTheApps
PROPERTIES DryAfterClose
CHECK_DEADLOCK FALSE
