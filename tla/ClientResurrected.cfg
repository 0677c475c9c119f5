SPECIFICATION Spec
CONSTANTS
    Threads = {th1, th2, th3}
    Transports = 2
INVARIANTS ClosedStaysClosed
