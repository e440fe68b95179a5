SPECIFICATION Spec
CONSTANTS
    c1 = c1
    c2 = c2
    Nobody = Nobody
    Clients = {c1, c2}
    Unresponsive = {}
    Requests = {"command", "quit"}
    MaxRequests = 2
SYMMETRY MCSymmetry
CHECK_DEADLOCK FALSE
INVARIANTS
    TypeOK
    ActiveAreSessions
    OneWriter
    ByeOnceAndOnlyOnShutdown
    InformedBeforeReturn
    EveryCommandOnce

PROPERTY ImplementsShutdownNotice
