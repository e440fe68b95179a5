SPECIFICATION Spec
CONSTANTS
    c1 = c1
    c2 = c2
    Nobody = Nobody
    Clients = {c1, c2}
    Unresponsive = {c2}
    Requests = {"command", "blank"}
    MaxRequests = 1
CHECK_DEADLOCK FALSE
PROPERTIES
    ShutdownEnds
    CommandAnswered
    LostConnectionRemoved
