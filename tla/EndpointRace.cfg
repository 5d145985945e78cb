SPECIFICATION CoordinatorSpec
CONSTANTS
    Requests = {"register"}
    Bodies = {"hello"}
    Handler = {h1}
    Node = {1, 2}
    Modulus = 16
    Size = 5
    Base = 8
    MaxSessions = 2
    MaxTime = 3
    Time <- MCTime
    LeaseTTL = 2
    HeartbeatInterval = 1
    TicketTTL = 1
    MaxTickets = 0
    Fingerprint = {f1}
    Unit = 1
    Rate = 1
    Burst = 1
    Window = 1
INVARIANTS
    NoEndpointOutlivesItsLease
