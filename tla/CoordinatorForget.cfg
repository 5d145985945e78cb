SPECIFICATION FairCoordinatorSpec
CONSTANTS
    Requests = {"register", "issue", "tickets"}
    Bodies = {"hello"}
    Handler = {h1}
    Node = {1, 2}
    Modulus = 16
    Size = 5
    Base = 8
    MaxSessions = 2
    MaxTime = 2
    Time <- MCTime
    LeaseTTL = 2
    HeartbeatInterval = 1
    TicketTTL = 1
    MaxTickets = 1
    Fingerprint = {f1}
    Unit = 1
    Rate = 1
    Burst = 1
    Window = 1
INVARIANTS
    TicketsExplained
PROPERTIES
    ExpiredStateForgotten
