SPECIFICATION FairSpec
CONSTANTS
    Node = {1, 2}
    Modulus = 16
    Size = 4
    Base = 8
    MaxSessions = 3
    Time <- MCTime
    LeaseTTL = 10
    HeartbeatInterval = 1
    Timeout = 2
    Tunnelled = {1, 2}
    Probing = {1}
    MaxTime = 11
    MaxLife <- MCMaxLife
    MaxBoots = 2
INVARIANTS
    ClientLeavesFirst
    NoLastingConflict
PROPERTIES
    EndpointSettles
