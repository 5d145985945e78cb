SPECIFICATION P2PSpec
CONSTANTS
    Client = {1, 2}
    Restarting = {2}
    TicketTTL = 1
    MaxTickets = 1
    CandidateMaxAge = 1
    PendingTTL = 1
    IssueRetry = 1
    DirectTTL = 1
    MaxTime = 1
    MaxNonces = 1
    MaxPayloads = 1
    MaxLife = 1
INVARIANTS
    P2PTypeOK
    NoPayloadTwice
    DeadPathBounded
