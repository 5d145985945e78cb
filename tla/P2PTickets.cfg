SPECIFICATION P2PSpec
CONSTANTS
    Client = {1, 2}
    Restarting = {1}
    TicketTTL = 2
    MaxTickets = 3
    CandidateMaxAge = 1
    PendingTTL = 1
    IssueRetry = 1
    DirectTTL = 1
    MaxTime = 2
    MaxNonces = 0
    MaxPayloads = 0
    MaxLife = 1
INVARIANTS
    OneLiveTicketPerPair
