SPECIFICATION FairP2PSpec
CONSTANTS
    Client = {1, 2}
    Restarting = {}
    TicketTTL = 1
    MaxTickets = 1
    CandidateMaxAge = 1
    PendingTTL = 1
    IssueRetry = 1
    DirectTTL = 1
    MaxTime = 0
    MaxNonces = 1
    MaxPayloads = 0
    MaxLife = 0
PROPERTIES
    ProbingConverges
