SPECIFICATION FairSpec
CONSTANTS
    RelayIPs <- MCRelayIPs
    Samples = 2
    MaxTX = 6
INVARIANTS
    RelayStaysReachable
    PassedMeansRecovered
    LeftoversExplained
PROPERTIES
    FallbackIsReal
    BlockingEnds
