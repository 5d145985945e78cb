SPECIFICATION RegistrySpec
CONSTANTS
    Node = {1, 2, 3, 4}
    Modulus = 6
    Size = 6
    Base = 0
    MaxTime = 2
    Time <- MCTime
    MaxSessions = 5
INVARIANTS
    RegistryTypeOK
    IndexesAgree
    LeasesDistinct
    ReservedNeverLeased
    ExhaustedMeansFull
PROPERTIES
    TokensNeverRevive
    LeaseStable
    ImplementsLeaseTable
