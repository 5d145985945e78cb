SPECIFICATION LimiterSpec
CONSTANTS
    Fingerprint = {f1, f2, f3, f4}
    Unit = 2
    Rate = 1
    Burst = 2
    Window = 3
    MaxTime = 8
    MaxPassed = 5
INVARIANTS
    LimiterTypeOK
    RateBound
    DuplicatesSuppressed
    SeenBounded
