SPECIFICATION FairSpec
INVARIANTS
    ClientTypeOK
    NothingLeftBehind
    ConfigOutlivesChild
    CleanExitWasAskedFor
    GivesUpWhenLeaseIsLost
PROPERTIES
    ShutdownTerminates
