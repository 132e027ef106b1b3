SPECIFICATION CourtFairSpec
CONSTANTS
    c1 = c1
    c2 = c2
    Callers <- TwoCallers
    WindowTicks = 4
    Cancellable = TRUE
    Stoppable = TRUE
    MaxAttempts = 4
    InitialDelay = 2
    MaxDelay = 6
INVARIANTS
    CourtTypeOK
    BurstBound
    CourtLoadBound
PROPERTY
    CourtEnds
CHECK_DEADLOCK TRUE
