SPECIFICATION ApiSpec
CONSTANTS
    r1 = r1
    r2 = r2
    r3 = r3
    q1 = q1
    Sources <- ThreeSources
    Applicable <- PreFiling
    Requests <- ThreeRequests
    AttemptLimit = 2
    Overlap = FALSE
    Faults = FALSE
    MaxCrashes = 2
    Entries <- NoBulk
    Pool = 3
    Readers <- OneReader
INVARIANTS
    CompleteMeansResolved
    StatusMatchesRows
    AttemptsExact
    ViewNotBehind
PROPERTIES
    EnrichmentRefined
\* Every trigger is sent once: when all are answered the system rests.
CHECK_DEADLOCK FALSE
