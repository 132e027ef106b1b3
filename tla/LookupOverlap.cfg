SPECIFICATION ApiFairSpec
CONSTANTS
    r1 = r1
    r2 = r2
    r3 = r3
    q1 = q1
    Sources <- TwoSources
    Applicable <- TwoSources
    Requests <- ThreeRequests
    AttemptLimit = 1
    Overlap = TRUE
    Faults = FALSE
    MaxCrashes = 0
    Entries <- ThriceInBulk
    Pool = 2
    Readers = {}
INVARIANTS
    ApiTypeOK
    BulkTruthful
    PendingHasOwner
    AttemptsNeverOvercount
PROPERTIES
    PendingSettles
    BulkResponds
\* Every trigger is sent once: when all are answered the system rests.
CHECK_DEADLOCK FALSE
