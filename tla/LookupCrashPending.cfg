SPECIFICATION ApiFairSpec
CONSTANTS
    r1 = r1
    r2 = r2
    r3 = r3
    q1 = q1
    Sources <- TwoSources
    Applicable <- TwoSources
    Requests <- TwoRequests
    AttemptLimit = 1
    Overlap = FALSE
    Faults = FALSE
    MaxCrashes = 1
    Entries <- OneInBulk
    Pool = 3
    Readers = {}
PROPERTY
    CompleteSettles
\* Every trigger is sent once: when all are answered the system rests.
CHECK_DEADLOCK FALSE
