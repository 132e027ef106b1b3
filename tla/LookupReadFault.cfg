SPECIFICATION Spec
CONSTANTS
    r1 = r1
    r2 = r2
    r3 = r3
    Sources <- TwoSources
    Applicable <- TwoSources
    Requests <- TwoRequests
    AttemptLimit = 1
    Overlap = FALSE
    Faults = TRUE
    MaxCrashes = 0
INVARIANT
    CompleteMeansResolved
\* Every trigger is sent once: when all are answered the system rests.
CHECK_DEADLOCK FALSE
