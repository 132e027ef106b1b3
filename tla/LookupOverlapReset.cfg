SPECIFICATION Spec
CONSTANTS
    r1 = r1
    r2 = r2
    r3 = r3
    Sources <- TwoSources
    Applicable <- TwoSources
    Requests <- ThreeRequests
    AttemptLimit = 1
    Overlap = TRUE
    Faults = FALSE
    MaxCrashes = 0
PROPERTY
    ResetsOnlyRetryable
\* Every trigger is sent once: when all are answered the system rests.
CHECK_DEADLOCK FALSE
