SPECIFICATION Spec
CONSTANTS
    r1 = r1
    r2 = r2
    r3 = r3
    Sources <- ThreeSources
    Applicable <- PreFiling
    Requests <- ThreeRequests
    AttemptLimit = 1
    Overlap = FALSE
    Faults = TRUE
    MaxCrashes = 1
INVARIANTS
    TypeOK
    OneLookup
PROPERTIES
    SuccessIsFinal
    CallsOnlyUnresolved
\* Every trigger is sent once: when all are answered the system rests.
CHECK_DEADLOCK FALSE
