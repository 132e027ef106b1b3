SPECIFICATION FairSpec
CONSTANTS
    w1 = w1
    w2 = w2
    w3 = w3
    Workers <- TwoWorkers
    Kinds = {"scra"}
    MaxAttempts = 2
    MaxPolls = 1
    MaxFailures = 2
    HealthPolled = TRUE
    FailureCap = 4
PROPERTY
    CircuitRecovers
\* No lookup need start another fetch.
CHECK_DEADLOCK FALSE
