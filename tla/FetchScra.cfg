SPECIFICATION ScraFairSpec
CONSTANTS
    w1 = w1
    w2 = w2
    Workers <- TwoWorkers
    Kinds = {"scra"}
    MaxAttempts = 2
    MaxPolls = 1
    MaxFailures = 1
    HealthPolled = TRUE
    FailureCap = 2
INVARIANTS
    OneProbePerCooldown
    ReportedOnce
    VerdictIsAnswer
    SearchesBounded
PROPERTY
    JobEnds
\* No lookup need start another fetch.
CHECK_DEADLOCK FALSE
