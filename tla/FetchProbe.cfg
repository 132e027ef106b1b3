SPECIFICATION FairSpec
CONSTANTS
    w1 = w1
    w2 = w2
    w3 = w3
    Workers <- ThreeWorkers
    Kinds = {"property_records", "court_records", "scra"}
    MaxAttempts = 2
    MaxPolls = 1
    MaxFailures = 2
    HealthPolled = FALSE
    FailureCap = 4
INVARIANTS
    TypeOK
    ThresholdInv
    ReportedProbeInPipeline
    OpenLoadBounded
PROPERTY
    ReportedCircuitRecovers
\* No lookup need start another fetch.
CHECK_DEADLOCK FALSE
