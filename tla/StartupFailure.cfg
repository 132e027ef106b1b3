SPECIFICATION Spec
CONSTANTS
    s1 = s1
    s2 = s2
    Servers <- TwoServers
    Files <- TheFiles
    Creates <- TheCreates
    Requires <- TheRequires
    Cases = 1
    Operators = {"none", "runAll"}
    MayFail = {"server", "script"}
    MaxFaults = 1
PROPERTY
    NoStartAfterFailure
\* A server that is up, with no operator at work, has nothing more to do.
CHECK_DEADLOCK FALSE
