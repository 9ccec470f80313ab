\* One provider, three requestors, four rounds, failures.
CONSTANTS
    p1 = p1
    r1 = r1
    r2 = r2
    r3 = r3
    none = none
    Provider = p1
    Requestor = {r1, r2, r3}
    Bandwidths <- OneBandwidth
    Latencies <- OneLatency
    None = none
SPECIFICATION FairSpec
INVARIANTS
    MeasuresItsRound
    HostsOutliveRequests
PROPERTIES
    ImplementsRounds
    Completes
CHECK_DEADLOCK FALSE
