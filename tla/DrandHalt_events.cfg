\* Three nodes, threshold two, all lists of up to four fields of four kinds.
CONSTANTS
    d1 = d1
    d2 = d2
    d3 = d3
    Suspendable = {d1, d2, d3}
    drandThreshold = 2
    Field = {"halt", "resume", "wait", "badWait"}
    MaxFields = 4
SPECIFICATION HaltFairSpec
INVARIANTS
    CallsAsSpecified
    DaemonFollowsState
PROPERTIES
    GroupRecovers
CHECK_DEADLOCK FALSE
