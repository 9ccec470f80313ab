\* A watching miner, a client and two slashed miners, one of them restored or none.
CONSTANTS
    m1 = m1 s1 = s1 s2 = s2 c1 = c1
    Miner = {m1}
    Slashed = {s1, s2}
    FullSlash <- OneOrBoth
    Client = {c1}
    Waiter = {}
    ToBeSlashed = 2
    MinLosses = 2
SPECIFICATION FairSpec
INVARIANTS
    SuccessMeansSlashed
    DoneMeansAllDone
PROPERTIES
    AbortReachesMiners
    OnlyBarrierHangs
    Completes
CHECK_DEADLOCK FALSE
