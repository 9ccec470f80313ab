\* One sender, as in the composition: two lanes, three vouchers each.
CONSTANTS
    s1 = s1
    s2 = s2
    recv = recv
    Sender = {s1}
    Receiver = recv
    LaneCount = 2
    VouchersPerLane = 3
SPECIFICATION PaychFairSpec
INVARIANTS
    RemainingIsUnspent
    SettleAfterAllAdded
PROPERTIES
    PaychCompletes
CHECK_DEADLOCK FALSE
