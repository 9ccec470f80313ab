\* Two senders: when they settle.
CONSTANTS
    s1 = s1
    s2 = s2
    recv = recv
    Sender = {s1, s2}
    Receiver = recv
    LaneCount = 1
    VouchersPerLane = 2
SPECIFICATION PaychSpec
INVARIANTS
    SettleAfterAllAdded
CHECK_DEADLOCK FALSE
