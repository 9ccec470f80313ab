\* Two miners, one client: the promise of the comment on the last signal.
CONSTANTS
    m1 = m1
    m2 = m2
    c1 = c1
    c2 = c2
    boot = boot
    Miner = {m1, m2}
    Client = {c1}
    Waiter = {boot}
    Synchronized = TRUE
    MaxRetries = 2
    MaxRound = 3
SPECIFICATION FairSpec
PROPERTIES
    NoMinerLeftStuck
CHECK_DEADLOCK FALSE
