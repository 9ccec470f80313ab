\* Two miners, two clients, a waiter: safety, the refinement, and liveness under fairness.
CONSTANTS
    m1 = m1
    m2 = m2
    c1 = c1
    c2 = c2
    boot = boot
    Miner = {m1, m2}
    Client = {c1, c2}
    Waiter = {boot}
    Synchronized = TRUE
    MaxRetries = 2
    MaxRound = 3
SPECIFICATION FairSpec
INVARIANTS
    TypeOK
    Lockstep
    RoundTogether
    MiningOutlivesClients
    DoneMeansAllDone
PROPERTIES
    ImplementsRounds
    WaitEndsUnlessPeerLeft
    Termination
CHECK_DEADLOCK FALSE
