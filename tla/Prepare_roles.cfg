\* Two miners, a client, the tracer and a local drand node: every order of events,
\* failures and lost messages; and everybody gets prepared.
CONSTANTS
    m1 = m1
    m2 = m2
    c1 = c1
    boot = boot
    tr = tr
    d1 = d1
    Miner = {m1, m2}
    Client = {c1}
    Bootstrapper = boot
    Tracer = {tr}
    Drand = {d1}
    DrandLeader = d1
    TracerEnabled = TRUE
    LocalDrand = TRUE
SPECIFICATION FairSpec
INVARIANTS
    AddrsThereAfterReady
    DenselyConnected
    GenesisComplete
PROPERTIES
    EventuallyPrepared
CHECK_DEADLOCK FALSE
