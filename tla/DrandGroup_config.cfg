\* Three drand nodes with threshold two, and the bootstrapper, which waits for them.
CONSTANTS
    boot = boot
    d1 = d1
    d2 = d2
    d3 = d3
    Miner = {}
    Client = {}
    Bootstrapper = boot
    Tracer = {}
    Drand = {d1, d2, d3}
    DrandLeader = d1
    TracerEnabled = FALSE
    LocalDrand = TRUE
    Threshold = 2
    TestSidecar = TRUE
SPECIFICATION FairGroupSpec
INVARIANTS
    ConfigUsable
    DkgAmongDaemons
PROPERTIES
    SurvivesLosses
    EventuallyPrepared
    ImplementsPrepare
CHECK_DEADLOCK FALSE
