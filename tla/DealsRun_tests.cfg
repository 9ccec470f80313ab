\* A miner and two clients: the end-to-end test with payment channels, and the stress test
\* with two deals per client, concurrent and serial.
CONSTANTS
    m1 = m1
    c1 = c1
    c2 = c2
    Miner = {m1}
    Client = {c1, c2}
    Waiter = {}
    Synchronized = TRUE
    MaxRetries = 1
    MaxRound = 1
    Tests = {"fast", "concurrent", "serial"}
    NDeals = 2
SPECIFICATION FairDealsSpec
INVARIANTS
    RetrieveAfterSealed
PROPERTIES
    DealsEnd
    ImplementsMining
CHECK_DEADLOCK FALSE
