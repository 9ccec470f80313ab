\* Two miner actors, four heads at heights 0 to 4, two losses make a slashing.
SPECIFICATION DiffsFairSpec
CONSTANTS
    Actor = {m1, m2}
    ValueTypes = {"LockedFunds", "Faults"}
    Rounded = {"LockedFunds"}
    ProvingTypes = {"Faults"}
    MinerStates <- ThreeStates
    Unit = 2
    SlashLosses = 2
    headlag = 1
    MaxHeight = 4
    MaxHeads = 4
INVARIANTS
    IndexesAgree
    LossesWereSeen
PROPERTY
    SlashIsSeen
\* Nothing makes the chain go on, and an error ends the recording for good.
CHECK_DEADLOCK FALSE
