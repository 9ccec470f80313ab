\* Up to three runs and up to three workers, none of either included.
SPECIFICATION FairSpec
CONSTANTS
    MaxRuns = 3
    MaxParallel = 3
INVARIANTS
    AllAccounted
PROPERTY
    Completes
\* main ends, and without workers it waits for ever.
CHECK_DEADLOCK FALSE
