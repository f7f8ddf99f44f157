SPECIFICATION FairSpec
CHECK_DEADLOCK FALSE
CONSTANTS
    Runners = 2
    Size <- Sizes
    Cap = 2
    MaxInFlight = 1
    MaxSends = 3
    MaxDeaths = 2
    None = None
INVARIANTS TypeOK Intact OneDial
PROPERTIES DialsThrough TransactionsEnd ShutdownEnds
