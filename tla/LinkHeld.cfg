SPECIFICATION FairSpec
CHECK_DEADLOCK FALSE
CONSTANTS
    Runners = 1
    Size <- Sizes
    Cap = 2
    MaxInFlight = 1
    MaxSends = 2
    MaxDeaths = 1
    None = None
PROPERTY HoldsConnection
