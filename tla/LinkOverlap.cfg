SPECIFICATION Spec
CHECK_DEADLOCK FALSE
CONSTANTS
    Runners = 1
    Size <- Sizes
    Cap = 8
    MaxInFlight = 2
    MaxSends = 2
    MaxDeaths = 0
    None = None
INVARIANT Intact
