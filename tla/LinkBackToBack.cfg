SPECIFICATION Spec
CHECK_DEADLOCK FALSE
CONSTANTS
    Runners = 2
    Size <- Sizes
    Cap = 3
    MaxInFlight = 3
    MaxSends = 3
    MaxDeaths = 1
    None = None
INVARIANT IntactUntilMixed
PROPERTY DeliversUntilMixed
