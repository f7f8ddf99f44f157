SPECIFICATION Spec
CHECK_DEADLOCK FALSE
CONSTANTS
    x = x  y = y
    Nodes = {x, y}
    Users <- JustHasty
    MaxLoads = 3  MaxClicks = 4  MaxSize = 2
    MaxFails = 0
INVARIANT NoFault
