SPECIFICATION Spec
CHECK_DEADLOCK FALSE
CONSTANTS
    a = a  b = b  c = c  x = x  y = y  z = z
    None = None
    Comps = {a, b, c}
    Bases = {x, y, z}
    Cases <- AllCases
INVARIANTS TypeOK AsDesigned NoNullRoute RoutesArrive
