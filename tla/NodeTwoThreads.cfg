SPECIFICATION Spec
CONSTANTS
    t1 = t1  t2 = t2  k1 = k1  k2 = k2  p1 = p1
    None = None
    Threads = {t1, t2}
    Controls = {k1}
    Peers = {p1}
    Comps <- MCComps
    Kind <- PlainKind
    Configs <- BothConfigs
    MaxCommands = 3
    MaxMessages = 1
    MaxEmit = 1
INVARIANTS TypeOK RequestsSafe CommandedState FlowConserved
PROPERTIES ImplementsService RequestsDefined
CHECK_DEADLOCK FALSE
SYMMETRY SymThreads
