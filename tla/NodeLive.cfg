SPECIFICATION FairSpec
CONSTANTS
    t1 = t1  t2 = t2  k1 = k1  k2 = k2  p1 = p1
    None = None
    Threads = {t1, t2}
    Controls = {k1}
    Peers = {}
    Comps <- MCComps
    Kind <- MixedKind
    Configs <- PairOrTicking
    MaxCommands = 4
    MaxMessages = 0
    MaxEmit = None
INVARIANT ChainsBounded
PROPERTIES NoRevival RequestAnswered OldRouterFreed StopDrains
