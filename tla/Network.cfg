SPECIFICATION FairSpec
CHECK_DEADLOCK FALSE
CONSTANTS
    x = x  y = y  p = p  q = q
    None = None
    Nodes = {x, y}
    Ports = {p, q}
    Configs <- ThreeConfigs
    MaxDeploys = 2
    MaxFaults = 1
INVARIANTS TypeOK NeverDeaf LoopsBounded
PROPERTIES PeersMeet ReplacedClientsGo
