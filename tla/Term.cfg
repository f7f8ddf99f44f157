SPECIFICATION FairSpec
CHECK_DEADLOCK FALSE
CONSTANTS
    x = x  y = y
    Nodes = {x, y}
    Users <- BothUsers
    MaxLoads = 3  MaxClicks = 4  MaxSize = 2
    MaxFails = 1
INVARIANTS TypeOK PatientSafe ButtonsTell LastDeployed DeploymentReported
PROPERTIES OldClientsGo StatusShown
