CONSTANTS
    Nodes = {1, 2}
    Objects = {"x"}
    Leases = {"a", "b"}
    Target <- MCTarget
    Inputs <- MCOneInput
    Makers = {1}
    Attempts = 2
    Rounds = 1
    Capacity <- MCRoomy
    Mortal = {1, 2}
    MortalTasks = {"a"}
    MaxFaults = 1
SPECIFICATION FairSpec
CHECK_DEADLOCK FALSE
PROPERTIES PinsReleased CustodySettles
