CONSTANTS
    Nodes = {1, 2, 3}
    Objects = {"x", "y"}
    Leases = {"a", "b"}
    Target <- MCTarget
    Inputs <- MCInputs
    Makers = {1, 3}
    Attempts = 2
    Rounds = 1
    Capacity <- MCCapacity
    Mortal = {1}
    MortalTasks = {"a"}
    MaxFaults = 1
SPECIFICATION Spec
INVARIANTS PinKeepsReplica RoomComesBack CustodyAccountedFor InputsStay
CHECK_DEADLOCK FALSE
