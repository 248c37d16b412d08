SPECIFICATION RecoverySpec
CONSTANTS
    Tasks = {1}
    Foreign = {1}
    MaxRetries = 2
    MaxFaults = 0
    Mortal = FALSE
    Deps <- MCDeps
    Getters = {g1, g2}
    Wants <- MCWants
    Remote = {}
    MaxLosses = 2
    g1 = g1
    g2 = g2
INVARIANT NoConflict
CHECK_DEADLOCK FALSE
