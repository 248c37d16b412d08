SPECIFICATION FairRecovery
CONSTANTS
    Tasks = {1, 2}
    Foreign = {1}
    MaxRetries = 2
    MaxFaults = 1
    Mortal = TRUE
    Deps <- MCDeps
    Getters = {g1, g2}
    Wants <- MCWants
    Remote = {g2}
    MaxLosses = 2
    g1 = g1
    g2 = g2
INVARIANTS EpochsAgree InputsHeld
PROPERTY Settles
CHECK_DEADLOCK FALSE
