CONSTANTS
    MaxRetries = 1
    Rounds = 1
    Faults = {"death"}
    MaxStrays = 0
    None = None
SPECIFICATION FairSpec
INVARIANTS
    RunsOncePerAttempt
PROPERTY TaskFinishes
CHECK_DEADLOCK FALSE
