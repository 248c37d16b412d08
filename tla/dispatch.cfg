CONSTANTS
    MaxRetries = 1
    Rounds = 1
    Faults = {"death", "delay", "exit", "shutdown"}
    MaxStrays = 2
    None = None
SPECIFICATION Spec
INVARIANTS
    ExecutionIsFenced
    CancelledHoldsNothing
    FinishedIsPublished
    ReadyIsCompleted
CHECK_DEADLOCK FALSE
