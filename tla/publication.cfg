SPECIFICATION FairSpec
CONSTANTS
    Transfers = 1
    Tiers = {TRUE, FALSE}
    Crashes = {"executor", "node", "owner", "child"}
    MaxFaults = 1
    None = None
INVARIANTS ReadyIsBacked RetiredHoldsNothing OneOutcome
PROPERTIES PublicationSettles
CHECK_DEADLOCK FALSE
