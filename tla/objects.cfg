CONSTANTS
    Token <- MCToken
    Kind <- MCKind
    Source <- MCSource
    Holder <- MCHolder
    Uses <- MCUses
    n1 = n1
    n2 = n2
    Nodes = {n1, n2}
    Producers = {n1}
    Hosts <- MCHosts
    Crashes = {"owner", "w2", "kid", n2}
    GcsFaults = FALSE
    Shutdown = TRUE
    MaxFaults = 1
    None = None
SPECIFICATION FairSpec
INVARIANTS HeldIsKept NothingComesBack CopiesAccountedFor FencedFirst
PROPERTIES EventuallyCollected
CHECK_DEADLOCK FALSE
