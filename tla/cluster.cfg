CONSTANTS
    Nodes = {1, 2, 3}
    Driver = Driver
    w1 = w1
    w2 = w2
    Workers = {w1, w2}
    Home <- MCHome
    Survivors = {2}
    Uses <- MCUses
    Groups = {1, 2}
    Width <- MCWidth
    Depth <- MCDepth
    Capacity = 2
    Actors = {1, 2}
    OwnerOf <- MCOwnerOf
    Restarts <- MCRestarts
    Calls = {1, 2}
    CallOf <- MCCallOf
SPECIFICATION Spec
INVARIANTS SurvivorsKnowFirst NoOrphansWhereScheduled RecordMatchesReservations RoutesAgree CallsOnceInOrder
CHECK_DEADLOCK FALSE
