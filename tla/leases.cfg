CONSTANTS
    l1 = l1  l2 = l2  driver = driver
    Leases = {l1, l2}
    Submitters = {driver}
    Submitter <- LeaseSubmitter
    Slots = {1, 2}
    Workers = {1, 2, 3}
    Names = {"CPU", "GPU"}
    CPU = "CPU"
    Total <- NodeTotal
    Request <- LeaseRequest
    Outputs = {l1}
    MaxSequence = 0
    None = None
SPECIFICATION FairSpec
INVARIANTS
    LedgerSound
    SuccessIsPublished
PROPERTIES
    ExecutionsEndOnce
    QuiescenceIsStable
    DrainConverges
CHECK_DEADLOCK FALSE
