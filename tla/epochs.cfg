CONSTANTS
    A = A  B = B  w1 = w1  w2 = w2
    a0 = a0  a1 = a1  b0 = b0  x0 = x0
    k0 = k0  k1 = k1  k2 = k2
    c1 = c1
    Objects = {A, B}
    Owners = {w1, w2}
    Keys = {k0, k1, k2}
    Publications = {a0, a1, b0, x0}
    Key <- EpochKey
    Object <- EpochObject
    Owner <- EpochOwner
    Route <- EpochRoute
    Attempt <- EpochAttempt
    Kind <- EpochKind
    Children <- EpochChildren
    Completes = {c1}
    None = None
SPECIFICATION Spec
INVARIANTS
    SnapshotValid
    ActiveGraphAcyclic
    AdoptedOrAborted
PROPERTIES
    ImplementsObjectEpochs
CHECK_DEADLOCK FALSE
