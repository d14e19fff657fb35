SPECIFICATION FairSpec
CONSTANTS
    Contenders = {c1, c2}
    MaxLeases = 3
    MaxFaults = 1
    Expiry = TRUE
INVARIANTS
    MutualExclusion
PROPERTIES
    ImplementsAbstractLock
    LockReturns
CHECK_DEADLOCK FALSE
