SPECIFICATION Spec
CONSTANTS
    None = None
    k1 = k1
    k2 = k2
    Keys = {k1, k2}
    Names = {k1, k2}
    MaxRequests = 2
    MaxLog = 4
    MaxFails = 1
    Settings <- AllSettings
INVARIANTS CacheFollows ClientCurrent
PROPERTIES CacheRecovers
CHECK_DEADLOCK FALSE
