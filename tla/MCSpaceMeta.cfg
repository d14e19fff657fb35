SPECIFICATION Spec
CONSTANTS
    c1 = c1
    c2 = c2
    c3 = c3
    s1 = s1
    s2 = s2
    s3 = s3
    Clients = {c1, c2, c3}
    Names = {"a", "b"}
    Servers = {s1, s2, s3}
    ReplicaNum = 1
    MaxSpaces = 3
    MaxPids = 4
    Settings <- AllSettings
SYMMETRY ClientSymmetry
INVARIANTS UniqueNames EnabledHosted MembersHosted NothingLeft
PROPERTIES DeletedStays UpdatesKeep CleanSafe
CHECK_DEADLOCK FALSE
