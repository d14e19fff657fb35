SPECIFICATION MCSpec
CONSTANTS
    n1 = n1
    n2 = n2
    p1 = p1
    p2 = p2
    p3 = p3
    p4 = p4
    sp1 = sp1
    sp2 = sp2
    sp3 = sp3
    Nodes = {n1, n2}
    Parts = {p1, p2}
    Scripts <- MCScripts
    MaxFaults = 1
    Hosts = {n1, n2}
    Spaces = {sp1, sp2, sp3}
    PartsOf <- MCPartsOf
    Replicas <- MCReplicas
    Orders <- MCOrders
    Versions = {1, 2}
    MaxLosses = 1
    MaxWaits = 1
INVARIANTS BackupsIntact ReportedIsDone
PROPERTY BackupsEnd
CHECK_DEADLOCK FALSE
