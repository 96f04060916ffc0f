SPECIFICATION Spec
CONSTANTS
    Peers = {p}
    MaxTime = 1
    MaxConnects = 3
    MaxStatuses = 3
    MaxDrops = 0
INVARIANTS
    LatestStatusArrives
CHECK_DEADLOCK FALSE
