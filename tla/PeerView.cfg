SPECIFICATION Spec
CONSTANTS
    Peers = {p}
    MaxTime = 1
    MaxConnects = 4
    MaxStatuses = 2
    MaxDrops = 1
INVARIANTS
    TypeOK
    PeersConverge
    StatusConverges
CHECK_DEADLOCK FALSE
