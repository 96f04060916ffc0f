SPECIFICATION Spec
CONSTANTS
    None = None
    Sockets = {w1, w2, w3}
    Kinds = {k1}
    Topics = {t}
    MaxPendingSockets = 2
    HelloTimer = TRUE
    Gated = TRUE
    MaxLookups = 2
    MaxLane = 1
SYMMETRY SocketSymmetry
CHECK_DEADLOCK FALSE
INVARIANTS
    TypeOK
    PendingTracked
    NoOrphans
    StopIsFinal
