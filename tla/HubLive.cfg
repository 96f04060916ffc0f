SPECIFICATION FairSpec
CONSTANTS
    None = None
    Sockets = {w1, w2}
    Kinds = {k1, k2}
    Topics = {t}
    MaxPendingSockets = 1
    HelloTimer = TRUE
    Gated = FALSE
    MaxLookups = 2
    MaxLane = 0
CHECK_DEADLOCK FALSE
INVARIANTS
    OneSocketPerKind
PROPERTIES
    VanishedPeerForgotten
