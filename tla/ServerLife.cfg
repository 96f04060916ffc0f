SPECIFICATION FairSpec
CONSTANTS
    Sockets = {w1, w2}
CHECK_DEADLOCK FALSE
INVARIANTS
    NothingLeftBehind
    HookRunsLast
PROPERTIES
    StopSettles
    ComesDown
