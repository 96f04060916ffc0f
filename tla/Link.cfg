SPECIFICATION FairSpec
CONSTANTS
    Calls = {r1, r2}
    MaxReconnectAttempts = 2
    Uses = {"restart while closing", "restart while draining", "start from a listener"}
CHECK_DEADLOCK FALSE
INVARIANTS
    TypeOK
    OneWayUp
    KeepsTrying
    WritesOnAcceptedLink
    NoStrandedCalls
    ToldWhenDown
PROPERTIES
    StoppedStaysDown
    ReadyTellsTruth
    DeadHubFailsCalls
    ComesBack
