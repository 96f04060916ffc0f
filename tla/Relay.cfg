SPECIFICATION FairSpec
CONSTANTS
    Calls = {c1, c2}
    TargetSlots = 1
    ServerSlots = 1
    MaxDrops = 1
INVARIANTS
    TypeOK
    CancelStops
PROPERTIES
    KeepsPromise
    Answered
CHECK_DEADLOCK FALSE
