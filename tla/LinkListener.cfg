SPECIFICATION FairSpec
CONSTANTS
    Calls = {r1}
    MaxReconnectAttempts = 1
    Uses = {"stop from a listener"}
CHECK_DEADLOCK FALSE
PROPERTIES
    StoppedStaysDown
