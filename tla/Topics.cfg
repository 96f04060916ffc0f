SPECIFICATION FairSpec
CONSTANTS
    Topics = {t}
    Handlers = {g, h}
    MaxPosts = 2
    MaxUses = 3
    MaxDrops = 1
INVARIANTS
    TypeOK
    LingersOnlyIfOffline
    DeliveredInOrder
PROPERTIES
    Resubscribes
CHECK_DEADLOCK FALSE
