SPECIFICATION FairSpec
CONSTANTS
    s1 = s1
    s2 = s2
    r = r
    d = d
    NoKey = NoKey
    Items <- MCItems
    Size <- MCSize
    Key <- MCKey
    Unserializable = {r}
    Rpc = {r}
    FeatureBound = {d}
    MaxOutboxBytes = 4
INVARIANTS
    TypeOK
    ByteAccounting
    NoStuckQueue
PROPERTIES
    NoSilentDrop
    ImplementsMailbox
    EventuallyFlushed
CHECK_DEADLOCK FALSE
