SPECIFICATION Spec
CONSTANTS
    s1 = s1
    s2 = s2
    r = r
    d = d
    NoKey = NoKey
    Items <- MCItems
    Size <- MCSize
    Key <- MCKey
    Unserializable = {}
    Rpc = {r}
    FeatureBound = {d}
    MaxOutboxBytes = 4
PROPERTIES
    AcceptedSurvives
CHECK_DEADLOCK FALSE
