CONSTANTS
    Keys = {1, 9, 20, 33}
    Values = {v1, v2}
    NoKey = NoKey
    InitialBuckets = {1, 2}
    KeyBits = 8
    IntBits = 5
    MaxElements = 4
SPECIFICATION Spec
INVARIANT
    FindsStoredKeys
CHECK_DEADLOCK FALSE
