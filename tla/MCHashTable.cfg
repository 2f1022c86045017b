CONSTANTS
    Keys = {0, 1, 9, 10, 20, 33}
    Values = {v1, v2}
    NoKey = NoKey
    InitialBuckets = {1, 2}
    KeyBits = 8
    IntBits = 5
    MaxElements = 4
SPECIFICATION FairSpec
INVARIANTS
    IInv
    Placed
    LoadBounded
PROPERTIES
    ImplementsMap
    ResizeEnds
CHECK_DEADLOCK FALSE
