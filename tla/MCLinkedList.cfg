CONSTANTS
    p1 = p1
    p2 = p2
    p3 = p3
    Nodes = {n1, n2, n3, n4}
    NULL = NULL
    Garbage = Garbage
    Payloads <- MCPayloads
    Key <- MCKey
    NoPayload = NoPayload
SPECIFICATION FairSpec
INVARIANTS
    IInv
    Chain
PROPERTIES
    SortedStably
    ImplementsIterableList
    LoopsEnd
