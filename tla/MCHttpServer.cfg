CONSTANTS
    Clients = {c1, c2, c3}
    NumThreads = 2
    Fds = {3, 4, 5}
    Kinds = {"close"}
    MaxSends = 2
    Listening = Listening
    None = None
SPECIFICATION Spec
SYMMETRY ClientSymmetry
INVARIANTS
    IInv
    NoLeak
    CleanReturn
CHECK_DEADLOCK FALSE
