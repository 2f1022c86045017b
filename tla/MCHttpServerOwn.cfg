CONSTANTS
    Clients = {c1, c2}
    NumThreads = 2
    Fds = {3, 4, 5}
    Kinds = {"keep", "close"}
    MaxSends = 2
    Listening = Listening
    None = None
SPECIFICATION Spec
INVARIANT
    OwnClient
CHECK_DEADLOCK FALSE
