CONSTANTS
    Clients = {c1, c2}
    NumThreads = 1
    Fds = {3, 4, 5}
    Kinds = {"part", "keep", "close"}
    MaxSends = 3
    Listening = Listening
    None = None
SPECIFICATION FairSpec
INVARIANTS
    AnswersInOrder
PROPERTIES
    ServedToTheEnd
CHECK_DEADLOCK FALSE
