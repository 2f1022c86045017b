CONSTANTS
    tolower <- MCtolower
    NUL = "0"
    NonASCII = "8"
    Colliding <- MCColliding
    NULL = NULL
    Exits = Exits
    Names <- MCNames
    Root = 1
    FileSystems <- MCFileSystems
    MaxLinks = 1
    MaxFds = 6
    MaxChanges = 1
    Garbage = {"b", " "}
    Input <- MCInput
    LineMax = 3
SPECIFICATION Spec
INVARIANT
    EveryWordIndexed
CHECK_DEADLOCK FALSE
