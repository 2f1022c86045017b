CONSTANTS
    DocTables <- MCDocTables
    MemIndexes <- MCMemIndexes
SPECIFICATION Spec
INVARIANT
    HeaderLast
CHECK_DEADLOCK FALSE
