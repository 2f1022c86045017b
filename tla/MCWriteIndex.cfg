CONSTANTS
    DocTables <- MCDocTables
    MemIndexes <- MCMemIndexes
SPECIFICATION FairSpec
INVARIANTS
    IInv
    LayoutExact
    TablesFirst
    ReadsBack
PROPERTIES
    Ends
CHECK_DEADLOCK FALSE
