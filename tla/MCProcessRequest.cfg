CONSTANTS
    IndexTables <- MCIndexTables
    IndexLists <- MCIndexLists
    Queries <- MCQueries
    BufSize = 32
    MaxFds = 5
    Texts <- MCTexts
    FileNames <- MCFileNames
    Files <- MCFiles
    ContentTypes <- MCContentTypes
    FNVHash64 <- MCHash
    None = None
    Terminated = Terminated
SPECIFICATION RequestFairSpec
INVARIANTS
    TypeOK
    ReadsItsBytes
    DescriptorsKept
    AnswersExact
    RequestsUnderstood
PROPERTIES
    Responds
CHECK_DEADLOCK FALSE
