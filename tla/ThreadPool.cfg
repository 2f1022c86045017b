CONSTANTS
    NumThreads = 3
    Tasks = {t1, t2, t3, t4}
    NoTask = NoTask
SPECIFICATION FairSpec
INVARIANTS
    NoDataRace
    JoinedAll
    WorkConserving
    RunOnce
    IInv
PROPERTIES
    NoStartAfterKill
    ImplementsTaskPool
    EveryTaskFinishes
    ImplementsFairTaskPool
