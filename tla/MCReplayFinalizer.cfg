SPECIFICATION FairSpec
CONSTANTS
    c1 = c1
    c2 = c2
    t1 = t1
    t2 = t2
    Callers <- MCCallers
    Tasks <- MCTasks
    MaxStarts = 3
INVARIANTS
    TypeOK
    PendingIsExact
    FinalizedOnce
PROPERTIES
    TakenIsFinalized
    ShutdownEndsWorker
CHECK_DEADLOCK FALSE
