SPECIFICATION FairSpec
CONSTANTS
    apple = apple
    banana = banana
    cherry = cherry
    w1 = w1
    w2 = w2
    None = None
    Items = {apple, banana, cherry}
    Fill <- Fill3
    Workers = {w1, w2}
    MaxCrashes = 2
INVARIANTS
    TypeOK
    ExitMeansDone
    WorkedAtMostOnce
    NothingLost
    DeletesOwnLease
PROPERTIES
    QueueSpec
    DrainsOrOrphans
\* the Job is over when every worker has exited
CHECK_DEADLOCK FALSE
