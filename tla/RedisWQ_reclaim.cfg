SPECIFICATION FairSpec
CONSTANTS
    apple = apple
    banana = banana
    cherry = cherry
    w1 = w1
    w2 = w2
    None = None
    Items = {apple, banana}
    Fill <- Fill2
    Workers = {w1, w2}
    MaxCrashes = 1
PROPERTIES
    ExpiredLeaseIsReclaimed
\* the Job is over when every worker has exited
CHECK_DEADLOCK FALSE
