SPECIFICATION FairSpec
CONSTANTS
    None = None
    Replicas = 3
    MaxWrites = 2
    MaxFaults = 3
INVARIANTS
    TypeOK
    ReplicaIsPrefix
    AttemptedAtMostOnce
PROPERTIES
    NeverGoesBack
    ConvergesOrNeedsRepair
\* a cluster that is up and idle may stay so
CHECK_DEADLOCK FALSE
