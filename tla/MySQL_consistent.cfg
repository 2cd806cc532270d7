SPECIFICATION Spec
CONSTANTS
    None = None
    Replicas = 2
    MaxWrites = 1
    MaxFaults = 1
INVARIANTS
    ServesConsistentData
\* a cluster that is up and idle may stay so
CHECK_DEADLOCK FALSE
