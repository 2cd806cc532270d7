SPECIFICATION Spec
CONSTANTS
    concepts = concepts
    workloads = workloads
    pods = pods
    overview = overview
    Containers = {concepts, workloads}
    Links = {pods, overview}
    Within <- Tree
    HackDelay = 1
    Duration = 12
    YahTime = 20
    MaxClicks = 2
INVARIANTS
    ClosedHasNoHeight
\* a reader may stop clicking
CHECK_DEADLOCK FALSE
