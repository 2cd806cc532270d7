SPECIFICATION MCSpec
CONSTANTS
    concepts = concepts
    workloads = workloads
    pods = pods
    overview = overview
    Containers = {concepts, workloads}
    Links = {pods, overview}
    Within <- Tree
    HackDelay = 1
    Duration = 12
    YahTime = 20
    MaxClicks = 3
    Pages <- MCPages
    Tables <- MCTables
    PagesOf <- MCPagesOf
    Urls <- MCUrls
    Contents <- MCContents
    SectionId <- MCSectionId
    Fragments = {"setup", "clean-up", "section-2", "moved"}
    NoFragment = ""
    MaxLinks = 3
    MaxShows = 4
    MaxDismissals = 3
INVARIANTS
    TypeOK
    SettlesUnlessEarly
    MenusComplete
    PartnersPlaced
    RedirectsEnd
    StandsAtSection
    VideoSettles
PROPERTIES
    MovingEnds
\* a reader may stop clicking, and the other scripts end
CHECK_DEADLOCK FALSE
