SPECIFICATION MCSpec
CONSTANTS
    TocDelay = 10
    OnDelay = 1
    HideDelay = 30
    Transition = 30
    MaxEvents = 4
    kubectl = kubectl
    curl = curl
    none = none
    N = 7
    Parent <- PageParent
    Tabs = {kubectl, curl}
    FirstTab = kubectl
    NoTab = none
    Top <- PageTop
    Bottom <- PageBottom
    Offset = 1
    MaxMoves = 4
INVARIANTS
    NavTypeOK
    MenuNeverStuck
    ListensWhileOpen
    HeaderReturns
    TypeOK
    OneUnfolded
    MarkedIsVisible
    FollowsUnlessShifted
PROPERTIES
    SidebarFollows
\* a reader may stop
CHECK_DEADLOCK FALSE
