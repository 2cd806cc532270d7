SPECIFICATION Spec
CONSTANTS
    storage = storage
    tool = tool
    fundamental = fundamental
    pv = pv
    kubectl = kubectl
    pod = pod
    cncf = cncf
    All = All
    NoneKey = NoneKey
    Unknown = Unknown
    Tags = {storage, tool, fundamental}
    Default = fundamental
    Terms = {pv, kubectl, pod, cncf}
    TagsOf <- MCTagsOf
    MaxHistory = 2
INVARIANTS
    TypeOK
    VisibleIffActive
PROPERTIES
    ClicksAreBookmarked
