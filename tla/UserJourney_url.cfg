SPECIFICATION Spec
CONSTANTS
    users = users
    contributors = contributors
    browse = browse
    dev = dev
    operator = operator
    coder = coder
    foundational = foundational
    advanced = advanced
    NoValue = NoValue
    Nothing = Nothing
    Prompt = Prompt
    Journeys = {users, contributors}
    SpecialPaths = {browse}
    PersonasOf <- MCPersonasOf
    Levels = {foundational, advanced}
    DefaultLevel = foundational
    Queries <- MCNoQuery
    Anchored = TRUE
    MaxEvents = 6
PROPERTY
    UpdatesUrl
\* a reader may stop
CHECK_DEADLOCK FALSE
