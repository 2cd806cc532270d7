SPECIFICATION Spec
CONSTANTS
    users = users
    contributors = contributors
    browse = browse
    dev = dev
    operator = operator
    coder = coder
    foundational = foundational
    advanced = advanced
    NoValue = NoValue
    Nothing = Nothing
    Prompt = Prompt
    Journeys = {users, contributors}
    SpecialPaths = {browse}
    PersonasOf <- MCPersonasOf
    Levels = {foundational, advanced}
    DefaultLevel = foundational
    Queries <- MCQueries
    Anchored = TRUE
    MaxEvents = 6
INVARIANTS
    TypeOK
    PageShowsChoice
    FailsOnlyBeforePath
PROPERTY
    ClickPushesParams
\* a reader may stop
CHECK_DEADLOCK FALSE
