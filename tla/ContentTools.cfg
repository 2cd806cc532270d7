SPECIFICATION MCSpec
CONSTANTS
    heading = heading
    link = link
    text = text
    title1 = title1
    title2 = title2
    Repos <- MCRepos
    Documents <- MCDocuments
    OldFiles <- MCOldFiles
    Titles <- MCTitles
    Heading = heading
    Links <- MCLinks
    Texts <- MCTexts
    Missing = Missing
    MaxEvents = 3
    pods = pods
    labels = labels
    volumes = volumes
    secrets = secrets
    Places = {pods, labels, volumes, secrets}
    Sites <- MCSites
    NoLink = NoLink
    NoNotice = NoNotice
    MaxComplete = 2
    MaxStops = 1
INVARIANTS
    TypeOK
    PassedAreImported
    LinksFollowMoves
PROPERTIES
    TitleKept
\* maintainers may stop
CHECK_DEADLOCK FALSE
