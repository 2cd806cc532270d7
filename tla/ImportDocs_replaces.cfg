SPECIFICATION Spec
CHECK_DEADLOCK FALSE
CONSTANTS
    heading = heading
    link = link
    text = text
    title1 = title1
    title2 = title2
    Repos <- MCRepos
    Documents <- MCDocuments
    OldFiles <- MCOldFiles
    Titles <- MCTitles
    Heading = heading
    Links <- MCLinks
    Texts <- MCTexts
    Missing = Missing
    MaxEvents = 3
INVARIANT
    ImportReplaces
