CONSTANTS
    Versions <- MCVersions
    Texts <- MCTexts
    Parsable <- MCParsable
    Wanted <- MCWanted
    Projects <- AllProjects
    Text <- AllText
    SourcesOf <- AllSourcesOf
    Sources <- AllSources
    Git <- OtherGit
    Marked <- AllMarked
    Offers <- AllOffers
    Concurrent = FALSE
    MaxKills = 1
    MaxChanges = 1
SPECIFICATION FairSpec
INVARIANTS
    TypeOK
    RecordsAreWhole
    DownloadedOnce
PROPERTIES
    UrlIsRegistered
    
