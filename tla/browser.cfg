SPECIFICATION BrowserSpec
CONSTANTS
    Urls = {"a", "b"}
    Histories <- TwoEntries
    CacheSize = 1
    CacheTTL = 1
    MaxEvents = 3
    MaxDocuments = 1
    Keys = {"a", "b", "c", "d"}
    Pages <- SmallPages
    MaxWrites = 2
    MaxDepth = 24
    Elements = {"form", "chart"}
    Importing = {"chart"}
    MaxChanges = 3
    MaxMounts = 2
    MaxProduced = 4
    MaxConnections = 3
INVARIANTS
    BrowserTypeOK
    LocationAgrees
    TakenOnce
    FreshPages
    StrayRequestsAreExplained
    Consistent
    RegistryAgrees
    BoundOnce
    BoundIffThere
    NothingMissed
PROPERTIES
    ShowsLatest
    LoadingEnds
    WritesReturn
CHECK_DEADLOCK FALSE
