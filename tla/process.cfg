SPECIFICATION ProcessSpec
CONSTANTS
    Sessions = {"p", "q"}
    MaxNesting = 2
    MaxEdits = 3
    MaxEffects = 2
    MaxChanges = 4
    Delivery <- OutboxOfEvents
    Priorities = {0, 1}
    Delays = {0, 1}
    Stoppers = {"main", "trap"}
    MaxItems = 3
    MaxShutdowns = 2
    Requests = {"r1", "r2"}
    ExpireAfter = 1
    MaxSids = 3
    MaxTime = 2
    Tasks = {"hourly", "often", "broken"}
    Order <- ThirdIsBroken
    Interval <- Intervals
    BrokenTasks = {"broken"}
    Schedulers = {"s1", "s2"}
    LastSecond = 1
    MaxFailures = 1
    CacheKeys = {"k", "l"}
    Clients = {"c1", "c2"}
    MaxSize = 1
    ExpiresIn = 1
    MaxVersion = 1
    MaxMoment = 1
    MaxAccesses = 6
INVARIANTS
    ProcessTypeOK
    EffectsFollowTheData
    CleanMeansStored
    SlotsServedOnce
    StaleIsExplained
PROPERTIES
    NothingOverwritten
    AcceptedIsPerformed
    GoneForGood
CHECK_DEADLOCK FALSE
