\* A job with a concurrency key whose worker dies after it was taken off the registry.
SPECIFICATION FairSpec
CONSTANTS
    LeaseSeconds = 1
    MaxAttempts = 2
    RetryDelay <- DefaultDelay
    Lifecycle = TRUE
    Ids = {1}
    Priority <- SamePriority
    queue = queue
    key = key
    NoKey = NoKey
    Queue <- OneQueue
    ConcurrencyKey <- SharedKey
    ConcurrencyLimit <- LimitOne
    Workers = {w1, w2}
    WorkerTimeout = 2
    Limit = 1
    Threads = 1
    Window = 1
    Commands = {}
    SlowWorkers = TRUE
    MaxClock = 5
    MaxRenewals = 1
    MaxCommands = 1
    MaxExits = 1
    MaxBusy = 0
PROPERTIES
    OrphansAreFreed
CHECK_DEADLOCK FALSE
