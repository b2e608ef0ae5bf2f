\* Fairness, with a worker that dies, a database error and a cancellation. MaxClock is
\* never reached: Tick stops by itself.
SPECIFICATION FairSpec
CONSTANTS
    LeaseSeconds = 1
    MaxAttempts = 2
    RetryDelay <- DefaultDelay
    Lifecycle = TRUE
    Ids = {1}
    Priority <- SamePriority
    queue = queue
    key = key
    NoKey = NoKey
    Queue <- OneQueue
    ConcurrencyKey <- NoKeys
    ConcurrencyLimit <- LimitOne
    Workers = {w1, w2}
    WorkerTimeout = 2
    Limit = 1
    Threads = 1
    Window = 1
    Commands = {"cancel"}
    SlowWorkers = FALSE
    MaxClock = 40
    MaxRenewals = 1
    MaxCommands = 1
    MaxExits = 1
    MaxBusy = 1
PROPERTIES
    JobsSettle
CHECK_DEADLOCK FALSE
