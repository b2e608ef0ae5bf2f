\* A cancellation that reads its job before, and writes it after, a worker claims it.
SPECIFICATION Spec
CONSTANTS
    LeaseSeconds = 1
    MaxAttempts = 1
    RetryDelay <- DefaultDelay
    Lifecycle = TRUE
    Ids = {1}
    Priority <- SamePriority
    queue = queue
    key = key
    NoKey = NoKey
    Queue <- OneQueue
    ConcurrencyKey <- NoKeys
    ConcurrencyLimit <- LimitOne
    Workers = {w1}
    WorkerTimeout = 2
    Limit = 1
    Threads = 1
    Window = 1
    Commands = {"cancel"}
    SlowWorkers = FALSE
    MaxClock = 3
    MaxRenewals = 1
    MaxCommands = 1
    MaxExits = 0
    MaxBusy = 0
INVARIANTS
    EndsOnce
CHECK_DEADLOCK FALSE
