\* Two jobs of a key with limit one, and two workers that count before either claims.
SPECIFICATION Spec
CONSTANTS
    LeaseSeconds = 1
    MaxAttempts = 1
    RetryDelay <- DefaultDelay
    Lifecycle = TRUE
    Ids = {1, 2}
    Priority <- SamePriority
    queue = queue
    key = key
    NoKey = NoKey
    Queue <- OneQueue
    ConcurrencyKey <- SharedKey
    ConcurrencyLimit <- LimitOne
    Workers = {w1, w2}
    WorkerTimeout = 2
    Limit = 1
    Threads = 1
    Window = 2
    Commands = {}
    SlowWorkers = FALSE
    MaxClock = 3
    MaxRenewals = 1
    MaxCommands = 1
    MaxExits = 0
    MaxBusy = 0
SYMMETRY WorkerSymmetry
INVARIANTS
    ConcurrencyLimited
CHECK_DEADLOCK FALSE
