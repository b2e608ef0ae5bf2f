\* Three jobs of one concurrency key with limit one, two workers.
SPECIFICATION Spec
CONSTANTS
    LeaseSeconds = 1
    MaxAttempts = 1
    RetryDelay <- DefaultDelay
    Lifecycle = TRUE
    Ids = {1, 2, 3}
    Priority <- SamePriority
    queue = queue
    key = key
    NoKey = NoKey
    Queue <- OneQueue
    ConcurrencyKey <- SharedKey
    ConcurrencyLimit <- LimitOne
    Workers = {w1, w2}
    WorkerTimeout = 2
    Limit = 2
    Threads = 2
    Window = 3
    Commands = {}
    SlowWorkers = FALSE
    MaxClock = 3
    MaxRenewals = 1
    MaxCommands = 0
    MaxExits = 0
    MaxBusy = 0
SYMMETRY WorkerSymmetry
INVARIANTS
    OvershootBounded
CHECK_DEADLOCK FALSE
