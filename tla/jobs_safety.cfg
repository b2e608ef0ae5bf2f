\* One job, two workers, two attempts and three operator commands of any kind, a stop
\* or death and a database error. A lease outlasts the worker timeout, so recovery
\* takes live leases too.
SPECIFICATION Spec
CONSTANTS
    LeaseSeconds = 2
    MaxAttempts = 2
    RetryDelay <- DefaultDelay
    Lifecycle = TRUE
    Ids = {1}
    Priority <- SamePriority
    queue = queue
    key = key
    NoKey = NoKey
    Queue <- OneQueue
    ConcurrencyKey <- NoKeys
    ConcurrencyLimit <- LimitOne
    Workers = {w1, w2}
    WorkerTimeout = 1
    Limit = 1
    Threads = 1
    Window = 2
    Commands = {"pause", "resume", "discard", "reschedule", "cancel", "retry", "prune"}
    SlowWorkers = FALSE
    MaxClock = 3
    MaxRenewals = 1
    MaxCommands = 3
    MaxExits = 1
    MaxBusy = 1
SYMMETRY WorkerSymmetry
INVARIANTS
    TypeOK
    OwnerIsHolder
    RunningIsNotBlocked
    OutcomesAgree
PROPERTIES
    LeaseEndsRightly
CHECK_DEADLOCK FALSE
