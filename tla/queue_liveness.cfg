\* An outbox queue under fairness: two rows, two consumers, one claim at a time, a
\* candidate window of one. MaxClock is never reached: Tick stops by itself.
SPECIFICATION FairSpec
CONSTANTS
    LeaseSeconds = 1
    MaxAttempts = 2
    RetryDelay <- DefaultDelay
    Lifecycle = FALSE
    Ids = {1, 2}
    Priority <- SamePriority
    Consumers = {c1, c2}
    Limit = 1
    Window = 1
    Schedules = {0}
    MaxClock = 40
    LastRenewal = 1
    MaxCrashes = 1
    MaxRevivals = 0
    SlowScan = FALSE
PROPERTIES
    EverythingSettles
CHECK_DEADLOCK FALSE
