\* Two job hand-offs (one subscriber, the adapter), one worker that may die and be replaced.
\* MaxClock is never reached: Tick stops by itself.
SPECIFICATION FairRelaySpec
CONSTANTS
    LeaseSeconds = 1
    MaxAttempts = 2
    RetryDelay <- DefaultDelay
    Lifecycle = FALSE
    Ids = {1, 2}
    Priority <- SamePriority
    Consumers = {c1}
    Limit = 1
    Window = 1
    Schedules = {0}
    MaxClock = 40
    LastRenewal = 0
    MaxCrashes = 1
    MaxRevivals = 0
    SlowScan = FALSE
    Subscribers = 1
PROPERTIES
    DeliveredOrFailed
CHECK_DEADLOCK FALSE
