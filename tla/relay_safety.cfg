\* One event with two subscribers, two relays, two attempts, a death and a revival.
SPECIFICATION RelaySpec
CONSTANTS
    LeaseSeconds = 1
    MaxAttempts = 2
    RetryDelay <- DefaultDelay
    Lifecycle = FALSE
    Ids = {1}
    Priority <- SamePriority
    Consumers = {c1, c2}
    Limit = 1
    Window = 1
    Schedules = {0}
    MaxClock = 40
    LastRenewal = 0
    MaxCrashes = 1
    MaxRevivals = 1
    SlowScan = FALSE
    Subscribers = 2
SYMMETRY ConsumerSymmetry
INVARIANTS
    NothingLost
    RedeliveryIsPaidFor
    NobodyIsSkipped
PROPERTIES
    RelaysAreConsumers
CHECK_DEADLOCK FALSE
