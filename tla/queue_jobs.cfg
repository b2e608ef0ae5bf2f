\* The jobs table's queue: two rows, two consumers, batches of two.
SPECIFICATION Spec
CONSTANTS
    LeaseSeconds = 1
    MaxAttempts = 2
    RetryDelay <- DefaultDelay
    Lifecycle = TRUE
    Ids = {1, 2}
    Priority <- LaterFirst
    Consumers = {c1, c2}
    Limit = 2
    Window = 2
    Schedules = {0, 1}
    MaxClock = 3
    LastRenewal = 3
    MaxCrashes = 1
    MaxRevivals = 1
    SlowScan = TRUE
SYMMETRY ConsumerSymmetry
INVARIANTS
    TypeOK
    OneLeaseHolder
    OutcomesExclusive
    FailReadStillTrue
PROPERTIES
    NoStolenLease
    KeepsPromise
CHECK_DEADLOCK FALSE
