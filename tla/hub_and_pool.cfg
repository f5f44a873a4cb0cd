SPECIFICATION BothSpec
CONSTANTS
    Clients = {c1, c2}
    CAPACITY = 2
    MaxEvents = 3
    Window = 2
    InitialLimits = {0, 2}
    PlanLimits = {1}
    RetryAfters = {1, 3}
    MAX_RETRY_AFTER = 2
    JobCount = 3
    Keyed = {1, 3}
    MAX_PARALLEL_JOBS = 2
    max_429_retries = 1
    max_retry_after = 1
    MaxPlanChanges = 1
CHECK_DEADLOCK FALSE
INVARIANTS
    StreamTrue
    JobsKept
PROPERTIES
    Delivered
    GrantsKept
    CallReturns
