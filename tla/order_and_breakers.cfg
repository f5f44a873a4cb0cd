SPECIFICATION BothSpec
CONSTANTS
    h1 = h1
    h2 = h2
    h3 = h3
    f1 = f1
    f2 = f2
    Hosts = {h1, h2, h3}
    Fetches = {f1, f2}
    FAILURE_THRESHOLD = 2
    COOLDOWN_SECS = 1
    MAX_BREAKER_HOSTS = 2
    RetryAfters = {0, 2}
    MaxFailures = 2
    MaxTime = 2
    N = 3
    Unknown = {0}
SYMMETRY Symmetry
INVARIANTS
    Counted
    DependenciesOrdered
    CycleFound
    BreakersKept
PROPERTIES
    QuotaHeld
