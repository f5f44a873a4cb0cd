SPECIFICATION Spec
CONSTANTS
    p1 = p1
    p2 = p2
    p3 = p3
    c1 = c1
    c2 = c2
    c3 = c3
    c4 = c4
    Procs = {p1, p2, p3}
    Pid <- ReusedPid
    Unstamped = {}
    Sees <- AllSeen
    Clients = {c1, c2, c3, c4}
    Of <- Threads
    Main <- MainThread
    Scans = {s1, s2, s3}
    MAX_SCANS = 1
    MaxCalls = 2
    NoRow = NoRow
    NoScan = NoScan
    NoProc = NoProc
SYMMETRY ScanIds
ACTION_CONSTRAINT LateThird
CHECK_DEADLOCK FALSE
INVARIANTS
    StoreKept
