SPECIFICATION Spec
CONSTANTS
    p1 = p1
    p2 = p2
    p3 = p3
    c1 = c1
    c2 = c2
    c3 = c3
    c4 = c4
    Procs = {p1, p2, p3}
    Pid <- ReusedPid
    Unstamped = {p2}
    Sees <- HiddenFrom2
    Clients = {c1, c2, c3, c4}
    Of <- Threads
    Main <- MainThread
    Scans = {s1}
    MAX_SCANS = 1
    MaxCalls = 4
    NoRow = NoRow
    NoScan = NoScan
    NoProc = NoProc
SYMMETRY ScanIds
CHECK_DEADLOCK FALSE
INVARIANTS
    LiveUntouched
    BackOnlyEnded
PROPERTIES
    ReadsTrue
