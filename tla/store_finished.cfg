SPECIFICATION Spec
CONSTANTS
    p1 = p1
    p2 = p2
    p3 = p3
    c1 = c1
    c2 = c2
    c3 = c3
    c4 = c4
    Procs = {p1, p2}
    Pid <- PidsOfTwo
    Unstamped = {}
    Sees <- AllSeen
    Clients = {c1, c2, c3}
    Of <- ThreadsOfTwo
    Main <- MainOfTwo
    Scans = {s1, s2}
    MAX_SCANS = 1
    MaxCalls = 2
    NoRow = NoRow
    NoScan = NoScan
    NoProc = NoProc
SYMMETRY ScanIds
CHECK_DEADLOCK FALSE
PROPERTIES
    FinishedKept
