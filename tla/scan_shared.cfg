SPECIFICATION Spec
CONSTANTS
    s1 = s1
    s2 = s2
    Scans = {s1, s2}
    NoScan = NoScan
    TargetOf <- OneTarget
    MAX_RUNNING = 1
    MAX_SCAN_WORKERS = 1
    MAX_ACTIVE_LOOKUPS = 1
    WaveSize = 2
    MaxWaves = 1
    MaxFaults = 1
    MaxCrashes = 0
    Environment = {"start", "start_or_join", "run", "stop", "spawn fails", "lookup panics"}
SYMMETRY Symmetry
INVARIANTS
    PlacesCounted
    AdmissionCounted
    WorkersKept
