SPECIFICATION FairSpec
CONSTANTS
    s1 = s1
    s2 = s2
    Scans = {s1, s2}
    NoScan = NoScan
    TargetOf <- OneTarget
    MAX_RUNNING = 1
    MAX_SCAN_WORKERS = 2
    MAX_ACTIVE_LOOKUPS = 1
    WaveSize = 1
    MaxWaves = 1
    MaxFaults = 1
    MaxCrashes = 0
    Environment = {"start", "start_or_join", "stop"}
INVARIANTS
    OneScanPerRequest
PROPERTIES
    ScansSettle
