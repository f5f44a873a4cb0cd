SPECIFICATION Spec
CONSTANTS
    s1 = s1
    Scans = {s1}
    NoScan = NoScan
    TargetOf <- OneTarget
    MAX_RUNNING = 1
    MAX_SCAN_WORKERS = 1
    MAX_ACTIVE_LOOKUPS = 1
    WaveSize = 1
    MaxWaves = 2
    MaxFaults = 2
    MaxCrashes = 2
    Environment = {"start", "start_or_join", "run", "keep", "stop", "delete"}
INVARIANTS
    GivenUpRowReported
    LastEventIsRow
PROPERTIES
    ImplementsLife
