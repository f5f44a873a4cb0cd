SPECIFICATION Spec
CONSTANTS
    s1 = s1
    Scans = {s1}
    NoScan = NoScan
    TargetOf <- OneTarget
    MAX_RUNNING = 1
    MAX_SCAN_WORKERS = 1
    MAX_ACTIVE_LOOKUPS = 1
    WaveSize = 1
    MaxWaves = 1
    MaxFaults = 0
    MaxCrashes = 0
    Environment = {"start", "stop", "spawn fails"}
PROPERTIES
    EndedIsFinal
