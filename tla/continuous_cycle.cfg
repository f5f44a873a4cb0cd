SPECIFICATION Spec
CONSTANTS
    Targets = {t1}
    Configured = {t1}
    normalise_all = FALSE
    keep = 1
    MAX_ALERT_HISTORY_ENTRIES = 1
    MaxScans = 3
    MaxActs = 1
    MaxCrashes = 1
    NoTarget = NoTarget
INVARIANTS
    BaselineKept
    ComparedKept
    AlertsKept
    ReportTrue
    PreviousKept
PROPERTIES
    ReportSettles
