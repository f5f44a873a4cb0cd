SPECIFICATION FairSpec
CONSTANTS
    Tasks <- FourTasks
    Order <- FourInOrder
    Deps <- JoinDeps
    Units <- JoinUnits
    Resources <- JoinFile
    RateKey <- JoinProvider
    NoKey = NoKey
    MaxRetries <- JoinRetry
    max_concurrency = 2
    max_total_resource_units = 4
    MAX_DEPENDENCY_OUTPUT = 2
    MAX_RUN_OUTPUT = 3
    MaxOutput = 2
    HasSink = TRUE
    MayStop = TRUE
    MaxCrashes = 2
INVARIANTS
    LimitsKept
    DependenciesFirst
    OwnCheckpointAccepted
    TerminationTrue
PROPERTIES
    SavedSuccessKept
    Spaced
    RunsEnd
