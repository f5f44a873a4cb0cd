SPECIFICATION Spec
CONSTANTS
    Targets <- Lookups
    Kind <- LookupKind
    Entities <- Findings
    Expands <- Followed
    EchoOf <- Echo
    Seeds <- SeedLists
    MaxFound = 2
    MAX_BATCH = 2
    max_generations = 1
    max_dispatches = 4
    max_entities = 4
    max_frontier_per_generation = 3
CHECK_DEADLOCK FALSE
INVARIANTS
    DispatchesKept
    FindingsKept
    KindsInTurn
PROPERTIES
    NoneAfterStop
    StopReported
