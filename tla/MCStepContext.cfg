\* Two prepares over every short history, with writers in between.
SPECIFICATION Spec
CONSTANTS
    None = None
    Bodies <- AllBodies
    Strategies = {"trim", "summarize"}
    KeepRecent = 1
    SummarySizes = {1, 3}
    MaxPrompt = 4
    ReservedOutput = 1
    SchemaTokens <- SomeSchemas
    ContributedSize <- SomeContributions
    MaxWrites = 4
    MaxPrepares = 2
INVARIANTS
    TypeOK
    SnapshotsCoexisted
    PairingExact
    ViewWellPaired
    OldestDroppedFirst
    ProjectionFits
    RefusedOnlyWhenRequired
CHECK_DEADLOCK FALSE
