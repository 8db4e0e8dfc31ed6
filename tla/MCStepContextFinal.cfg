\* What the documentation says of the final message, against trimming.
SPECIFICATION Spec
CONSTANTS
    None = None
    Bodies <- AllBodies
    Strategies = {"trim"}
    KeepRecent = 1
    SummarySizes = {1, 3}
    MaxPrompt = 4
    ReservedOutput = 1
    SchemaTokens <- SomeSchemas
    ContributedSize <- SomeContributions
    MaxWrites = 4
    MaxPrepares = 2
INVARIANTS
    FinalMessageKept
CHECK_DEADLOCK FALSE
