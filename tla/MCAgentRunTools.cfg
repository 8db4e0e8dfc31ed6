\* Every entry, two attempts, batches of two calls, reports, external work, two failing writes.
SPECIFICATION FairSpec
CONSTANTS
    Entries = {"model", "tools", "completed"}
    NInputs = 1
    MaxCalls = 2
    MaxSteps = 1
    MaxRounds = 1
    Attempts = 2
    RetryPartial = FALSE
    TokenLimit = 3
    Estimates = {1}
    StepsUsed = 0
    RoundsUsed = 0
    TokensUsed = 0
    StopSources = {"user_stop"}
    MaxReports = 1
    MaxFaults = 2
INVARIANTS
    TypeOK
    ExternalWorkReported
    CancelReasonReal
PROPERTIES
    KeepsPromise
    StopHaltsEffects
    FaultHaltsRun
    StopEndsRun
CHECK_DEADLOCK FALSE
