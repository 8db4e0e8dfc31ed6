\* A consumer that closes while the loop still runs.
SPECIFICATION Spec
CONSTANTS
    Entries = {"model"}
    NInputs = 1
    MaxCalls = 1
    MaxSteps = 1
    MaxRounds = 2
    Attempts = 2
    RetryPartial = FALSE
    TokenLimit = 3
    Estimates = {1}
    StepsUsed = 0
    RoundsUsed = 0
    TokensUsed = 0
    StopSources = {"user_stop"}
    MaxReports = 1
    MaxFaults = 0
INVARIANTS
    SuccessMeansFinished
CHECK_DEADLOCK FALSE
