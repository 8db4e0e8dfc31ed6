\* A model stream that ends after a text delta without an effective completion.
SPECIFICATION Spec
CONSTANTS
    Entries = {"model"}
    NInputs = 1
    MaxCalls = 1
    MaxSteps = 1
    MaxRounds = 2
    Attempts = 2
    RetryPartial = FALSE
    TokenLimit = 3
    Estimates = {1}
    StepsUsed = 0
    RoundsUsed = 0
    TokensUsed = 0
    StopSources = {}
    MaxReports = 1
    MaxFaults = 0
INVARIANTS
    PartialOutputNotRetried
CHECK_DEADLOCK FALSE
