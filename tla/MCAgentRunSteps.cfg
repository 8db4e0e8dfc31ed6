\* Several steps and attempts under budgets that a run may exhaust, partly consumed before.
SPECIFICATION Spec
CONSTANTS
    Entries = {"model", "tools"}
    NInputs = 0
    MaxCalls = 2
    MaxSteps = 3
    MaxRounds = 2
    Attempts = 2
    RetryPartial = TRUE
    TokenLimit = 4
    Estimates = {1, 2}
    StepsUsed = 1
    RoundsUsed = 0
    TokensUsed = 1
    StopSources = {}
    MaxReports = 0
    MaxFaults = 1
INVARIANTS
    InvokedOnceAfterRecord
    ModelSeesResults
    BudgetsRespected
    OneAnswerPerStep
CHECK_DEADLOCK FALSE
