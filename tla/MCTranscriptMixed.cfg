\* Every method together: two attempts of a step, writes that fail, finalization.
SPECIFICATION Spec
CONSTANTS
    a = a
    b = b
    c1 = c1
    c2 = c2
    u1 = u1
    r1 = r1
    None = None
    Runs = {r1}
    Steps = {1}
    Targets = {t1}
    Attempts = {1, 2}
    OpIds = {o1, o2}
    Chunks = {a, b}
    Texts <- TwoTexts
    Calls = {c1, c2, u1}
    UnrecordedCalls = {u1}
    Batches <- OneBatch
    ResultLists <- OneResult
    ForeignReceipts <- MadeUpReceipts
    ForeignBatches <- MadeUpBatches
    Finals = {"succeeded", "failed"}
    MaxSeq = 3
    MaxFaults = 1
INVARIANTS
    TypeOK
    AttemptsIsolated
    TextIsCommitted
PROPERTIES
    HistoryAppendOnly
    CommittedOpsStable
    VersionCoversHistory
SYMMETRY SymmetricOps
CHECK_DEADLOCK FALSE
