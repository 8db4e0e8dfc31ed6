\* Tool calls and tool results on two targets, with batches outside the transcript.
SPECIFICATION Spec
CONSTANTS
    a = a
    b = b
    c1 = c1
    c2 = c2
    u1 = u1
    r1 = r1
    None = None
    Runs = {r1}
    Steps = {1}
    Targets = {t1, t2}
    Attempts = {1}
    OpIds = {o1, o2, o3}
    Chunks = {a, b}
    Texts <- Nothing
    Calls = {c1, c2, u1}
    UnrecordedCalls = {u1}
    Batches <- SomeBatches
    ResultLists <- SomeResults
    ForeignReceipts <- Nothing
    ForeignBatches <- MadeUpBatches
    Finals = {}
    MaxSeq = 3
    MaxFaults = 0
INVARIANTS
    HistoryWellFormed
    ReceiptsResolve
    ResultsFollowCalls
    WritesAreWhole
SYMMETRY SymmetricTargets
CHECK_DEADLOCK FALSE
