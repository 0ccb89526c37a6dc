CONSTANTS
    Items = {i1}
    Workers = {w1, w2}
    NoWorker = NoWorker
    Cap = 1
    MaxAttempts = 2
    MaxSeq = 2
    Surfaces = {"inline", "file"}
    Windows = {"none", "open"}
    ReportCosts = {"billed", "not_billed", "unknown"}
SPECIFICATION FairSpec
CHECK_DEADLOCK FALSE
INVARIANTS
    NoCostLost
PROPERTIES
    WindowedBatchEnds
    ClosedBatchEnds
