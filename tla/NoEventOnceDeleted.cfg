CONSTANTS
    Items = {i1}
    Workers = {w1}
    NoWorker = NoWorker
    Cap = 1
    MaxAttempts = 1
    MaxSeq = 1
    Surfaces = {"inline"}
    Windows = {"none"}
    ReportCosts = {"billed"}
SPECIFICATION Spec
CHECK_DEADLOCK FALSE
INVARIANTS
    NoEventOnceDeleted
