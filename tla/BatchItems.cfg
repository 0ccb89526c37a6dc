CONSTANTS
    Items = {i1, i2}
    Workers = {w1}
    NoWorker = NoWorker
    Cap = 1
    MaxAttempts = 1
    MaxSeq = 2
    Surfaces = {"inline"}
    Windows = {"open"}
    ReportCosts = {"billed"}
SPECIFICATION Spec
SYMMETRY Symmetry
CHECK_DEADLOCK FALSE
INVARIANTS
    CountsMatchItems
    LiveWithinCap
    FinalizedIsComplete
PROPERTIES
    ResultsNeverChange
    KeepsPromise
