CONSTANTS
    Requests = {r1, r2, r3}
    Costs = {1, 2}
    Estimate = 2
    Quota = 4
    Window = 1
    Timeout = 1
SPECIFICATION Spec
INVARIANTS
    GatesMissNothing
    QuotaHeld
PROPERTIES
    LedgerKeepsPromise
    EveryCostTried
