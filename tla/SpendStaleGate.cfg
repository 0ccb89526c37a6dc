CONSTANTS
    Requests = {r1, r2}
    Costs = {1}
    Estimate = 1
    Quota = 2
    Window = 1
    Timeout = 3
SPECIFICATION Spec
INVARIANTS
    GatesMissNothing
