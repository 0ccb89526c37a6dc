CONSTANTS
    Tasks = {t1, t2, t3, t4}
    InitialLimit = 1
    MaxLimit = 3
    ProbeInterval = 2
    Dispatches = {d1, d2, d3}
    HoldLimits = {1, 2}
    MaxEpoch = 2
SPECIFICATION MCSpec
INVARIANTS
    
    PlacesConserved
PROPERTIES
    GrantsWithinLimit
    FirstComeFirstServed
    WaitsEnd
    OverLimitOnlyByTimeout
