SPECIFICATION MCSpec
CONSTANTS
    Checkpoints = 2
    CallCheckpoints = 2
    Slots = {1, 2}
    Ranks = {0, 1}
    Patience = 1
    Sticky = {u1}
    Drifter = Drifter
    PoolClients = {r1, r2}
    Visitors = {c1, c2}
    Models = {m1, m2}
    NoModel = NoModel
    Limits = {0, 1, 2}
    OwnCap = 1
    Accounts = {1, 2}
    Deleters = {d1, d2}
    Resumers = {e1}
    Writers = {w1, w2}
    Nil = Nil
    Servers = {p1, p2}
    Viewers = {v1, v2}
    MaxAttempts = 2
    MaxDeletes = 2
    r1 = r1
    r2 = r2
    u1 = u1
    d1 = d1
    d2 = d2
    p1 = p1
    p2 = p2
    v1 = v1
    v2 = v2
CHECK_DEADLOCK FALSE
INVARIANTS
    CapacityHeldWhileOpen
    NothingLeftRunning
    HeldByRequests
    NoRowOfErased
    ResumedOnlyIfOvertaken
    LockHoldersMove
    NothingErasedServed
PROPERTIES
    StreamRaceEnds
    LastKeyGoesLast
