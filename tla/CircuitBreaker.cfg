SPECIFICATION Spec
CONSTANTS
    Callers = {c1, c2, c3}
    Nobody = Nobody
    Threshold = 2
    Cooldown = 2
    Pages = {p1}
INVARIANTS
    SingleProbe
    RecoveryIsClean
    PagedWhileRejected
PROPERTIES
    NeverLockedOut
