SPECIFICATION MCSpec
CONSTANTS Clients = {c1, c2} Keys = {k1} NoKey = nokey NoClient = nobody
 MaxBatches = 2 MaxLines = 2
 CapChoices <- MCCapChoices
SYMMETRY MCSymmetry
CHECK_DEADLOCK FALSE
INVARIANTS KeyHeld QueuedWithinCap InputHeld ErasedIsEmpty
