SPECIFICATION MCSpec
CONSTANTS Processes = {p1, p2} Nobody = nobody Lines = 2 MaxFaults = 1
 Senders = {p1, p2} NoSender = nobody MaxAttempts = 2 MaxStalls = 1
CHECK_DEADLOCK FALSE
INVARIANTS WholeFileRuns ManifestIsWhole
PROPERTIES EventKeepsPromise WorkEnds EventEnds
