SPECIFICATION FairPoolSpec
CONSTANTS
    Producers = {p1, p2}
    NumThreads = 2
    MaxQueueSize = 1
    Tasks = {f1, f2, f3}
    MaxRounds = 2
    RepeatedStop = TRUE
CHECK_DEADLOCK FALSE
INVARIANT NoAssertFails
