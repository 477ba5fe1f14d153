SPECIFICATION FairSpec
CONSTANTS
    Workers = {w1, w2}
    Producers = {p1, p2}
    Tasks = {1, 2, 3}
    Models = {"FIXED", "CACHE"}
    Stops = TRUE
    kMaxQueueSize = 2
    kMinBatchSize = 1
    kMaxBatchSize = 2
    minThreads_ = 1
CHECK_DEADLOCK FALSE
INVARIANT WorkIsNoticed
PROPERTY TasksRun
PROPERTY StopJoins
