SPECIFICATION FairSpec
CONSTANTS
    Workers = {w1, w2, w3}
    Producers = {p1, p2}
    Tasks = {1, 2, 3}
    minThreads = 1
    maxThreads = 2
    initialThreads = 1
    SizeMax = 8
CHECK_DEADLOCK FALSE
INVARIANT ThreadLimits
PROPERTY TasksRun
PROPERTY DtorReturns
