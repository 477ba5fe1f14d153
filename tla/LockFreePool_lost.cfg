SPECIFICATION PoolFairSpec
CONSTANTS
    Producers = {p1, p2}
    Workers = {w1}
    Threads <- PoolThreads
    Values = {1, 2}
    NoItem = NoItem
    Capacity = 2
    Spurious = FALSE
    MaxPos = 3
    Stops = FALSE
CHECK_DEADLOCK FALSE
PROPERTY TasksRun
