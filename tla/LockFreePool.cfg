SPECIFICATION PoolFairSpec
CONSTANTS
    Producers = {p1, p2}
    Workers = {w1, w2}
    Threads <- PoolThreads
    Values = {1, 2, 3}
    NoItem = NoItem
    Capacity = 2
    Spurious = FALSE
    MaxPos = 3
    Stops = TRUE
CHECK_DEADLOCK FALSE
INVARIANT CellsAreOwned
PROPERTY ImplementsFifo
PROPERTY StopJoins
