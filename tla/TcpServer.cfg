SPECIFICATION FairSpec
CONSTANTS
    Conns = {c1}
    Pools <- SmallPools
    App = {a}
    Profiles <- Applications
    ET = TRUE
    HighWaterMark = 1
    MaxSends = 1
    MaxQueue = 2
CHECK_DEADLOCK FALSE
INVARIANT NoUseAfterFree
INVARIANT DownOnce
INVARIANT EpollAgrees
INVARIANT FinIsLast
PROPERTY FreedIsClosed
PROPERTY ClosedIsFreed
PROPERTY PeerCloseIsNoticed
PROPERTY ShutdownFinishes
PROPERTY TeardownFrees
