SPECIFICATION ThreadFairSpec
CONSTANTS
    Others = {t1, t2}
    User = t1
    MaxPosts = 4
    MaxResumes = 2
CHECK_DEADLOCK FALSE
INVARIANT NoLostWakeup
PROPERTY ImplementsSerialExecutor
PROPERTY PostsTakeEffect
PROPERTY ResumesRun
PROPERTY JoinReturns
