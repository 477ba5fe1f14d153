SPECIFICATION FairSpec
CONSTANTS
    Addrs = {a1, a2}
    Threads = {t1}
    Intervals = {0, 1}
    MaxTimers = 2
    MaxTime = 3
    MaxSteps = 1
CHECK_DEADLOCK FALSE
INVARIANT TimersAgree
INVARIANT ArmedForFirst
INVARIANT CancelIsExact
PROPERTY TimersFire
