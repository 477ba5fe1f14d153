SPECIFICATION FairSpec
CONSTANTS
    Threads = {t1, t2}
    Blocks = {b1, b2, b3}
    Null = null
    Junk = junk
    Sizes = {1, 3, 5}
    kMinClass = 1
    kMaxClass = 2
    kCacheCapacity = 1
    TagSize = 3
    MaxOvertakes = 2
INVARIANT PoolIsSound
PROPERTY LockFree
