SPECIFICATION FairSpec
CONSTANTS
    Conns = {c1}
    Setups <- MCSetups
    SqEntries = 2
    CqEntries = 3
    min_submit_sqes_ = 2
    MaxLen = 2
INVARIANT OpsAreInRing
INVARIANT NoUseAfterFree
INVARIANT NoLostWakeup
PROPERTY PeerCloseIsNoticed
PROPERTY EndedIsFreed
