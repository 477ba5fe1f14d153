SPECIFICATION FairSpec
CONSTANTS
    Conns = {c1}
    MaxSends = 3
CHECK_DEADLOCK FALSE
INVARIANT ConnectedIsServed
PROPERTY OutputDrains
