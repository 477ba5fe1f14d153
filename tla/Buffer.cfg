SPECIFICATION Spec
CONSTANTS
    Bytes = {0, 1}
    Zero = 0
    MaxLen = 2
    Data <- ShortStrings
    Lens = {1, 2, 3}
    MaxReadable = 4
    kCheapPrepend = 2
    kInitialSize = 2
    kExtraBuf = 2
INVARIANT AssertsHold
INVARIANT MemoryBounded
PROPERTY ImplementsByteQueue
