SPECIFICATION FairSpec
CONSTANTS
    t1 = t1
    t2 = t2
    None = None
    Thread <- TwoThreads
    MaxArgs = 1
    MaxStack = 8
    Careful = TRUE
INVARIANTS
    TypeOK
    OneInside
    FramesKept
    StackAccounted
    ClosedNotUsed
PROPERTIES
    LockComesFree
    WaitsEnd
CHECK_DEADLOCK FALSE
