SPECIFICATION Spec
CONSTANTS
    t1 = t1
    t2 = t2
    None = None
    Thread <- TwoThreads
    MaxArgs = 1
    MaxStack = 16
    Careful = FALSE
INVARIANT
    OneThread
CHECK_DEADLOCK FALSE
