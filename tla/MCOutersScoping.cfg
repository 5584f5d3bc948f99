SPECIFICATION Spec
CONSTANTS
    k1 = k1
    k2 = k2
    None = None
    NoVal = NoVal
    Closure <- TwoClosures
    Value <- TwoValues
    Null = 0
    MaxFrames = 1
    MaxLocals = 2
    MaxScopes = 3
    MaxStack = 2
    MaxValues = 1
    Stray = {"break"}
SYMMETRY Alike
INVARIANT
    FreeVariablesAreLexical
CHECK_DEADLOCK FALSE
