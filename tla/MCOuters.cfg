SPECIFICATION Spec
CONSTANTS
    k1 = k1
    k2 = k2
    None = None
    NoVal = NoVal
    Closure <- TwoClosures
    Value <- TwoValues
    MaxFrames = 2
    MaxLocals = 2
    MaxScopes = 2
    MaxStack = 3
    MaxValues = 1
    Null = 0
    Stray = {}
SYMMETRY Alike
INVARIANTS
    TypeOK
    OpenListExact
    FreeVariablesAreLexical
PROPERTIES
    ImplementsVariables
CHECK_DEADLOCK FALSE
