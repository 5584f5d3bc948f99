SPECIFICATION Spec
CONSTANTS
    g1 = g1
    g2 = g2
    g3 = g3
    Gen <- Gen123
    None = None
    MaxFrames = 4
    MaxTraps = 2
    MaxNative = 3
    ResumeGen <- Gen1
    ForeachGen <- Gen3
    ApiGen <- Gen2
    TryGen <- Gen12
INVARIANTS
    TypeOK
    TrapsMatchFrames
    StackbaseOfCi
    RootsMatchExecs
    TrapsExact
    HandlerForUncaught
    GeneratorInOneFrame
    QuietWhenIdle
