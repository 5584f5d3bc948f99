SPECIFICATION Spec
CONSTANTS
    g1 = g1
    g2 = g2
    g3 = g3
    Gen <- Gen1
    None = None
    MaxFrames = 4
    MaxTraps = 2
    MaxNative = 3
    ResumeGen <- NoGens
    ForeachGen <- Gen1
    ApiGen <- NoGens
    TryGen <- Gen1
INVARIANTS
    AssertNoTraps
