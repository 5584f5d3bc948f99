SPECIFICATION Spec
CONSTANTS
    Obj <- Objects
    Native <- Objects
    None = None
    InitSlots = 2
INVARIANTS
    TypeOK
    RefsExact
PROPERTIES
    FreesAll
    OnlySweepForgets
CHECK_DEADLOCK FALSE
