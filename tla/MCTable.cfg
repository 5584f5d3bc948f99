SPECIFICATION Spec
CONSTANTS
    Key <- Keys7
    NullKey = NullKey
    NoVal = NoVal
    Nil = Nil
    Width = 0
    InitSize <- Four
    Loops = FALSE
INVARIANTS
    TypeOK
    EveryKeyFound
    RoomIsKnown
    ChainsEnd
VIEW Array
