SPECIFICATION Spec
CONSTANTS
    Key <- Keys4
    NullKey = NullKey
    NoVal = NoVal
    Nil = Nil
    Width = 1
    InitSize <- FourOrEight
    Loops = TRUE
PROPERTIES
    ImplementsMap
    VisitsEach
VIEW State
