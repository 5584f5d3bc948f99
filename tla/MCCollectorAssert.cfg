\* The assertion at the end of ~SQSharedState, with a holder RunMark does not visit.
SPECIFICATION Spec
CONSTANTS
    o1 = o1 o2 = o2 o3 = o3 r1 = r1 r2 = r2 h1 = h1
    Obj = {o1, o2, o3}
    Null = Null
    Vm = Vm
    Gc = Gc
    Holder = {r1, h1}
    Scanned = {r1}
    Fld = {"slot", "slot2"}
    MarkedFld = {"slot", "slot2"}
    Cleared = {"slot", "slot2"}
CHECK_DEADLOCK FALSE
SYMMETRY Symmetry
INVARIANT AssertChainEmpty
