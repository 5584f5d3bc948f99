\* Everything is scanned: three objects, two holders, a field Finalize clears and one it keeps.
SPECIFICATION Spec
CONSTANTS
    o1 = o1 o2 = o2 o3 = o3 r1 = r1 r2 = r2 h1 = h1
    Obj = {o1, o2, o3}
    Null = Null
    Vm = Vm
    Gc = Gc
    Holder = {r1, r2}
    Scanned = {r1, r2}
    Fld = {"slot", "code"}
    MarkedFld = {"slot", "code"}
    Cleared = {"slot"}
CHECK_DEADLOCK FALSE
SYMMETRY Symmetry
INVARIANTS TypeOK RefCountExact NoDangling ChainLinked TchainIsMarked
           SweepsGarbage ChainComplete ClosedFreesAll
PROPERTIES CollectComplete
