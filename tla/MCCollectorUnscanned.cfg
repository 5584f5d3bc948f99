\* A holder RunMark does not visit (_atexithandler, _openouters) and a field Mark does not
\* visit (_ci._closure).  No symmetry: the run checks liveness.
SPECIFICATION FairSpec
CONSTANTS
    o1 = o1 o2 = o2 o3 = o3 r1 = r1 r2 = r2 h1 = h1
    Obj = {o1, o2}
    Null = Null
    Vm = Vm
    Gc = Gc
    Holder = {r1, h1}
    Scanned = {r1}
    Fld = {"slot", "ci"}
    MarkedFld = {"slot"}
    Cleared = {"slot"}
CHECK_DEADLOCK FALSE
INVARIANTS NoForgotten
PROPERTIES WalksEnd
