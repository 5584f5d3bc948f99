----------------------------- MODULE Collector -----------------------------
(***************************************************************************)
(* Reference counts and the mark-and-sweep collector of the SquiLu core    *)
(* (sqobject.h, sqobject.cpp, sqstate.cpp).                                *)
(*                                                                         *)
(* A collectable object lives at an address of Obj.  Every counted         *)
(* reference is kept in a place: a field of an object, a holder of the     *)
(* VM or of the shared state (a stack slot, the root table, the error      *)
(* handler, ...), or one of the two locals t and nx of the sweep, which    *)
(* pin what they point at by counting it.                                  *)
(*                                                                         *)
(* Three facts about the code are parameters.  Scanned are the holders     *)
(* RunMark visits: SQVM::Mark does not visit _atexithandler, _include_path *)
(* or the list _openouters.  MarkedFld are the fields an object's Mark     *)
(* visits: SQGenerator::Mark does not visit _ci._closure.  Cleared are the *)
(* fields its Finalize nulls: SQClosure::Finalize keeps _function, which   *)
(* only its destructor releases.                                           *)
(*                                                                         *)
(* The program is single threaded, so the script (New, Store, CollectGar-  *)
(* bage) takes a step only when no destructor is running.                  *)
(***************************************************************************)
EXTENDS Naturals, FiniteSets

CONSTANTS Obj,        \* addresses of collectable objects
          Null,       \* the null pointer
          Vm, Gc,     \* tags of the places that are not fields of objects
          Holder,     \* the holders of the VM and of the shared state
          Scanned,    \* the holders RunMark visits
          Fld,        \* the fields of an object
          MarkedFld,  \* the fields Mark visits
          Cleared     \* the fields Finalize nulls

ASSUME FinitelyMany == IsFiniteSet(Obj) /\ IsFiniteSet(Holder) /\ IsFiniteSet(Fld)
ASSUME TagsDistinct == Null \notin Obj /\ Vm \notin Obj /\ Gc \notin Obj /\ Vm # Gc
ASSUME Scans == Scanned \subseteq Holder /\ MarkedFld \subseteq Fld /\ Cleared \subseteq Fld

VARIABLES live,     \* the objects allocated
          at,       \* what each place refers to
          uiRef,    \* _uiRef without its MARK_FLAG bit
          marked,   \* the objects whose _uiRef has MARK_FLAG
          next, prev, gcChain, tchain,   \* the chain links and the two heads
          linked,   \* the objects a destructor has not yet taken off a chain
          dtor,     \* the depth at which an object's destructor runs, 0: it does not
          depth,    \* how many destructors are on the C++ stack
          pc, final \* what the program does, and if the sweep is the one of shutdown

heap == <<live, at, uiRef, dtor, depth>>
chain == <<next, prev, gcChain, tchain, linked>>
vars == <<heap, chain, marked, pc, final>>

FldPlace == Obj \X Fld
VmPlace == {Vm} \X Holder
T == <<Gc, "t">>
NX == <<Gc, "nx">>
Place == FldPlace \cup VmPlace \cup {T, NX}

ObjOrNull == Obj \cup {Null}

Dying == {o \in Obj : dtor[o] > 0}
RefsIn(a, o) == {p \in Place : a[p] = o}
Refs(o) == RefsIn(at, o)

-----------------------------------------------------------------------------
(* Counting: SQObjectPtr assignment, Null() and __ObjRelease.              *)

AddRef(r, v) == [o \in Obj |-> IF o = v THEN r[o] + 1 ELSE r[o]]
DropRef(r, v) == [o \in Obj |-> IF o = v THEN r[o] - 1 ELSE r[o]]

(* Mutant: the old value is released before the new one is counted.        *)
SetReleaseFirst(p, v) ==
    LET old == at[p]
        dies == old # Null /\ old \notin marked /\ DropRef(uiRef, old)[old] = 0
    IN  /\ at' = [at EXCEPT ![p] = v]
        /\ uiRef' = DropRef(AddRef(uiRef, v), old)
        /\ depth' = IF dies THEN depth + 1 ELSE depth
        /\ dtor' = IF dies THEN [dtor EXCEPT ![old] = depth + 1] ELSE dtor

(* The place p takes the value v: v is counted before the old value is     *)
(* released, and the old value is destroyed when no count, and no mark     *)
(* bit, is left in its _uiRef.                                             *)
Set(p, v) ==
    LET old == at[p]
        r   == DropRef(AddRef(uiRef, v), old)
        dies == old # Null /\ old \notin marked /\ r[old] = 0
    IN  /\ at' = [at EXCEPT ![p] = v]
        /\ uiRef' = r
        /\ depth' = IF dies THEN depth + 1 ELSE depth
        /\ dtor' = IF dies THEN [dtor EXCEPT ![old] = depth + 1] ELSE dtor

(* The chain primitives: what *head, _next and _prev are after the call.   *)

(* Mutant: the new head does not point at the old one.                     *)
AddToChainAlone(nx, pv, head, c) ==
    [next |-> [nx EXCEPT ![c] = Null],
     prev |-> [pv EXCEPT ![c] = Null],
     head |-> c]

AddToChain(nx, pv, head, c) ==
    [next |-> [nx EXCEPT ![c] = head],
     prev |-> [o \in Obj |-> IF o = c THEN Null ELSE IF o = head THEN c ELSE pv[o]],
     head |-> c]

(* Mutant: the successor keeps its _prev.                                  *)
RemoveFromChainHalf(head, c) ==
    [next |-> [o \in Obj |-> IF o = c THEN Null ELSE IF o = prev[c] THEN next[c] ELSE next[o]],
     prev |-> [prev EXCEPT ![c] = Null],
     head |-> IF prev[c] = Null THEN next[c] ELSE head]

RemoveFromChain(head, c) ==
    [next |-> [o \in Obj |-> IF o = c THEN Null ELSE IF o = prev[c] THEN next[c] ELSE next[o]],
     prev |-> [o \in Obj |-> IF o = c THEN Null ELSE IF o = next[c] THEN prev[c] ELSE prev[o]],
     head |-> IF prev[c] = Null THEN next[c] ELSE head]

-----------------------------------------------------------------------------
(* The script.                                                             *)

Running == pc = "run" /\ depth = 0

Held == {at[p] : p \in VmPlace} \ {Null}
Readable == VmPlace \cup {p \in FldPlace : p[1] \in Held}
Writable == VmPlace \cup {p \in FldPlace : p[1] \in Held /\ p[2] \in Cleared}

Create(o, h) ==
    /\ Running
    /\ o \notin live
    /\ at[<<Vm, h>>] = Null
    /\ live' = live \cup {o}
    /\ linked' = linked \cup {o}
    /\ LET c == AddToChain(next, prev, gcChain, o)
       IN  next' = c.next /\ prev' = c.prev /\ gcChain' = c.head
    /\ UNCHANGED <<marked, tchain, dtor, depth, pc, final>>

(* A table, an array, ...: created empty.                                  *)
New(o, h) ==
    /\ Create(o, h)
    /\ at' = [at EXCEPT ![<<Vm, h>>] = o]
    /\ uiRef' = AddRef(uiRef, o)

(* A closure, ...: created with a reference only its destructor drops, to  *)
(* an object that exists already.                                          *)
NewWith(o, h, f, q) ==
    /\ Create(o, h)
    /\ q \in Readable /\ at[q] # Null
    /\ at' = [at EXCEPT ![<<Vm, h>>] = o, ![<<o, f>>] = at[q]]
    /\ uiRef' = AddRef(AddRef(uiRef, o), at[q])

Assign(p, q) ==
    /\ Running
    /\ p \in Writable /\ q \in Readable
    /\ Set(p, at[q])
    /\ UNCHANGED <<live, chain, marked, pc, final>>

NullSlot(p) ==
    /\ Running
    /\ p \in Writable /\ at[p] # Null
    /\ Set(p, Null)
    /\ UNCHANGED <<live, chain, marked, pc, final>>

-----------------------------------------------------------------------------
(* The destructor on top of the C++ stack: it leaves the chain, drops its  *)
(* references and frees its memory.  Where the chain is left among the     *)
(* drops differs from class to class.                                      *)

Destroys(o) == depth > 0 /\ dtor[o] = depth

Unlink(o) ==
    /\ Destroys(o) /\ o \in linked
    /\ linked' = linked \ {o}
    /\ LET c == RemoveFromChain(gcChain, o)
       IN  next' = c.next /\ prev' = c.prev /\ gcChain' = c.head
    /\ UNCHANGED <<heap, marked, tchain, pc, final>>

DropField(o, f) ==
    /\ Destroys(o)
    /\ at[<<o, f>>] # Null
    /\ Set(<<o, f>>, Null)
    /\ UNCHANGED <<live, chain, marked, pc, final>>

Free(o) ==
    /\ Destroys(o) /\ o \notin linked
    /\ \A f \in Fld : at[<<o, f>>] = Null
    /\ live' = live \ {o}
    /\ dtor' = [dtor EXCEPT ![o] = 0]
    /\ depth' = depth - 1
    /\ UNCHANGED <<at, uiRef, chain, marked, pc, final>>

-----------------------------------------------------------------------------
(* CollectGarbage: mark, sweep, unmark.                                    *)

Roots(hs) == {at[<<Vm, h>>] : h \in hs} \ {Null}
Edges(fs) == {e \in Obj \X Obj : \E f \in fs : at[<<e[1], f>>] = e[2]}

Closure(from, edges) ==
    {o \in Obj : \A S \in SUBSET Obj :
        (from \subseteq S /\ \A e \in edges : e[1] \in S => e[2] \in S) => o \in S}

(* Mutant: SQClosure::Mark forgets _function.                              *)
ReachCleared == Closure(Roots(Scanned), Edges(MarkedFld \cap Cleared))

Reach == Closure(Roots(Scanned), Edges(MarkedFld))

CollectGarbage ==
    /\ Running
    /\ pc' = "mark"
    /\ tchain' = Null
    /\ UNCHANGED <<heap, next, prev, gcChain, linked, marked, final>>

(* Objects are moved to tchain in the post-order of a depth-first walk:    *)
(* here in any order.                                                      *)
MarkObject(o) ==
    /\ pc = "mark" /\ depth = 0
    /\ o \in Reach \ marked
    /\ marked' = marked \cup {o}
    /\ LET r == RemoveFromChain(gcChain, o)
           c == AddToChain(r.next, r.prev, tchain, o)
       IN  /\ next' = c.next /\ prev' = c.prev
           /\ gcChain' = r.head /\ tchain' = c.head
    /\ UNCHANGED <<heap, linked, pc, final>>

(* Mutant: the first object swept is not pinned.                           *)
BeginSweepUnpinned ==
    /\ pc = "mark" /\ depth = 0
    /\ Reach \subseteq marked
    /\ at' = [at EXCEPT ![T] = gcChain]
    /\ pc' = "sweep"
    /\ UNCHANGED <<live, uiRef, dtor, depth, chain, marked, final>>

BeginSweep ==
    /\ pc = "mark" /\ depth = 0
    /\ Reach \subseteq marked
    /\ Set(T, gcChain)
    /\ pc' = "sweep"
    /\ UNCHANGED <<live, chain, marked, final>>

Finalize(f) ==
    /\ pc = "sweep" /\ depth = 0
    /\ at[T] # Null
    /\ f \in Cleared /\ at[<<at[T], f>>] # Null
    /\ Set(<<at[T], f>>, Null)
    /\ UNCHANGED <<live, chain, marked, pc, final>>

(* Mutants: nx is not counted; t is not finalized first; the walk starts   *)
(* over.                                                                   *)
PinNextUncounted ==
    /\ pc = "sweep" /\ depth = 0
    /\ at[T] # Null
    /\ \A f \in Cleared : at[<<at[T], f>>] = Null
    /\ at' = [at EXCEPT ![NX] = next[at[T]]]
    /\ pc' = "unpin"
    /\ UNCHANGED <<live, uiRef, dtor, depth, chain, marked, final>>

PinNextUnfinalized ==
    /\ pc = "sweep" /\ depth = 0
    /\ at[T] # Null
    /\ Set(NX, next[at[T]])
    /\ pc' = "unpin"
    /\ UNCHANGED <<live, chain, marked, final>>

PinNextHead ==
    /\ pc = "sweep" /\ depth = 0
    /\ at[T] # Null
    /\ \A f \in Cleared : at[<<at[T], f>>] = Null
    /\ Set(NX, gcChain)
    /\ pc' = "unpin"
    /\ UNCHANGED <<live, chain, marked, final>>

PinNext ==
    /\ pc = "sweep" /\ depth = 0
    /\ at[T] # Null
    /\ \A f \in Cleared : at[<<at[T], f>>] = Null
    /\ Set(NX, next[at[T]])
    /\ pc' = "unpin"
    /\ UNCHANGED <<live, chain, marked, final>>

Unpin ==
    /\ pc = "unpin" /\ depth = 0
    /\ Set(T, Null)
    /\ pc' = "advance"
    /\ UNCHANGED <<live, chain, marked, final>>

(* t = nx: the pin moves from one local to the other.                      *)
Advance ==
    /\ pc = "advance" /\ depth = 0
    /\ at' = [at EXCEPT ![T] = at[NX], ![NX] = Null]
    /\ pc' = "sweep"
    /\ UNCHANGED <<live, uiRef, dtor, depth, chain, marked, final>>

(* Mutants: no UnMark; tchain is dropped.                                  *)
EndSweepMarked ==
    /\ pc = "sweep" /\ depth = 0 /\ ~final
    /\ at[T] = Null
    /\ gcChain' = tchain
    /\ tchain' = Null
    /\ pc' = "run"
    /\ UNCHANGED <<heap, next, prev, linked, marked, final>>

EndSweepKeepsChain ==
    /\ pc = "sweep" /\ depth = 0 /\ ~final
    /\ at[T] = Null
    /\ marked' = {}
    /\ tchain' = Null
    /\ pc' = "run"
    /\ UNCHANGED <<heap, next, prev, gcChain, linked, final>>

(* tchain holds the marked objects, all of them (TchainIsMarked).          *)
EndSweep ==
    /\ pc = "sweep" /\ depth = 0 /\ ~final
    /\ at[T] = Null
    /\ marked' = {}
    /\ gcChain' = tchain
    /\ tchain' = Null
    /\ pc' = "run"
    /\ UNCHANGED <<heap, next, prev, linked, final>>

-----------------------------------------------------------------------------
(* Shutdown: ~SQSharedState nulls every holder (SQVM::Finalize those of    *)
(* the root VM), then sweeps the whole chain.                              *)

Shutdown ==
    /\ Running
    /\ pc' = "closing"
    /\ UNCHANGED <<heap, chain, marked, final>>

NullHolder(h) ==
    /\ pc = "closing" /\ depth = 0
    /\ at[<<Vm, h>>] # Null
    /\ Set(<<Vm, h>>, Null)
    /\ UNCHANGED <<live, chain, marked, pc, final>>

(* Mutant: the chain is not swept.                                         *)
BeginFinalSweepNone ==
    /\ pc = "closing" /\ depth = 0
    /\ \A h \in Holder : at[<<Vm, h>>] = Null
    /\ pc' = "sweep"
    /\ final' = TRUE
    /\ UNCHANGED <<heap, chain, marked>>

BeginFinalSweep ==
    /\ pc = "closing" /\ depth = 0
    /\ \A h \in Holder : at[<<Vm, h>>] = Null
    /\ Set(T, gcChain)
    /\ pc' = "sweep"
    /\ final' = TRUE
    /\ UNCHANGED <<live, chain, marked>>

EndFinalSweep ==
    /\ pc = "sweep" /\ depth = 0 /\ final
    /\ at[T] = Null
    /\ pc' = "closed"
    /\ UNCHANGED <<heap, chain, marked, final>>

-----------------------------------------------------------------------------
Init ==
    /\ live = {} /\ linked = {} /\ marked = {}
    /\ at = [p \in Place |-> Null]
    /\ uiRef = [o \in Obj |-> 0]
    /\ next = [o \in Obj |-> Null] /\ prev = [o \in Obj |-> Null]
    /\ gcChain = Null /\ tchain = Null
    /\ dtor = [o \in Obj |-> 0] /\ depth = 0
    /\ pc = "run" /\ final = FALSE

Script ==
    \/ \E o \in Obj, h \in Holder : New(o, h)
    \/ \E o \in Obj, h \in Holder, f \in Fld \ Cleared, q \in Place : NewWith(o, h, f, q)
    \/ \E p, q \in Place : Assign(p, q)
    \/ \E p \in Place : NullSlot(p)
    \/ CollectGarbage
    \/ Shutdown

(* The steps the C++ code takes on its own, once it is called.             *)
Destruct == \E o \in Obj : Unlink(o) \/ Free(o) \/ \E f \in Fld : DropField(o, f)
Collect ==
    \/ \E o \in Obj : MarkObject(o)
    \/ \E f \in Fld : Finalize(f)
    \/ BeginSweep \/ PinNext \/ Unpin \/ Advance \/ EndSweep
Close == BeginFinalSweep \/ EndFinalSweep \/ \E h \in Holder : NullHolder(h)

Next == Script \/ Destruct \/ Collect \/ Close

Spec == Init /\ [][Next]_vars

(* A C++ call that has begun goes on: nothing else runs.                   *)
FairSpec == Spec /\ WF_vars(Destruct \/ Collect \/ Close)

-----------------------------------------------------------------------------
TypeOK ==
    /\ live \subseteq Obj /\ linked \subseteq Obj /\ marked \subseteq Obj
    /\ at \in [Place -> ObjOrNull]
    /\ uiRef \in [Obj -> Nat]
    /\ next \in [Obj -> ObjOrNull] /\ prev \in [Obj -> ObjOrNull]
    /\ gcChain \in ObjOrNull /\ tchain \in ObjOrNull
    /\ dtor \in [Obj -> Nat] /\ depth \in Nat
    /\ pc \in {"run", "mark", "sweep", "unpin", "advance", "closing", "closed"}
    /\ final \in BOOLEAN

(* An object's count is the number of places that refer to it, at every    *)
(* step of a script, of a destructor cascade and of a sweep: an object is  *)
(* neither freed early nor leaked by a count that drifts.                  *)
RefCountExact == \A o \in Obj : uiRef[o] = Cardinality(Refs(o))

(* No place, the sweep's t and nx included, refers to memory that has been *)
(* freed or is being destroyed.                                            *)
NoDangling == \A p \in Place : at[p] # Null => at[p] \in live \ Dying

Links(objs, nx, pv) ==
    \A o \in objs :
        /\ nx[o] # Null => nx[o] \in objs /\ pv[nx[o]] = o
        /\ pv[o] # Null => pv[o] \in objs /\ nx[pv[o]] = o

(* The chain is doubly linked through objects that are allocated, whatever *)
(* order objects die in: RemoveFromChain never writes to freed memory.     *)
ChainLinked ==
    /\ live \ Dying \subseteq linked /\ linked \subseteq live
    /\ Links(linked, next, prev)
    /\ gcChain # Null => gcChain \in linked /\ prev[gcChain] = Null
    /\ tchain # Null => tchain \in linked /\ prev[tchain] = Null

(* An allocated object that no destructor is running on is counted: also a *)
(* marked one, whose release the mark bit would suppress for good.         *)
NoForgotten == \A o \in live \ Dying : uiRef[o] > 0

OnChain(head) == IF head = Null THEN {}
                 ELSE Closure({head}, {e \in Obj \X Obj : next[e[1]] = e[2]})

(* The marked objects are those on tchain, so the walk over tchain clears  *)
(* every mark and the next collection starts from none.                    *)
TchainIsMarked == pc = "mark" \/ (pc \in {"sweep", "unpin", "advance"} /\ ~final)
                     => OnChain(tchain) = marked

Usable == Closure(Roots(Holder), Edges(Fld))

(* What the sweep finalizes the script can no longer get at.               *)
SweepsGarbage == pc = "sweep" /\ ~final /\ at[T] # Null => at[T] \notin Usable

(* While the script runs, the chain of the collector holds every object:   *)
(* no cycle can escape the next collection.                                *)
ChainComplete == Running => OnChain(gcChain) = live

(* The assertion at the end of ~SQSharedState.                             *)
AssertChainEmpty == pc = "closed" => gcChain = Null

(* Shutdown frees everything.                                              *)
ClosedFreesAll == pc = "closed" => live = {}

(* When a collection returns, what is left is what the script can reach.   *)
CollectComplete == [][pc = "sweep" /\ pc' = "run" => live' = Usable']_vars

(* A collection returns, and so does the shutdown, whatever dies on the   *)
(* way: the walk over the chain never starts over.                         *)
WalksEnd ==
    /\ pc = "mark" ~> pc = "run"
    /\ pc = "closing" ~> pc = "closed"
=============================================================================
