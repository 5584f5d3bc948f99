----------------------- MODULE CollectorSweep_proofs -----------------------
(***************************************************************************)
(* What a collection achieves, for every set of objects, holders and       *)
(* fields, as long as no collection finds something usable that the marker *)
(* does not reach.  Whether that is so depends on what the script keeps in *)
(* the holders and fields the marker leaves out: where it keeps something  *)
(* only there, these results fail, and a run shows one of them failing.    *)
(***************************************************************************)
EXTENDS CollectorMarks_proofs

(* When a collection begins, the marker reaches what the script can.       *)
Covered == pc = "mark" => Usable \subseteq Reach

-----------------------------------------------------------------------------
(* The inductive invariant.                                                *)

(* The chain of the collector holds every object that is not marked.       *)
Whole == OnChain(gcChain) = linked \ marked

(* What the script can still get at is marked.                             *)
Cover == InSweep => Usable \subseteq marked

(* The sweep has finalized what it has left behind: Cur is where it is.    *)
Cur == IF pc = "sweep" THEN at[T] ELSE at[NX]

Passed ==
    pc \in {"sweep", "unpin", "advance"} =>
        \A o \in linked \ (marked \cup Dying \cup OnChain(Cur)) :
            \A f \in Cleared : at[<<o, f>>] = Null

(* At shutdown the holders are empty before the sweep begins.              *)
HoldersEmpty == final => \A h \in Holder : at[<<Vm, h>>] = Null

(* The references only a destructor drops are to objects that were there   *)
(* before: they alone never make a cycle.                                  *)
Unkept(S, x) == \A y \in S, f \in Fld \ Cleared : at[<<y, f>>] # x
Acyclic == \A S \in SUBSET Obj : S # {} => \E x \in S : Unkept(S, x)

Emptied == pc = "closed" => live = {}

SweepInv == MarkInv /\ Whole /\ Cover /\ Passed /\ HoldersEmpty /\ Acyclic /\ Emptied

-----------------------------------------------------------------------------
(* Lemmas about the state.                                                 *)

(* Only the head of a chain has no predecessor.                            *)
LEMMA WalkHead ==
  ASSUME NEW L \in SUBSET Obj, NEW nx \in LinkType, NEW pv \in LinkType, Links(L, nx, pv),
         NEW h \in ObjOrNull, h # Null => h \in L, NEW x \in Walk(nx, h), pv[x] = Null
  PROVE  x = h
<1> DEFINE S == {y \in L : y = h \/ pv[y] # Null}
<1>1. S \in SUBSET Obj /\ (h # Null => h \in S)
  OBVIOUS
<1>2. \A y \in S : nx[y] # Null => nx[y] \in S
  BY TagsDistinct DEF Links
<1> HIDE DEF S
<1>3. Walk(nx, h) \subseteq S
  BY <1>1, <1>2, WalkLeast
<1> QED
  BY <1>3 DEF S

(* What is usable is where a holder refers and what is there goes on.      *)
LEMMA UsableIsClosed ==
  ASSUME IInv
  PROVE  /\ Usable \subseteq Obj
         /\ \A h \in Holder : at[<<Vm, h>>] # Null => at[<<Vm, h>>] \in Usable
         /\ \A x \in Usable, f \in Fld : at[<<x, f>>] # Null => at[<<x, f>>] \in Usable
<1>1. Roots(Holder) \in SUBSET Obj /\ Edges(Fld) \in SUBSET (Obj \X Obj)
  BY RootsAndEdges
<1>2. /\ Roots(Holder) \subseteq Usable /\ Usable \subseteq Obj
      /\ \A e \in Edges(Fld) : e[1] \in Usable => e[2] \in Usable
  BY <1>1, ClosureClosed DEF Usable
<1>3. ASSUME NEW x \in Usable, NEW f \in Fld, at[<<x, f>>] # Null
      PROVE  at[<<x, f>>] \in Usable
  <2>1. x \in Obj /\ at[<<x, f>>] \in Obj
    BY <1>2, <1>3, Places DEF IInv, Heap, HeapType, ObjOrNull
  <2>2. <<x, at[<<x, f>>]>> \in Edges(Fld)
    BY <2>1 DEF Edges
  <2> QED
    BY <1>2, <2>2
<1> QED
  BY <1>2, <1>3 DEF Roots

LEMMA UsableIsLeast ==
  ASSUME NEW S \in SUBSET Obj,
         \A h \in Holder : at[<<Vm, h>>] # Null => at[<<Vm, h>>] \in S,
         \A x \in S, f \in Fld : at[<<x, f>>] # Null => at[<<x, f>>] \in S
  PROVE  Usable \subseteq S
<1>1. Roots(Holder) \subseteq S
  BY DEF Roots
<1>2. \A e \in Edges(Fld) : e[1] \in S => e[2] \in S
  BY TagsDistinct DEF Edges
<1> QED
  BY <1>1, <1>2, ClosureLeast DEF Usable

(* The marker reaches nothing the script could not.                        *)
LEMMA ReachIsUsable ==
  ASSUME IInv
  PROVE  Reach \subseteq Usable
<1>1. Roots(Scanned) \subseteq Usable
  BY UsableIsClosed, Scans DEF Roots
<1>2. \A e \in Edges(MarkedFld) : e[1] \in Usable => e[2] \in Usable
  BY UsableIsClosed, Scans, TagsDistinct DEF Edges
<1>3. Usable \in SUBSET Obj
  BY UsableIsClosed
<1> QED
  BY <1>1, <1>2, <1>3, ClosureLeast DEF Reach

(* Outside destructors, what is allocated is on a chain.                   *)
LEMMA QuietLinked ==
  ASSUME IInv, depth = 0
  PROVE  Dying = {} /\ linked = live
<1>1. Dying = {}
  BY DEF IInv, Heap, HeapType, Deaths, Dying
<1> QED
  BY <1>1 DEF IInv, ChainLinked

(* When the walk of the sweep ends, everything that is not marked is gone: *)
(* of what were left, one object would be kept by no other through a       *)
(* reference the sweep does not clear, and yet it would be counted.        *)
LEMMA SweptIsGone ==
  ASSUME SweepInv, pc = "sweep", depth = 0, at[T] = Null
  PROVE  live \subseteq marked /\ (~final => marked = Usable)
<1> DEFINE S == live \ marked
<1>1. Dying = {} /\ linked = live /\ live \subseteq Obj
  BY QuietLinked DEF SweepInv, MarkInv, IInv, Heap, HeapType
<1>2. ~final => marked = Usable
  BY ReachIsUsable DEF SweepInv, MarkInv, Cover, Marks, InSweep
<1>3. ASSUME NEW x \in S, Unkept(S, x)
      PROVE  FALSE
  <2>1. x \in Obj /\ x # Null /\ uiRef[x] > 0
    BY <1>1, TagsDistinct DEF SweepInv, MarkInv, NoForgotten
  <2>2. PICK p \in Place : at[p] = x
    <3>1. IsFiniteSet(RefsIn(at, x)) /\ Cardinality(RefsIn(at, x)) > 0
      BY <2>1, RefsFinite DEF SweepInv, MarkInv, IInv, Heap, RefCountExact, Refs
    <3>2. RefsIn(at, x) # {}
      BY <3>1, FS_EmptySet
    <3> QED
      BY <3>2 DEF RefsIn
  <2>3. p \notin {T, NX}
    BY <2>1, <2>2 DEF SweepInv, MarkInv, Pins
  <2>4. ASSUME NEW h \in Holder, p = <<Vm, h>>
        PROVE  FALSE
    <3>1. ~final /\ x \in Usable
      BY <2>1, <2>2, <2>4, UsableIsClosed DEF SweepInv, MarkInv, HoldersEmpty
    <3> QED
      BY <3>1, <1>2
  <2>5. ASSUME NEW y \in Obj, NEW f \in Fld, p = <<y, f>>
        PROVE  FALSE
    <3>1. at[<<y, f>>] = x /\ at[<<y, f>>] # Null
      BY <2>1, <2>2, <2>5
    <3>2. y \in live
      BY <3>1 DEF SweepInv, MarkInv, IInv, Heap, Blank
    <3>3. CASE y \in marked
      <4>1. ~final /\ marked = Usable
        BY <3>3, <1>2 DEF SweepInv, MarkInv, Marks
      <4> QED
        BY <3>1, <3>3, <4>1, UsableIsClosed DEF SweepInv, MarkInv
    <3>4. CASE y \notin marked /\ f \in Cleared
      <4>1. OnChain(Cur) = {}
        BY DEF OnChain, Cur
      <4> QED
        BY <3>1, <3>2, <3>4, <4>1, <1>1 DEF SweepInv, Passed
    <3>5. CASE y \notin marked /\ f \notin Cleared
      BY <3>1, <3>2, <3>5, <1>3 DEF Unkept
    <3> QED
      BY <3>3, <3>4, <3>5
  <2> QED
    BY <2>3, <2>4, <2>5 DEF Place, VmPlace, FldPlace
<1>4. S \in SUBSET Obj
  BY <1>1
<1> HIDE DEF S
<1>5. S = {}
  BY <1>3, <1>4 DEF SweepInv, Acyclic
<1> QED
  BY <1>2, <1>5 DEF S

-----------------------------------------------------------------------------
(* Lemmas about what a step leaves as it is.                               *)

LEMMA SetDying ==
  ASSUME IInv, NEW p \in Place, NEW v, Set(p, v)
  PROVE  OnlyAt(p, at, at') /\ at'[p] = v /\ Dying \subseteq Dying'
<1>1. OnlyAt(p, at, at') /\ at'[p] = v
  BY DEF OnlyAt, Set, IInv, Heap, HeapType
<1>2. dtor \in [Obj -> Nat] /\ depth \in Nat
  BY DEF IInv, Heap, HeapType
<1>3. dtor' = dtor \/ \E o : dtor' = [dtor EXCEPT ![o] = depth + 1]
  BY DEF Set
<1>4. Dying \subseteq Dying'
  BY <1>2, <1>3 DEF Dying
<1> QED
  BY <1>1, <1>4

(* Fewer references the sweep does not clear make no new cycle.            *)
LEMMA AcyclicStays ==
  ASSUME Acyclic,
         \A y \in Obj, f \in Fld \ Cleared : at'[<<y, f>>] \in {at[<<y, f>>], Null}
  PROVE  Acyclic'
<1>1. ASSUME NEW S \in SUBSET Obj, NEW x \in S, Unkept(S, x)
      PROVE  \A y \in S, f \in Fld \ Cleared : at'[<<y, f>>] # x
  BY <1>1, TagsDistinct DEF Unkept
<1> QED
  BY <1>1 DEF Acyclic, Unkept

LEMMA UsableShrinks ==
  ASSUME IInv,
         \A h \in Holder : at'[<<Vm, h>>] \in {at[<<Vm, h>>], Null},
         \A x \in Obj, f \in Fld : at'[<<x, f>>] \in {at[<<x, f>>], Null}
  PROVE  Usable' \subseteq Usable
<1>1. Roots(Holder)' \subseteq Usable
  BY UsableIsClosed DEF Roots
<1>2. Usable \in SUBSET Obj
  BY UsableIsClosed
<1>3. \A e \in Edges(Fld)' : e[1] \in Usable => e[2] \in Usable
  <2> SUFFICES ASSUME NEW e \in Edges(Fld)', e[1] \in Usable PROVE e[2] \in Usable
    OBVIOUS
  <2>1. e[1] \in Obj /\ e[2] \in Obj /\ \E f \in Fld : at'[<<e[1], f>>] = e[2]
    BY DEF Edges
  <2>2. PICK f \in Fld : at'[<<e[1], f>>] = e[2]
    BY <2>1
  <2>3. at[<<e[1], f>>] = e[2] /\ e[2] # Null
    BY <2>1, <2>2, TagsDistinct
  <2> QED
    BY <2>3, UsableIsClosed
<1>4. Closure(Roots(Holder)', Edges(Fld)') \subseteq Usable
  BY <1>1, <1>2, <1>3, ClosureLeast
<1> QED
  BY <1>4 DEF Usable, Closure

LEMMA UsableSame ==
  ASSUME \A h \in Holder : at'[<<Vm, h>>] = at[<<Vm, h>>],
         \A x \in Obj, f \in Fld : at'[<<x, f>>] = at[<<x, f>>]
  PROVE  Usable' = Usable
<1>1. Roots(Holder)' = Roots(Holder)
  BY DEF Roots
<1>2. Edges(Fld)' = Edges(Fld)
  BY DEF Edges
<1> QED
  BY <1>1, <1>2 DEF Usable, Closure

(* The locals of the sweep are no place the script, or an object, has.     *)
LEMMA LocalsApart ==
  /\ \A h \in Holder : <<Vm, h>> \in Place /\ <<Vm, h>> # T /\ <<Vm, h>> # NX
  /\ \A o \in Obj, f \in Fld : <<o, f>> \in Place /\ <<o, f>> # T /\ <<o, f>> # NX
BY Places, TagsDistinct DEF T, NX

-----------------------------------------------------------------------------
(* The steps.                                                              *)

(* A place that is not a local of the sweep is nulled.                     *)
LEMMA NullingKeepsSweep ==
  ASSUME SweepInv, MarkInv', NEW p \in Place, p # T, p # NX, Set(p, Null),
         UNCHANGED <<live, chain, marked, pc, final>>
  PROVE  SweepInv'
<1>1. OnlyAt(p, at, at') /\ at'[p] = Null /\ Dying \subseteq Dying'
  BY SetDying DEF SweepInv, MarkInv
<1>2. \A q \in Place : at'[q] \in {at[q], Null}
  BY <1>1 DEF OnlyAt
<1>3. at'[T] = at[T] /\ at'[NX] = at[NX]
  BY <1>1, Places DEF OnlyAt
<1>4. UNCHANGED <<next, prev, gcChain, tchain, linked>>
  BY DEF chain
<1>5. Whole' /\ Emptied'
  BY <1>4 DEF SweepInv, Whole, OnChain, Closure, Emptied
<1>6. Acyclic'
  BY <1>2, Places, AcyclicStays DEF SweepInv
<1>7. Usable' \subseteq Usable
  BY <1>2, Places, UsableShrinks DEF SweepInv, MarkInv
<1>8. Cover'
  BY <1>7 DEF SweepInv, Cover, InSweep
<1>9. Passed'
  <2>1. OnChain(Cur)' = OnChain(Cur)
    BY <1>3, <1>4 DEF OnChain, Cur, Closure
  <2>2. \A o \in Obj, f \in Cleared : at[<<o, f>>] = Null => at'[<<o, f>>] = Null
    BY <1>2, Places, Scans
  <2>3. linked \subseteq Obj
    BY DEF SweepInv, MarkInv, IInv, ChainType
  <2> QED
    BY <1>1, <1>4, <2>1, <2>2, <2>3 DEF SweepInv, Passed
<1>10. HoldersEmpty'
  BY <1>2, Places DEF SweepInv, HoldersEmpty
<1> QED
  BY <1>5, <1>6, <1>8, <1>9, <1>10 DEF SweepInv

(* While the script runs, or the shutdown nulls the holders, there is only *)
(* the chain and the cycles to see to.                                     *)
LEMMA QuietKeepsSweep ==
  ASSUME SweepInv, MarkInv', Whole', Acyclic', pc' \in {"run", "mark", "closing"}
  PROVE  SweepInv'
<1>1. ~InSweep' /\ ~final'
  BY DEF InSweep, MarkInv, Marks
<1>2. Cover' /\ Passed' /\ HoldersEmpty' /\ Emptied'
  BY <1>1 DEF Cover, Passed, HoldersEmpty, Emptied
<1> QED
  BY <1>2 DEF SweepInv

LEMMA AssignKeepsSweep ==
  ASSUME SweepInv, MarkInv', NEW p \in Place, NEW q \in Place, Assign(p, q)
  PROVE  SweepInv'
<1>1. /\ Set(p, at[q]) /\ p \in Writable /\ pc = "run"
      /\ UNCHANGED <<live, next, prev, gcChain, tchain, linked, marked, pc, final>>
  BY DEF Assign, Running, chain
<1>2. OnlyAt(p, at, at')
  BY <1>1, SetDying DEF SweepInv, MarkInv
<1>3. \A y \in Obj, f \in Fld \ Cleared : <<y, f>> # p
  BY <1>1, TagsDistinct DEF Writable, VmPlace, FldPlace
<1>4. Acyclic'
  BY <1>2, <1>3, Places, AcyclicStays DEF SweepInv, OnlyAt
<1>5. Whole'
  BY <1>1 DEF SweepInv, Whole, OnChain, Closure
<1> QED
  BY <1>1, <1>4, <1>5, QuietKeepsSweep

(* A new object comes in front of the chain, and nothing refers to it yet. *)
LEMMA CreateKeepsSweep ==
  ASSUME SweepInv, MarkInv', NEW o \in Obj, NEW h \in Holder, Create(o, h),
         \A y \in Obj, f \in Fld : at'[<<y, f>>] # at[<<y, f>>] => y = o /\ at'[<<y, f>>] # o
  PROVE  SweepInv'
<1>1. /\ pc = "run" /\ o \notin live /\ linked' = linked \cup {o}
      /\ next' = [next EXCEPT ![o] = gcChain] /\ gcChain' = o
      /\ UNCHANGED <<marked, pc, final>>
  BY DEF Create, Running, AddToChain
<1>2. /\ next \in LinkType /\ gcChain \in ObjOrNull /\ o \notin linked /\ o \notin marked
  BY <1>1 DEF SweepInv, MarkInv, IInv, ChainType, ChainLinked, LinkType, Phase
<1>3. Whole'
  <2>1. Walk(next, gcChain) = linked \ marked
    BY WalkIsOnChain DEF SweepInv, Whole
  <2>2. Walk(next', o) = {o} \cup (linked \ marked)
    <3>1. Walk([next EXCEPT ![o] = gcChain], o) = {o} \cup Walk(next, gcChain)
      BY <1>2, <2>1, WalkAdd
    <3> QED
      BY <1>1, <2>1, <3>1
  <2>3. OnChain(gcChain)' = Walk(next', gcChain')
    BY DEF OnChain, Walk, NextEdges, Closure
  <2> QED
    BY <1>1, <1>2, <2>2, <2>3 DEF Whole
<1>4. Acyclic'
  <2>1. \A y \in Obj, f \in Fld : at[<<y, f>>] # o
    <3>1. \A s \in Place : at[s] # o
      BY <1>1, TagsDistinct, Referred DEF SweepInv, MarkInv, IInv
    <3> QED
      BY <3>1, Places
  <2>2. ASSUME NEW S \in SUBSET Obj, S # {}
        PROVE  \E x \in S : \A y \in S, f \in Fld \ Cleared : at'[<<y, f>>] # x
    <3>1. CASE o \in S
      <4>1. \A y \in S, f \in Fld \ Cleared : at'[<<y, f>>] # o
        BY <2>1
      <4> QED
        BY <3>1, <4>1
    <3>2. CASE o \notin S
      <4>1. PICK x \in S : Unkept(S, x)
        BY <2>2 DEF SweepInv, Acyclic
      <4>2. \A y \in S, f \in Fld \ Cleared : at'[<<y, f>>] # x
        BY <3>2, <4>1 DEF Unkept
      <4> QED
        BY <4>2
    <3> QED
      BY <3>1, <3>2
  <2> QED
    BY <2>2 DEF Acyclic, Unkept
<1> QED
  BY <1>1, <1>3, <1>4, QuietKeepsSweep

LEMMA NewKeepsSweep ==
  ASSUME SweepInv, MarkInv', NEW o \in Obj, NEW h \in Holder,
         New(o, h) \/ \E f \in Fld \ Cleared, q \in Place : NewWith(o, h, f, q)
  PROVE  SweepInv'
<1>1. Create(o, h) /\ at \in [Place -> ObjOrNull] /\ o \notin live
  BY DEF New, NewWith, Create, SweepInv, MarkInv, IInv, Heap, HeapType
<1>2. CASE New(o, h)
  <2>1. at' = [at EXCEPT ![<<Vm, h>>] = o]
    BY <1>2 DEF New
  <2>2. \A y \in Obj, f \in Fld : <<y, f>> # <<Vm, h>>
    BY TagsDistinct
  <2>3. \A y \in Obj, f \in Fld : at'[<<y, f>>] = at[<<y, f>>]
    BY <1>1, <2>1, <2>2, Places
  <2> QED
    BY <1>1, <2>3, CreateKeepsSweep
<1>3. ASSUME NEW g \in Fld \ Cleared, NEW q \in Place, NewWith(o, h, g, q)
      PROVE  SweepInv'
  <2>1. at' = [at EXCEPT ![<<Vm, h>>] = o, ![<<o, g>>] = at[q]] /\ at[q] # Null
    BY <1>3 DEF NewWith
  <2>2. at[q] # o
    BY <1>1, <2>1, Referred DEF SweepInv, MarkInv, IInv
  <2>3. \A y \in Obj, f \in Fld : <<y, f>> # <<Vm, h>> /\ <<y, f>> \in Place
    BY TagsDistinct, Places
  <2>4. ASSUME NEW y \in Obj, NEW f \in Fld, at'[<<y, f>>] # at[<<y, f>>]
        PROVE  y = o /\ at'[<<y, f>>] # o
    <3>1. <<y, f>> = <<o, g>>
      BY <1>1, <2>1, <2>3, <2>4
    <3> QED
      BY <1>1, <2>1, <2>2, <2>3, <3>1
  <2> QED
    BY <1>1, <2>4, CreateKeepsSweep
<1> QED
  BY <1>2, <1>3

(* A destructor takes an object off the chain, away from where the sweep   *)
(* is: what the sweep is at, or has pinned, is not being destroyed.        *)
LEMMA UnlinkKeepsSweep ==
  ASSUME SweepInv, MarkInv', NEW o \in Obj, Unlink(o)
  PROVE  SweepInv'
<1> DEFINE ny == [x \in Obj |-> IF x = o THEN Null ELSE IF x = prev[o] THEN next[o] ELSE next[x]]
<1>1. /\ o \in linked /\ dtor[o] > 0 /\ linked' = linked \ {o} /\ next' = ny
      /\ gcChain' = IF prev[o] = Null THEN next[o] ELSE gcChain
      /\ UNCHANGED <<live, at, uiRef, dtor, depth, marked, tchain, pc, final>>
  BY DEF Unlink, Destroys, heap, RemoveFromChain, SweepInv, MarkInv, IInv, Heap, HeapType
<1>2. /\ next \in LinkType /\ prev \in LinkType /\ Links(linked, next, prev)
      /\ linked \in SUBSET Obj /\ gcChain \in ObjOrNull
      /\ gcChain # Null => gcChain \in linked /\ prev[gcChain] = Null
      /\ o \notin marked /\ o # Null
  BY <1>1, TagsDistinct
  DEF SweepInv, MarkInv, IInv, ChainType, ChainLinked, LinkType, Phase
<1> HIDE DEF ny
<1>3. Whole'
  <2>1. Walk(next, gcChain) = linked \ marked
    BY WalkIsOnChain DEF SweepInv, Whole
  <2>2. gcChain' = IF gcChain = o THEN next[o] ELSE gcChain
    <3>1. prev[o] = Null => o = gcChain
      BY <1>1, <1>2, <2>1, WalkHead
    <3>2. prev[o] # Null => o # gcChain
      BY <1>2
    <3> QED
      BY <1>1, <3>1, <3>2
  <2>3. Walk(ny, gcChain') = Walk(next, gcChain) \ {o}
    BY <1>1, <1>2, <2>2, WalkRemove DEF ny
  <2>4. OnChain(gcChain)' = Walk(next', gcChain')
    BY DEF OnChain, Walk, NextEdges, Closure
  <2> QED
    BY <1>1, <2>1, <2>3, <2>4 DEF Whole
<1>4. Passed'
  <2>1. Cur' = Cur
    BY <1>1 DEF Cur
  <2>2. Cur \in ObjOrNull /\ Cur # o /\ (Cur # Null => Cur \in linked)
    <3>1. Cur \in ObjOrNull /\ \E s \in Place : Cur = at[s]
      BY Places DEF Cur, SweepInv, MarkInv, IInv, Heap, HeapType
    <3>2. Cur # Null => Cur \in live /\ dtor[Cur] = 0
      BY <3>1, Referred DEF SweepInv, MarkInv, IInv
    <3> QED
      BY <1>1, <1>2, <3>1, <3>2 DEF SweepInv, MarkInv, IInv, ChainLinked, Dying
  <2>3. Walk(ny, Cur) = Walk(next, Cur) \ {o}
    BY <1>1, <1>2, <2>2, WalkRemove DEF ny
  <2>4. OnChain(Cur)' = Walk(next', Cur')
    BY DEF OnChain, Walk, NextEdges, Closure
  <2>5. OnChain(Cur)' = OnChain(Cur) \ {o}
    BY <1>1, <2>1, <2>3, <2>4, WalkIsOnChain
  <2>6. Dying' = Dying
    BY <1>1 DEF Dying
  <2> QED
    BY <1>1, <2>5, <2>6 DEF SweepInv, Passed
<1>5. Cover' /\ HoldersEmpty' /\ Acyclic' /\ Emptied'
  <2>1. Usable' = Usable
    BY <1>1, UsableSame
  <2>2. Acyclic'
    BY <1>1, AcyclicStays DEF SweepInv
  <2>3. Cover' /\ HoldersEmpty' /\ Emptied'
    BY <1>1, <2>1 DEF SweepInv, Cover, InSweep, HoldersEmpty, Emptied
  <2> QED
    BY <2>2, <2>3
<1> QED
  BY <1>3, <1>4, <1>5 DEF SweepInv

LEMMA FreeKeepsSweep ==
  ASSUME SweepInv, MarkInv', NEW o \in Obj, Free(o)
  PROVE  SweepInv'
<1>1. /\ live' = live \ {o} /\ dtor' = [dtor EXCEPT ![o] = 0] /\ o \notin linked
      /\ UNCHANGED <<at, uiRef, next, prev, gcChain, tchain, linked, marked, pc, final>>
      /\ dtor \in [Obj -> Nat]
  BY DEF Free, Destroys, chain, SweepInv, MarkInv, IInv, Heap, HeapType
<1>2. Whole'
  BY <1>1 DEF SweepInv, Whole, OnChain, Closure
<1>3. Cover' /\ HoldersEmpty' /\ Acyclic' /\ Emptied'
  <2>1. Usable' = Usable
    BY <1>1, UsableSame
  <2>2. Acyclic'
    BY <1>1, AcyclicStays DEF SweepInv
  <2>3. Cover' /\ HoldersEmpty' /\ Emptied'
    BY <1>1, <2>1 DEF SweepInv, Cover, InSweep, HoldersEmpty, Emptied
  <2> QED
    BY <2>2, <2>3
<1>4. Passed'
  <2>1. OnChain(Cur)' = OnChain(Cur)
    BY <1>1 DEF OnChain, Cur, Closure
  <2>2. \A x \in linked : x \in Dying => x \in Dying'
    BY <1>1 DEF Dying
  <2> QED
    BY <1>1, <2>1, <2>2 DEF SweepInv, Passed
<1> QED
  BY <1>2, <1>3, <1>4 DEF SweepInv

(* Marking moves an object to tchain, off the chain of the collector.      *)
LEMMA MarkKeepsSweep ==
  ASSUME SweepInv, MarkInv', NEW o \in Obj, MarkObject(o)
  PROVE  SweepInv'
<1> DEFINE ny == [x \in Obj |-> IF x = o THEN Null ELSE IF x = prev[o] THEN next[o] ELSE next[x]]
<1>1. /\ pc = "mark" /\ o \in Reach /\ o \notin marked /\ marked' = marked \cup {o}
      /\ next' = [ny EXCEPT ![o] = tchain]
      /\ gcChain' = IF prev[o] = Null THEN next[o] ELSE gcChain
      /\ UNCHANGED <<live, at, linked, pc, final>>
  BY DEF MarkObject, RemoveFromChain, AddToChain, heap
<1>2. /\ next \in LinkType /\ prev \in LinkType /\ Links(linked, next, prev)
      /\ linked \in SUBSET Obj /\ gcChain \in ObjOrNull /\ tchain \in ObjOrNull
      /\ gcChain # Null => gcChain \in linked /\ prev[gcChain] = Null
      /\ o # Null
  BY TagsDistinct DEF SweepInv, MarkInv, IInv, ChainType, ChainLinked, LinkType
<1>3. o \in linked
  BY <1>1, ReachIsReferred, Referred, <1>2
  DEF SweepInv, MarkInv, IInv, ChainLinked, Dying
<1>4. ny \in LinkType /\ next' \in LinkType
  BY <1>1, <1>2 DEF LinkType, ObjOrNull
<1>5. gcChain' \in ObjOrNull
  BY <1>1, <1>2 DEF LinkType
<1> HIDE DEF ny
<1>6. Whole'
  <2>1. Walk(next, gcChain) = linked \ marked
    BY WalkIsOnChain DEF SweepInv, Whole
  <2>2. gcChain' = IF gcChain = o THEN next[o] ELSE gcChain
    <3>1. prev[o] = Null => o = gcChain
      BY <1>1, <1>2, <1>3, <2>1, WalkHead
    <3>2. prev[o] # Null => o # gcChain
      BY <1>2
    <3> QED
      BY <1>1, <3>1, <3>2
  <2>3. Walk(ny, gcChain') = (linked \ marked) \ {o}
    BY <1>2, <1>3, <2>1, <2>2, WalkRemove DEF ny
  <2>4. \A x \in Walk(ny, gcChain') : next'[x] = ny[x]
    BY <1>1, <1>2, <1>4, <2>3 DEF LinkType
  <2>5. Walk(next', gcChain') = Walk(ny, gcChain')
    BY <1>4, <1>5, <2>4, WalkSame
  <2>6. OnChain(gcChain)' = Walk(next', gcChain')
    BY DEF OnChain, Walk, NextEdges, Closure
  <2> QED
    BY <1>1, <2>3, <2>5, <2>6 DEF Whole
<1>7. Acyclic'
  BY <1>1 DEF SweepInv, Acyclic, Unkept
<1> QED
  BY <1>1, <1>6, <1>7, QuietKeepsSweep

(* The sweep of a collection begins at the head of the chain, with all that*)
(* is usable marked; that of the shutdown with all holders empty.          *)
LEMMA BeginKeepsSweep ==
  ASSUME SweepInv, Covered, MarkInv', BeginSweep \/ BeginFinalSweep
  PROVE  SweepInv'
<1>1. /\ Set(T, gcChain) /\ pc' = "sweep"
      /\ UNCHANGED <<live, next, prev, gcChain, tchain, linked, marked>>
      /\ \/ pc = "mark" /\ final' = final /\ Reach \subseteq marked
         \/ final' = TRUE /\ \A h \in Holder : at[<<Vm, h>>] = Null
  BY DEF BeginSweep, BeginFinalSweep, chain
<1>2. OnlyAt(T, at, at') /\ at'[T] = gcChain
  BY <1>1, SetDying, Places DEF SweepInv, MarkInv
<1>3. /\ \A h \in Holder : at'[<<Vm, h>>] = at[<<Vm, h>>]
      /\ \A x \in Obj, f \in Fld : at'[<<x, f>>] = at[<<x, f>>]
  BY <1>2, LocalsApart DEF OnlyAt
<1>4. Whole' /\ OnChain(Cur)' = OnChain(gcChain)
  BY <1>1, <1>2 DEF SweepInv, Whole, OnChain, Cur, Closure
<1>5. Acyclic'
  BY <1>3, AcyclicStays DEF SweepInv
<1>6. Passed'
  BY <1>1, <1>4 DEF SweepInv, Whole, Passed
<1>7. Cover'
  BY <1>1, <1>3, UsableSame DEF Cover, InSweep, Covered
<1>8. HoldersEmpty' /\ Emptied'
  BY <1>1, <1>3 DEF SweepInv, MarkInv, Marks, HoldersEmpty, Emptied
<1> QED
  BY <1>4, <1>5, <1>6, <1>7, <1>8 DEF SweepInv

(* The walk goes on: the object it leaves behind has been finalized.       *)
LEMMA WalkKeepsSweep ==
  ASSUME SweepInv, MarkInv', PinNext \/ Unpin \/ Advance
  PROVE  SweepInv'
<1>1. /\ UNCHANGED <<live, next, prev, gcChain, tchain, linked, marked, final>>
      /\ pc \in {"sweep", "unpin", "advance"} /\ pc' \in {"sweep", "unpin", "advance"}
  BY DEF PinNext, Unpin, Advance, chain
<1>2. /\ \A q \in Place : q \notin {T, NX} => at'[q] = at[q]
      /\ Dying \subseteq Dying'
  <2>1. CASE \E p \in {T, NX}, v \in {next[at[T]], Null} : Set(p, v)
    BY <2>1, Places, SetDying DEF OnlyAt, SweepInv, MarkInv
  <2>2. CASE Advance
    BY <2>2 DEF Advance, Dying, SweepInv, MarkInv, IInv, Heap, HeapType
  <2> QED
    BY <2>1, <2>2 DEF PinNext, Unpin
<1>4. /\ \A h \in Holder : at'[<<Vm, h>>] = at[<<Vm, h>>]
      /\ \A x \in Obj, f \in Fld : at'[<<x, f>>] = at[<<x, f>>]
  BY <1>2, LocalsApart
<1>5. Usable' = Usable
  BY <1>4, UsableSame
<1>6. Whole' /\ Cover' /\ HoldersEmpty' /\ Emptied'
  BY <1>1, <1>4, <1>5 DEF SweepInv, Whole, OnChain, Closure, Cover, InSweep,
     HoldersEmpty, Emptied
<1>7. Acyclic'
  BY <1>4, AcyclicStays DEF SweepInv
<1>3. OnChain(Cur)' = Walk(next, Cur')
  BY <1>1 DEF OnChain, Walk, NextEdges, Closure
<1>8. CASE PinNext
  <2>1. /\ pc = "sweep" /\ at[T] # Null /\ pc' = "unpin" /\ at'[NX] = next[at[T]]
        /\ \A f \in Cleared : at[<<at[T], f>>] = Null
    BY <1>8, Places, SetDying DEF PinNext, SweepInv, MarkInv
  <2>2. at[T] \in Obj /\ next \in LinkType
    BY <2>1, Places DEF SweepInv, MarkInv, IInv, Heap, HeapType, ChainType, LinkType, ObjOrNull
  <2>3. OnChain(Cur) = {at[T]} \cup OnChain(Cur)'
    BY <1>3, <2>1, <2>2, WalkStep, WalkIsOnChain DEF Cur
  <2>4. Passed'
    <3> SUFFICES ASSUME NEW x \in linked, x \notin marked, x \notin Dying',
                        x \notin OnChain(Cur)', NEW f \in Cleared
                 PROVE  at'[<<x, f>>] = Null
      BY <1>1 DEF Passed
    <3>1. x \in Obj /\ f \in Fld /\ x \notin Dying
      BY <1>2, Scans DEF SweepInv, MarkInv, IInv, ChainType
    <3>2. at[<<x, f>>] = Null
      BY <1>1, <2>1, <2>3, <3>1 DEF SweepInv, Passed
    <3> QED
      BY <1>4, <3>1, <3>2
  <2> QED
    BY <1>6, <1>7, <2>4 DEF SweepInv
<1>9. CASE Unpin \/ Advance
  <2>1. Cur' = Cur
    BY <1>9, Places, SetDying DEF Unpin, Advance, Cur, OnlyAt, SweepInv, MarkInv, IInv,
       Heap, HeapType
  <2>2. OnChain(Cur)' = OnChain(Cur)
    BY <1>3, <2>1, WalkIsOnChain
  <2>3. \A x \in linked, f \in Cleared : at'[<<x, f>>] = at[<<x, f>>]
    BY <1>4, Scans DEF SweepInv, MarkInv, IInv, ChainType
  <2>4. Passed'
    BY <1>1, <1>2, <2>2, <2>3 DEF SweepInv, Passed
  <2> QED
    BY <1>6, <1>7, <2>4 DEF SweepInv
<1> QED
  BY <1>8, <1>9

(* A collection or the shutdown begins or ends.  When a collection ends,   *)
(* everything is on tchain; when the shutdown ends, nothing is left.       *)
LEMMA EndsKeepSweep ==
  ASSUME SweepInv, MarkInv',
         CollectGarbage \/ Shutdown \/ EndSweep \/ EndFinalSweep \/ UNCHANGED vars
  PROVE  SweepInv'
<1>1. UNCHANGED <<live, at, uiRef, dtor, depth, next, prev, linked>>
  BY DEF CollectGarbage, Shutdown, EndSweep, EndFinalSweep, vars, heap, chain
<1>2. Acyclic'
  BY <1>1 DEF SweepInv, Acyclic, Unkept
<1>3. CASE CollectGarbage \/ Shutdown
  <2>1. pc' \in {"mark", "closing"} /\ UNCHANGED <<gcChain, marked>>
    BY <1>3 DEF CollectGarbage, Shutdown, chain
  <2>2. Whole'
    BY <1>1, <2>1 DEF SweepInv, Whole, OnChain, Closure
  <2> QED
    BY <1>2, <2>1, <2>2, QuietKeepsSweep
<1>4. CASE EndSweep
  <2>1. /\ pc = "sweep" /\ depth = 0 /\ at[T] = Null /\ marked' = {} /\ gcChain' = tchain
        /\ pc' = "run"
    BY <1>4 DEF EndSweep
  <2>2. live = marked /\ linked = live
    BY <2>1, SweptIsGone, QuietLinked DEF SweepInv, MarkInv, IInv, Phase
  <2>3. OnChain(gcChain)' = OnChain(tchain)
    BY <1>1, <2>1 DEF OnChain, Closure
  <2>4. Whole'
    BY <1>1, <2>1, <2>2, <2>3 DEF SweepInv, MarkInv, Apart, Whole
  <2> QED
    BY <1>2, <2>1, <2>4, QuietKeepsSweep
<1>5. CASE EndFinalSweep
  <2>1. /\ pc = "sweep" /\ depth = 0 /\ at[T] = Null /\ final /\ pc' = "closed"
        /\ UNCHANGED <<gcChain, tchain, marked, final>>
    BY <1>5 DEF EndFinalSweep, chain
  <2>2. live = {}
    BY <2>1, SweptIsGone DEF SweepInv, MarkInv, Marks
  <2>3. Whole' /\ HoldersEmpty'
    BY <1>1, <2>1 DEF SweepInv, Whole, OnChain, Closure, HoldersEmpty
  <2>4. Cover' /\ Passed' /\ Emptied'
    BY <1>1, <2>1, <2>2 DEF Cover, InSweep, Passed, Emptied
  <2> QED
    BY <1>2, <2>3, <2>4 DEF SweepInv
<1>6. CASE UNCHANGED vars
  <2>1. UNCHANGED <<gcChain, tchain, marked, pc, final>>
    BY <1>6 DEF vars, chain
  <2>2. Whole' /\ HoldersEmpty' /\ Emptied'
    BY <1>1, <2>1 DEF SweepInv, Whole, OnChain, Closure, HoldersEmpty, Emptied
  <2>3. Cover'
    BY <1>1, <2>1 DEF SweepInv, Cover, InSweep, Usable, Roots, Edges, Closure
  <2>4. OnChain(Cur)' = OnChain(Cur) /\ Dying' = Dying
    BY <1>1, <2>1 DEF OnChain, Closure, Cur, Dying
  <2>5. Passed'
    BY <1>1, <2>1, <2>4 DEF SweepInv, Passed
  <2> QED
    BY <1>2, <2>2, <2>3, <2>5 DEF SweepInv
<1> QED
  BY <1>3, <1>4, <1>5, <1>6

-----------------------------------------------------------------------------
(* The invariant.                                                          *)

LEMMA InitSweepInv == Init => SweepInv
<1> SUFFICES ASSUME Init PROVE SweepInv
  OBVIOUS
<1>1. MarkInv
  BY InitMarkInv
<1>2. Whole /\ Cover /\ Passed /\ HoldersEmpty /\ Emptied
  BY DEF Init, Whole, OnChain, Cover, InSweep, Passed, HoldersEmpty, Emptied
<1>3. Acyclic
  BY Places, TagsDistinct DEF Init, Acyclic, Unkept
<1> QED
  BY <1>1, <1>2, <1>3 DEF SweepInv

LEMMA NextKeepsSweepInv == SweepInv /\ Covered /\ [Next]_vars => SweepInv'
<1> SUFFICES ASSUME SweepInv, Covered, [Next]_vars PROVE SweepInv'
  OBVIOUS
<1>1. MarkInv'
  BY NextKeepsMarkInv DEF SweepInv
<1>2. CASE Script
  <2>1. ASSUME NEW o \in Obj, NEW h \in Holder, New(o, h) PROVE SweepInv'
    BY <1>1, <2>1, NewKeepsSweep
  <2>2. ASSUME NEW o \in Obj, NEW h \in Holder, NEW f \in Fld \ Cleared, NEW q \in Place,
               NewWith(o, h, f, q)
        PROVE  SweepInv'
    BY <1>1, <2>2, NewKeepsSweep
  <2>3. ASSUME NEW p \in Place, NEW q \in Place, Assign(p, q) PROVE SweepInv'
    BY <1>1, <2>3, AssignKeepsSweep
  <2>4. ASSUME NEW p \in Place, NullSlot(p) PROVE SweepInv'
    <3>1. p # T /\ p # NX
      BY <2>4, LocalsApart DEF NullSlot, Writable, VmPlace, FldPlace
    <3> QED
      BY <1>1, <2>4, <3>1, NullingKeepsSweep DEF NullSlot
  <2> QED
    BY <1>1, <1>2, <2>1, <2>2, <2>3, <2>4, EndsKeepSweep DEF Script
<1>3. CASE Destruct
  <2>1. ASSUME NEW o \in Obj, NEW f \in Fld, DropField(o, f) PROVE SweepInv'
    BY <1>1, <2>1, LocalsApart, NullingKeepsSweep DEF DropField
  <2>2. ASSUME NEW o \in Obj, Unlink(o) \/ Free(o) PROVE SweepInv'
    BY <1>1, <2>2, UnlinkKeepsSweep, FreeKeepsSweep
  <2> QED
    BY <1>3, <2>1, <2>2 DEF Destruct
<1>4. CASE Collect
  <2>1. ASSUME NEW o \in Obj, MarkObject(o) PROVE SweepInv'
    BY <1>1, <2>1, MarkKeepsSweep
  <2>2. ASSUME NEW f \in Fld, Finalize(f) PROVE SweepInv'
    <3>1. at[T] \in Obj
      BY <2>2, Places DEF Finalize, SweepInv, MarkInv, IInv, Heap, HeapType, ObjOrNull
    <3> QED
      BY <1>1, <2>2, <3>1, LocalsApart, NullingKeepsSweep DEF Finalize
  <2> QED
    BY <1>1, <1>4, <2>1, <2>2, BeginKeepsSweep, WalkKeepsSweep, EndsKeepSweep DEF Collect
<1>5. CASE Close
  <2>1. ASSUME NEW h \in Holder, NullHolder(h) PROVE SweepInv'
    BY <1>1, <2>1, LocalsApart, NullingKeepsSweep DEF NullHolder
  <2> QED
    BY <1>1, <1>5, <2>1, BeginKeepsSweep, EndsKeepSweep DEF Close
<1>6. CASE UNCHANGED vars
  BY <1>1, <1>6, EndsKeepSweep
<1> QED
  BY <1>2, <1>3, <1>4, <1>5, <1>6 DEF Next

-----------------------------------------------------------------------------
THEOREM SweepInvariance == Spec /\ []Covered => []SweepInv
BY InitSweepInv, NextKeepsSweepInv, PTL DEF Spec

(* Nothing the sweep finalizes can the script still get at.                *)
THEOREM OnlyGarbageIsSwept == Spec /\ []Covered => []SweepsGarbage
<1>1. SweepInv => SweepsGarbage
  BY DEF SweepInv, MarkInv, Pins, Cover, InSweep, SweepsGarbage
<1> QED
  BY <1>1, SweepInvariance, PTL

(* While the script runs, every object is on the chain of the collector.   *)
THEOREM ChainHoldsAll == Spec /\ []Covered => []ChainComplete
<1>1. SweepInv => ChainComplete
  <2> SUFFICES ASSUME SweepInv, Running PROVE OnChain(gcChain) = live
    BY DEF ChainComplete
  <2>1. marked = {} /\ linked = live
    BY QuietLinked DEF Running, SweepInv, MarkInv, Marks
  <2> QED
    BY <2>1 DEF SweepInv, Whole
<1> QED
  BY <1>1, SweepInvariance, PTL

(* The shutdown frees everything, and the assertion behind it holds: what  *)
(* makes it fail in a run is a holder the marker leaves out.               *)
THEOREM ShutdownFreesAll == Spec /\ []Covered => [](ClosedFreesAll /\ AssertChainEmpty)
<1>1. SweepInv => ClosedFreesAll /\ AssertChainEmpty
  <2> SUFFICES ASSUME SweepInv, pc = "closed" PROVE live = {} /\ gcChain = Null
    BY DEF ClosedFreesAll, AssertChainEmpty
  <2>1. live = {} /\ linked = {}
    BY DEF SweepInv, Emptied, MarkInv, IInv, ChainLinked
  <2> QED
    BY <2>1 DEF SweepInv, MarkInv, IInv, ChainLinked
<1> QED
  BY <1>1, SweepInvariance, PTL

(* When a collection returns, what is left is what the script can reach.   *)
THEOREM CollectionIsComplete == Spec /\ []Covered => CollectComplete
<1>1. SweepInv /\ [Next]_vars => [pc = "sweep" /\ pc' = "run" => live' = Usable']_vars
  <2> SUFFICES ASSUME SweepInv, Next, pc = "sweep", pc' = "run" PROVE live' = Usable'
    OBVIOUS
  <2>1. EndSweep
    BY DEF Next, Script, Destruct, Collect, Close, New, NewWith, Create, Assign, NullSlot,
       CollectGarbage, Shutdown, Running, Unlink, Free, DropField, MarkObject, Finalize,
       BeginSweep, PinNext, Unpin, Advance, BeginFinalSweep, EndFinalSweep, NullHolder
  <2>2. depth = 0 /\ at[T] = Null /\ ~final /\ live' = live /\ at' = at
    BY <2>1 DEF EndSweep, heap
  <2>3. live = Usable
    BY <2>2, SweptIsGone DEF SweepInv, MarkInv, IInv, Phase
  <2>4. Usable' = Usable
    BY <2>2 DEF Usable, Roots, Edges, Closure
  <2> QED
    BY <2>2, <2>3, <2>4
<1> QED
  BY <1>1, SweepInvariance, PTL DEF Spec, CollectComplete

(* Where the marker leaves no holder and no field out, the hypothesis is   *)
(* nothing to assume.                                                      *)
THEOREM FullScanCollects ==
  ASSUME Scanned = Holder, MarkedFld = Fld
  PROVE  Spec => [](SweepsGarbage /\ ChainComplete /\ ClosedFreesAll) /\ CollectComplete
<1>1. Covered
  BY DEF Covered, Usable, Reach
<1>2. []Covered
  BY <1>1, PTL
<1> QED
  BY <1>2, OnlyGarbageIsSwept, ChainHoldsAll, ShutdownFreesAll, CollectionIsComplete, PTL
=============================================================================
