-------------------------- MODULE Collector_proofs --------------------------
(***************************************************************************)
(* Proofs about Collector, for every set of objects, holders and fields    *)
(* and whatever holders and fields the collector fails to scan.            *)
(***************************************************************************)
EXTENDS Collector, FiniteSetTheorems, TLAPS

-----------------------------------------------------------------------------
(* Lemmas about counting the places that refer to an object.               *)

(* The places are finitely many.                                           *)
LEMMA PlaceFinite == IsFiniteSet(Place)
<1>1. IsFiniteSet(FldPlace)
  BY FinitelyMany, FS_Product DEF FldPlace
<1>2. IsFiniteSet({Vm}) /\ IsFiniteSet({T}) /\ IsFiniteSet({NX})
  BY FS_Singleton
<1>3. IsFiniteSet(VmPlace)
  BY <1>2, FinitelyMany, FS_Product DEF VmPlace
<1>4. IsFiniteSet({T} \cup {NX})
  BY <1>2, FS_Union
<1>5. IsFiniteSet(VmPlace \cup ({T} \cup {NX}))
  BY <1>3, <1>4, FS_Union
<1>6. IsFiniteSet(FldPlace \cup (VmPlace \cup ({T} \cup {NX})))
  BY <1>1, <1>5, FS_Union
<1>7. Place = FldPlace \cup (VmPlace \cup ({T} \cup {NX}))
  BY DEF Place
<1> QED
  BY <1>6, <1>7

(* The references to an object are finitely many, so they can be counted.  *)
LEMMA RefsFinite ==
  ASSUME NEW a, NEW o
  PROVE  /\ IsFiniteSet(RefsIn(a, o))
         /\ Cardinality(RefsIn(a, o)) \in Nat
<1>1. RefsIn(a, o) \subseteq Place
  BY DEF RefsIn
<1>2. IsFiniteSet(RefsIn(a, o))
  BY <1>1, PlaceFinite, FS_Subset
<1> QED
  BY <1>2, FS_CardinalityType

(* An object some place refers to is counted at least once.                *)
LEMMA ReferredCounts ==
  ASSUME NEW a, NEW p \in Place, NEW o, a[p] = o
  PROVE  Cardinality(RefsIn(a, o)) > 0
<1>1. p \in RefsIn(a, o)
  BY DEF RefsIn
<1>2. Cardinality(RefsIn(a, o)) # 0
  BY <1>1, RefsFinite, FS_EmptySet
<1> QED
  BY <1>2, RefsFinite

Hit(x, o) == IF x = o THEN 1 ELSE 0
OnlyAt(p, a, b) == \A q \in Place : q # p => b[q] = a[q]

(* Changing one place changes the count of its new value and of its old    *)
(* one, and of nothing else.                                               *)
LEMMA OverwriteCounts ==
  ASSUME NEW a, NEW b, NEW p \in Place, NEW o,
         OnlyAt(p, a, b)
  PROVE  Cardinality(RefsIn(b, o))
           = Cardinality(RefsIn(a, o)) + Hit(b[p], o) - Hit(a[p], o)
<1>1. IsFiniteSet(RefsIn(a, o)) /\ IsFiniteSet(RefsIn(b, o))
  BY RefsFinite
<1>2. Cardinality(RefsIn(a, o)) \in Nat /\ Cardinality(RefsIn(b, o)) \in Nat
  BY RefsFinite
<1>3. CASE b[p] = o /\ a[p] = o
  <2>1. RefsIn(b, o) = RefsIn(a, o)
    BY <1>3 DEF RefsIn, OnlyAt
  <2> QED
    BY <2>1, <1>2, <1>3 DEF Hit
<1>4. CASE b[p] = o /\ a[p] # o
  <2>1. RefsIn(b, o) = RefsIn(a, o) \cup {p} /\ p \notin RefsIn(a, o)
    BY <1>4 DEF RefsIn, OnlyAt
  <2>2. Cardinality(RefsIn(b, o)) = Cardinality(RefsIn(a, o)) + 1
    BY <2>1, <1>1, FS_AddElement
  <2> QED
    BY <2>2, <1>2, <1>4 DEF Hit
<1>5. CASE b[p] # o /\ a[p] = o
  <2>1. RefsIn(b, o) = RefsIn(a, o) \ {p} /\ p \in RefsIn(a, o)
    BY <1>5 DEF RefsIn, OnlyAt
  <2>2. Cardinality(RefsIn(b, o)) = Cardinality(RefsIn(a, o)) - 1
    BY <2>1, <1>1, FS_RemoveElement
  <2> QED
    BY <2>2, <1>2, <1>5 DEF Hit
<1>6. CASE b[p] # o /\ a[p] # o
  <2>1. RefsIn(b, o) = RefsIn(a, o)
    BY <1>6 DEF RefsIn, OnlyAt
  <2> QED
    BY <2>1, <1>2, <1>6 DEF Hit
<1> QED
  BY <1>3, <1>4, <1>5, <1>6

-----------------------------------------------------------------------------
(* The inductive invariant.  RefCountExact is not inductive: what the      *)
(* sweep reads from a chain link must be allocated, and a destructor must  *)
(* not run on an object that is still referred to.                         *)

HeapType ==
    /\ live \subseteq Obj
    /\ at \in [Place -> ObjOrNull]
    /\ uiRef \in [Obj -> Nat]
    /\ dtor \in [Obj -> Nat] /\ depth \in Nat

ChainType ==
    /\ linked \subseteq Obj
    /\ next \in [Obj -> ObjOrNull] /\ prev \in [Obj -> ObjOrNull]
    /\ gcChain \in ObjOrNull /\ tchain \in ObjOrNull

ControlType ==
    /\ marked \subseteq Obj
    /\ pc \in {"run", "mark", "sweep", "unpin", "advance", "closing", "closed"}
    /\ final \in BOOLEAN

(* Memory that is free, or that a destructor is working on, is not counted;*)
(* destructors are nested.                                                 *)
Deaths ==
    /\ \A o \in Obj : o \notin live \/ dtor[o] > 0 => uiRef[o] = 0
    /\ \A o \in Obj : dtor[o] > 0 => o \in live
    /\ \A o \in Obj : dtor[o] <= depth
    /\ \A o, p \in Obj : dtor[o] > 0 /\ dtor[o] = dtor[p] => o = p

(* Free memory refers to nothing.                                          *)
Blank == \A o \in Obj, f \in Fld : o \notin live => at[<<o, f>>] = Null

Heap == HeapType /\ RefCountExact /\ Deaths /\ Blank

(* The two chains are apart, and tchain is in use only while objects are   *)
(* marked.                                                                 *)
Heads ==
    /\ tchain # Null => tchain \in marked
    /\ gcChain = tchain => gcChain = Null
    /\ pc = "run" => tchain = Null

Phase ==
    /\ pc = "advance" => at[T] = Null
    /\ marked \subseteq live
    /\ \A o \in marked : dtor[o] = 0

IInv == Heap /\ ChainType /\ ControlType /\ ChainLinked /\ Heads /\ Phase

(* Whatever a place refers to is allocated and not being destroyed.        *)
LEMMA Referred ==
  ASSUME Heap, NEW p \in Place, at[p] # Null
  PROVE  /\ at[p] \in Obj
         /\ uiRef[at[p]] > 0
         /\ at[p] \in live
         /\ dtor[at[p]] = 0
<1>1. at[p] \in Obj
  BY DEF Heap, HeapType, ObjOrNull
<1>2. uiRef[at[p]] = Cardinality(RefsIn(at, at[p]))
  BY <1>1 DEF Heap, RefCountExact, Refs
<1>3. uiRef[at[p]] > 0
  BY <1>2, ReferredCounts
<1> QED
  BY <1>1, <1>3 DEF Heap, HeapType, Deaths

(* Null is no address, so AddRef and DropRef leave all counts alone on it. *)
LEMMA NullIsNotCounted ==
  ASSUME NEW r \in [Obj -> Nat]
  PROVE  AddRef(r, Null) = r /\ DropRef(r, Null) = r
BY TagsDistinct DEF AddRef, DropRef

(* Overwriting a place with null or with an object that is not dying keeps *)
(* the heap in order, destruction of the old value included.               *)
LEMMA SetKeepsHeap ==
  ASSUME Heap, NEW p \in Place, NEW v \in ObjOrNull,
         v # Null => v \in live /\ dtor[v] = 0,
         p \in FldPlace => v = Null \/ p[1] \in live,
         Set(p, v), live' = live
  PROVE  Heap'
<1> DEFINE old == at[p]
           r == DropRef(AddRef(uiRef, v), old)
           dies == old # Null /\ old \notin marked /\ r[old] = 0
<1>1. /\ at' = [at EXCEPT ![p] = v]
      /\ uiRef' = r
      /\ depth' = IF dies THEN depth + 1 ELSE depth
      /\ dtor' = IF dies THEN [dtor EXCEPT ![old] = depth + 1] ELSE dtor
  BY DEF Set
<1>2. old # Null => old \in Obj /\ uiRef[old] > 0 /\ old \in live /\ dtor[old] = 0
  BY Referred
<1>3. \A o \in Obj : r[o] = uiRef[o] + Hit(v, o) - Hit(old, o)
  BY DEF Heap, HeapType, AddRef, DropRef, Hit
<1> HIDE DEF r
<1>4. \A o \in Obj : r[o] \in Nat
  BY <1>2, <1>3, TagsDistinct DEF Heap, HeapType, Hit
<1>5. HeapType'
  <2>1. at' \in [Place -> ObjOrNull]
    BY <1>1 DEF Heap, HeapType
  <2>2. uiRef' \in [Obj -> Nat]
    BY <1>1, <1>4 DEF DropRef, r
  <2>3. dtor' \in [Obj -> Nat] /\ depth' \in Nat
    <3> HIDE DEF old
    <3>1. CASE dies
      <4>1. depth' = depth + 1 /\ dtor' = [dtor EXCEPT ![old] = depth + 1]
        BY <1>1, <3>1
      <4>2. depth + 1 \in Nat /\ dtor \in [Obj -> Nat]
        BY DEF Heap, HeapType
      <4> QED
        BY <4>1, <4>2
    <3>2. CASE ~dies
      BY <1>1, <3>2 DEF Heap, HeapType
    <3> QED
      BY <3>1, <3>2
  <2> QED
    BY <2>1, <2>2, <2>3 DEF Heap, HeapType
<1>6. RefCountExact'
  <2> SUFFICES ASSUME NEW o \in Obj
               PROVE  r[o] = Cardinality(RefsIn(at', o))
    BY <1>1 DEF RefCountExact, Refs
  <2>1. uiRef[o] = Cardinality(RefsIn(at, o))
    BY DEF Heap, RefCountExact, Refs
  <2>2. at'[p] = v
    BY <1>1 DEF Heap, HeapType
  <2>3. OnlyAt(p, at, at')
    BY <1>1 DEF Heap, HeapType, OnlyAt
  <2>4. Cardinality(RefsIn(at', o))
           = Cardinality(RefsIn(at, o)) + Hit(at'[p], o) - Hit(at[p], o)
    BY <2>3, OverwriteCounts
  <2> QED
    BY <2>1, <2>2, <2>4, <1>3
<1>7. Deaths'
  <2>1. \A o \in Obj : o \notin live \/ dtor[o] > 0 => r[o] = 0
    BY <1>2, <1>3, TagsDistinct DEF Heap, HeapType, Deaths, Hit
  <2>2. CASE dies
    <3>1. old \in Obj /\ old \in live /\ r[old] = 0
      BY <2>2, <1>2
    <3>2. depth' = depth + 1 /\ dtor' = [dtor EXCEPT ![old] = depth + 1]
      BY <2>2, <1>1
    <3> HIDE DEF old, r, dies
    <3> QED
      BY <2>1, <3>1, <3>2, <1>1 DEF Heap, HeapType, Deaths
  <2>3. CASE ~dies
    <3>1. depth' = depth /\ dtor' = dtor
      BY <2>3, <1>1
    <3> QED
      BY <2>1, <3>1, <1>1 DEF Heap, Deaths
  <2> QED
    BY <2>2, <2>3
<1>8. Blank'
  <2> SUFFICES ASSUME NEW o \in Obj, NEW f \in Fld, o \notin live
               PROVE  at'[<<o, f>>] = Null
    BY DEF Blank
  <2>1. at[<<o, f>>] = Null /\ <<o, f>> \in FldPlace /\ <<o, f>> \in Place
    BY DEF Heap, Blank, FldPlace, Place
  <2>2. p = <<o, f>> => v = Null
    BY <2>1
  <2> QED
    BY <2>1, <2>2, <1>1 DEF Heap, HeapType
<1> QED
  BY <1>5, <1>6, <1>7, <1>8 DEF Heap
-----------------------------------------------------------------------------
(* Lemmas about the chain primitives.                                      *)

LinkType == [Obj -> ObjOrNull]

(* The objects of L are doubly linked and head starts a chain of them.     *)
Chained(L, nx, pv, head) ==
    /\ L \subseteq Obj /\ nx \in LinkType /\ pv \in LinkType
    /\ Links(L, nx, pv)
    /\ head # Null => head \in L /\ pv[head] = Null

(* No head other than h gets a predecessor.                                *)
KeepsHeads(L, h, pv, qv) == \A x \in L : x # h /\ pv[x] = Null => qv[x] = Null

(* Adding an object in front of a head keeps the chain.                    *)
LEMMA AddKeepsChain ==
  ASSUME NEW L, NEW nx, NEW pv, NEW head, Chained(L, nx, pv, head),
         NEW c \in Obj, c \notin L
  PROVE  LET a == AddToChain(nx, pv, head, c)
         IN  /\ Chained(L \cup {c}, a.next, a.prev, a.head)
             /\ KeepsHeads(L, head, pv, a.prev)
             /\ a.head = c
<1> DEFINE a == AddToChain(nx, pv, head, c)
<1>1. /\ a.head = c
      /\ a.next = [nx EXCEPT ![c] = head]
      /\ a.prev = [o \in Obj |-> IF o = c THEN Null ELSE IF o = head THEN c ELSE pv[o]]
  BY DEF AddToChain
<1> HIDE DEF a
<1>2. L \subseteq Obj /\ nx \in LinkType /\ pv \in LinkType /\ head \in ObjOrNull
  BY DEF Chained, ObjOrNull
<1>3. a.next \in LinkType /\ a.prev \in LinkType
  BY <1>1, <1>2 DEF LinkType, ObjOrNull
<1>4. Links(L \cup {c}, a.next, a.prev)
  BY <1>1, TagsDistinct DEF Chained, Links, LinkType, ObjOrNull
<1>5. a.prev[c] = Null /\ KeepsHeads(L, head, pv, a.prev)
  BY <1>1, <1>2 DEF KeepsHeads
<1> QED
  BY <1>1, <1>2, <1>3, <1>4, <1>5 DEF a, Chained

(* Removing an object from a chain, or from another one, keeps the chain.  *)
LEMMA RemoveKeepsChain ==
  ASSUME NEW head, Chained(linked, next, prev, head), NEW c \in linked
  PROVE  LET r == RemoveFromChain(head, c)
         IN  /\ Chained(linked \ {c}, r.next, r.prev, r.head)
             /\ KeepsHeads(linked, c, prev, r.prev)
             /\ r.head = head \/ r.head = next[c]
<1> DEFINE r == RemoveFromChain(head, c)
<1>1. /\ r.head = IF prev[c] = Null THEN next[c] ELSE head
      /\ r.next = [o \in Obj |-> IF o = c THEN Null ELSE IF o = prev[c] THEN next[c] ELSE next[o]]
      /\ r.prev = [o \in Obj |-> IF o = c THEN Null ELSE IF o = next[c] THEN prev[c] ELSE prev[o]]
  BY DEF RemoveFromChain
<1> HIDE DEF r
<1>2. linked \subseteq Obj /\ next \in LinkType /\ prev \in LinkType
  BY DEF Chained
<1>3. r.next \in LinkType /\ r.prev \in LinkType
  BY <1>1, <1>2 DEF LinkType, ObjOrNull
<1>4. Links(linked \ {c}, r.next, r.prev)
  BY <1>1, TagsDistinct DEF Chained, Links, LinkType, ObjOrNull
<1>5. KeepsHeads(linked, c, prev, r.prev)
  BY <1>1, <1>2, TagsDistinct DEF KeepsHeads, Chained, Links, LinkType, ObjOrNull
<1>6. r.head # Null => r.head \in linked \ {c} /\ r.prev[r.head] = Null
  BY <1>1, <1>2, TagsDistinct DEF Chained, Links, LinkType, ObjOrNull
<1> QED
  BY <1>1, <1>2, <1>3, <1>4, <1>5, <1>6 DEF r, Chained

-----------------------------------------------------------------------------
(* The steps.                                                              *)

(* A step that does nothing but overwrite a place, from one control point  *)
(* to the next, keeps the invariant.                                       *)
LEMMA SetKeepsIInv ==
  ASSUME IInv, NEW p \in Place, NEW v \in ObjOrNull,
         v # Null => v \in live /\ dtor[v] = 0,
         p \in FldPlace => v = Null \/ p[1] \in live,
         Set(p, v), UNCHANGED <<live, chain, marked>>,
         ControlType',
         pc' = "run" => pc = "run",
         pc' = "advance" => (pc = "advance" /\ p # T) \/ (p = T /\ v = Null)
  PROVE  IInv'
<1> USE DEF chain
<1>1. Heap'
  BY SetKeepsHeap DEF IInv
<1>2. ChainType'
  BY DEF IInv, ChainType
<1>3. \A o \in Obj : dtor[o] > 0 => dtor'[o] > 0
  BY DEF Set, IInv, Heap, HeapType
<1>4. \A o \in marked : dtor'[o] = dtor[o]
  BY DEF Set, IInv, Heap, HeapType, ControlType
<1>5. ChainLinked'
  <2>1. (live \ Dying)' \subseteq linked
    BY <1>3 DEF IInv, ChainLinked, Dying, Heap, HeapType
  <2> QED
    BY <2>1 DEF IInv, ChainLinked
<1>6. Heads'
  BY DEF IInv, Heads
<1>7. Phase'
  <2>1. pc' = "advance" => at'[T] = Null
    BY DEF IInv, Phase, Set, Heap, HeapType, Place
  <2> QED
    BY <2>1, <1>4 DEF IInv, Phase
<1> QED
  BY <1>1, <1>2, <1>5, <1>6, <1>7 DEF IInv

(* The places of the model.                                                *)
LEMMA Places ==
  /\ T \in Place /\ NX \in Place /\ T # NX
  /\ \A h \in Holder : <<Vm, h>> \in Place /\ <<Vm, h>> # T
  /\ \A o \in Obj, f \in Fld : <<o, f>> \in Place /\ <<o, f>> # T
  /\ Writable \subseteq Place /\ Readable \subseteq Place /\ T \notin Writable
BY TagsDistinct DEF Place, FldPlace, VmPlace, T, NX, Writable, Readable

(* Init: nothing is allocated.                                             *)
LEMMA InitIInv == Init => IInv
<1> SUFFICES ASSUME Init PROVE IInv
  OBVIOUS
<1>1. \A o \in Obj : Cardinality(RefsIn(at, o)) = 0
  <2> SUFFICES ASSUME NEW o \in Obj PROVE Cardinality(RefsIn(at, o)) = 0
    OBVIOUS
  <2>1. RefsIn(at, o) = {}
    BY TagsDistinct DEF Init, RefsIn
  <2> QED
    BY <2>1, FS_EmptySet
<1>2. Heap
  BY <1>1 DEF Init, Heap, HeapType, RefCountExact, Refs, Deaths, Blank, FldPlace, Place, ObjOrNull
<1>3. ChainType /\ ControlType
  BY DEF Init, ChainType, ControlType, ObjOrNull
<1>4. ChainLinked
  BY DEF Init, ChainLinked, Links
<1>5. Heads /\ Phase
  BY Places DEF Init, Heads, Phase
<1> QED
  BY <1>2, <1>3, <1>4, <1>5 DEF IInv

(* Creation puts the new object in front of the chain.                     *)
LEMMA CreateKeepsChain ==
  ASSUME IInv, NEW o \in Obj, NEW h \in Holder, Create(o, h)
  PROVE  ChainType' /\ ControlType' /\ ChainLinked' /\ Heads' /\ Phase'
<1> DEFINE c == AddToChain(next, prev, gcChain, o)
<1>1. /\ o \notin live /\ o \notin linked
      /\ live' = live \cup {o} /\ linked' = linked \cup {o}
      /\ next' = c.next /\ prev' = c.prev /\ gcChain' = c.head
      /\ UNCHANGED <<marked, tchain, dtor, depth, pc, final>>
      /\ pc = "run" /\ tchain = Null
  BY DEF Create, Running, IInv, ChainLinked, Heads
<1>2. Chained(linked, next, prev, gcChain) /\ o \notin linked
  BY <1>1 DEF IInv, ChainType, ChainLinked, Chained, LinkType
<1> HIDE DEF c
<1>3. Chained(linked', next', prev', gcChain') /\ gcChain' = o
  BY <1>1, <1>2, AddKeepsChain DEF c
<1>4. ChainType' /\ ControlType'
  BY <1>1, <1>3 DEF IInv, Chained, ChainType, ControlType, LinkType, ObjOrNull
<1>5. ChainLinked'
  BY <1>1, <1>3 DEF IInv, Chained, ChainLinked, Dying
<1>6. Heads'
  BY <1>1, <1>3, TagsDistinct DEF IInv, Heads
<1>7. Phase'
  BY <1>1 DEF IInv, Phase
<1> QED
  BY <1>4, <1>5, <1>6, <1>7

(* A new object, referred to by the holder it is put in.                   *)
LEMMA NewKeepsIInv ==
  ASSUME IInv, NEW o \in Obj, NEW h \in Holder, New(o, h)
  PROVE  IInv'
<1> DEFINE p == <<Vm, h>>
<1>1. p \in Place /\ at[p] = Null /\ o # Null
  BY Places, TagsDistinct DEF New, Create
<1>2. /\ Create(o, h) /\ live' = live \cup {o} /\ o \notin live
      /\ at' = [at EXCEPT ![p] = o] /\ uiRef' = AddRef(uiRef, o)
      /\ UNCHANGED <<dtor, depth>>
  BY DEF New, Create
<1> HIDE DEF p
<1>3. OnlyAt(p, at, at') /\ at'[p] = o
  BY <1>1, <1>2 DEF OnlyAt, IInv, Heap, HeapType
<1>4. HeapType'
  <2>1. at' \in [Place -> ObjOrNull]
    BY <1>2 DEF IInv, Heap, HeapType, ObjOrNull
  <2>2. uiRef' \in [Obj -> Nat]
    BY <1>2 DEF IInv, Heap, HeapType, AddRef
  <2> QED
    BY <2>1, <2>2, <1>2 DEF IInv, Heap, HeapType
<1>5. RefCountExact'
  <2> SUFFICES ASSUME NEW x \in Obj
               PROVE  uiRef'[x] = Cardinality(RefsIn(at', x))
    BY DEF RefCountExact, Refs
  <2>1. Cardinality(RefsIn(at', x))
          = Cardinality(RefsIn(at, x)) + Hit(at'[p], x) - Hit(at[p], x)
    BY <1>1, <1>3, OverwriteCounts
  <2>2. uiRef[x] = Cardinality(RefsIn(at, x)) /\ uiRef[x] \in Nat
    BY DEF IInv, Heap, HeapType, RefCountExact, Refs
  <2>3. uiRef'[x] = uiRef[x] + Hit(o, x)
    BY <1>2, <2>2 DEF AddRef, Hit
  <2>4. Hit(at[p], x) = 0 /\ Hit(at'[p], x) = Hit(o, x) /\ Hit(o, x) \in Nat
    BY <1>1, <1>3, TagsDistinct DEF Hit
  <2> QED
    BY <2>1, <2>2, <2>3, <2>4
<1>6. Deaths'
  BY <1>2 DEF IInv, Heap, HeapType, Deaths, AddRef
<1>7. Blank'
  <2> SUFFICES ASSUME NEW x \in Obj, NEW f \in Fld, x \notin live'
               PROVE  at'[<<x, f>>] = Null
    BY DEF Blank
  <2>1. at[<<x, f>>] = Null /\ <<x, f>> \in Place /\ <<x, f>> # p
    BY <1>2, TagsDistinct DEF IInv, Heap, Blank, FldPlace, Place, p
  <2> QED
    BY <2>1, <1>3 DEF OnlyAt
<1>8. Heap'
  BY <1>4, <1>5, <1>6, <1>7 DEF Heap
<1> QED
  BY <1>2, <1>8, CreateKeepsChain DEF IInv

(* A new object that refers from the start to an older one.                *)
LEMMA NewWithKeepsIInv ==
  ASSUME IInv, NEW o \in Obj, NEW h \in Holder, NEW f \in Fld \ Cleared,
         NEW q \in Place, NewWith(o, h, f, q)
  PROVE  IInv'
<1> DEFINE p == <<Vm, h>>
           s == <<o, f>>
           v == at[q]
           a == [at EXCEPT ![p] = o]
<1>1. /\ Create(o, h) /\ live' = live \cup {o} /\ o \notin live /\ o # Null
      /\ at' = [at EXCEPT ![p] = o, ![s] = v]
      /\ uiRef' = AddRef(AddRef(uiRef, o), v)
      /\ at[p] = Null /\ v # Null
      /\ UNCHANGED <<dtor, depth>>
  BY TagsDistinct DEF NewWith, Create
<1>2. p \in Place /\ s \in Place /\ s # p /\ at[s] = Null
  BY <1>1, Places, TagsDistinct DEF IInv, Heap, Blank
<1>3. v \in Obj /\ v \in live /\ dtor[v] = 0 /\ v # o
  BY <1>1, Referred DEF IInv
<1> HIDE DEF p, s, v
<1>4. OnlyAt(p, at, a) /\ a[p] = o /\ a[s] = Null
  BY <1>2 DEF OnlyAt, IInv, Heap, HeapType
<1>5. OnlyAt(s, a, at') /\ at'[s] = v
  BY <1>1, <1>2 DEF OnlyAt, IInv, Heap, HeapType
<1> HIDE DEF a
<1>6. HeapType'
  <2>1. at' \in [Place -> ObjOrNull]
    BY <1>1, <1>3 DEF IInv, Heap, HeapType, ObjOrNull
  <2>2. uiRef' \in [Obj -> Nat]
    BY <1>1 DEF IInv, Heap, HeapType, AddRef
  <2> QED
    BY <2>1, <2>2, <1>1 DEF IInv, Heap, HeapType
<1>7. RefCountExact'
  <2> SUFFICES ASSUME NEW x \in Obj
               PROVE  uiRef'[x] = Cardinality(RefsIn(at', x))
    BY DEF RefCountExact, Refs
  <2>1. Cardinality(RefsIn(a, x))
          = Cardinality(RefsIn(at, x)) + Hit(a[p], x) - Hit(at[p], x)
    BY <1>2, <1>4, OverwriteCounts
  <2>2. Cardinality(RefsIn(at', x))
          = Cardinality(RefsIn(a, x)) + Hit(at'[s], x) - Hit(a[s], x)
    BY <1>2, <1>5, OverwriteCounts
  <2>3. uiRef[x] = Cardinality(RefsIn(at, x)) /\ uiRef[x] \in Nat
    BY DEF IInv, Heap, HeapType, RefCountExact, Refs
  <2>4. uiRef'[x] = uiRef[x] + Hit(o, x) + Hit(v, x)
    BY <1>1, <2>3 DEF AddRef, Hit
  <2>5. /\ Hit(at[p], x) = 0 /\ Hit(a[s], x) = 0
        /\ Hit(a[p], x) = Hit(o, x) /\ Hit(at'[s], x) = Hit(v, x)
        /\ Hit(o, x) \in Nat /\ Hit(v, x) \in Nat
    BY <1>1, <1>4, <1>5, TagsDistinct DEF Hit
  <2> QED
    BY <2>1, <2>2, <2>3, <2>4, <2>5
<1>8. Deaths'
  BY <1>1, <1>3 DEF IInv, Heap, HeapType, Deaths, AddRef
<1>9. Blank'
  <2> SUFFICES ASSUME NEW x \in Obj, NEW g \in Fld, x \notin live'
               PROVE  at'[<<x, g>>] = Null
    BY DEF Blank
  <2>1. at[<<x, g>>] = Null /\ <<x, g>> \in Place /\ <<x, g>> # p /\ <<x, g>> # s
    BY <1>1, TagsDistinct DEF IInv, Heap, Blank, FldPlace, Place, p, s
  <2> QED
    BY <2>1, <1>4, <1>5 DEF OnlyAt
<1>10. Heap'
  BY <1>6, <1>7, <1>8, <1>9 DEF Heap
<1> QED
  BY <1>1, <1>10, CreateKeepsChain DEF IInv
(* What one chain's head points at is no head of the other.                *)
LEMMA UnlinkKeepsChains ==
  ASSUME IInv, NEW o \in linked, o \notin marked
  PROVE  LET r == RemoveFromChain(gcChain, o)
         IN  /\ Chained(linked \ {o}, r.next, r.prev, r.head)
             /\ Chained(linked \ {o}, r.next, r.prev, tchain)
             /\ r.head = tchain => r.head = Null
<1> DEFINE r == RemoveFromChain(gcChain, o)
<1>1. Chained(linked, next, prev, gcChain) /\ Chained(linked, next, prev, tchain)
  BY DEF IInv, ChainType, ChainLinked, Chained, LinkType
<1> HIDE DEF r
<1>2. /\ Chained(linked \ {o}, r.next, r.prev, r.head)
      /\ KeepsHeads(linked, o, prev, r.prev)
      /\ r.head = gcChain \/ r.head = next[o]
  BY <1>1, RemoveKeepsChain DEF r
<1>3. tchain # Null => tchain # o
  BY DEF IInv, Heads
<1>4. Chained(linked \ {o}, r.next, r.prev, tchain)
  BY <1>1, <1>2, <1>3 DEF Chained, KeepsHeads
<1>5. tchain # Null => next[o] # tchain
  BY <1>1, TagsDistinct DEF Chained, Links
<1>6. r.head = tchain => r.head = Null
  BY <1>2, <1>5 DEF IInv, Heads
<1> QED
  BY <1>2, <1>4, <1>6 DEF r

LEMMA UnlinkKeepsIInv ==
  ASSUME IInv, NEW o \in Obj, Unlink(o)
  PROVE  IInv'
<1> DEFINE c == RemoveFromChain(gcChain, o)
<1>1. /\ o \in linked /\ dtor[o] > 0 /\ linked' = linked \ {o}
      /\ next' = c.next /\ prev' = c.prev /\ gcChain' = c.head
      /\ UNCHANGED <<live, at, uiRef, dtor, depth, marked, tchain, pc, final>>
  BY DEF Unlink, Destroys, heap
<1>2. o \notin marked
  BY <1>1 DEF IInv, Phase
<1> HIDE DEF c
<1>3. /\ Chained(linked', next', prev', gcChain')
      /\ Chained(linked', next', prev', tchain)
      /\ gcChain' = tchain => gcChain' = Null
  BY <1>1, <1>2, UnlinkKeepsChains DEF c
<1>4. Heap'
  BY <1>1 DEF IInv, Heap, HeapType, RefCountExact, Refs, RefsIn, Deaths, Blank
<1>5. ChainType' /\ ControlType'
  BY <1>1, <1>3 DEF IInv, Chained, ChainType, ControlType, LinkType, ObjOrNull
<1>6. ChainLinked'
  <2>1. o \in Dying
    BY <1>1 DEF Dying
  <2>2. Dying' = Dying
    BY <1>1 DEF Dying
  <2> QED
    BY <1>1, <1>3, <2>1, <2>2 DEF IInv, Chained, ChainLinked
<1>7. Heads' /\ Phase'
  BY <1>1, <1>3 DEF IInv, Heads, Phase
<1> QED
  BY <1>4, <1>5, <1>6, <1>7 DEF IInv

(* Memory is freed when nothing refers to it and it refers to nothing.     *)
LEMMA FreeKeepsIInv ==
  ASSUME IInv, NEW o \in Obj, Free(o)
  PROVE  IInv'
<1>1. /\ depth > 0 /\ dtor[o] = depth /\ o \notin linked
      /\ \A f \in Fld : at[<<o, f>>] = Null
      /\ live' = live \ {o} /\ dtor' = [dtor EXCEPT ![o] = 0] /\ depth' = depth - 1
      /\ UNCHANGED <<at, uiRef, next, prev, gcChain, tchain, linked, marked, pc, final>>
  BY DEF Free, Destroys, chain
<1>2. dtor \in [Obj -> Nat] /\ depth \in Nat
  BY DEF IInv, Heap, HeapType
<1>3. o \notin marked
  BY <1>1 DEF IInv, Phase
<1>4. HeapType'
  BY <1>1, <1>2 DEF IInv, Heap, HeapType
<1>5. RefCountExact'
  BY <1>1 DEF IInv, Heap, RefCountExact, Refs, RefsIn
<1>6. Deaths'
  BY <1>1, <1>2 DEF IInv, Heap, Deaths
<1>7. Blank'
  BY <1>1 DEF IInv, Heap, Blank
<1>8. ChainType' /\ ControlType'
  BY <1>1 DEF IInv, ChainType, ControlType
<1>9. ChainLinked'
  BY <1>1, <1>2 DEF IInv, ChainLinked, Dying, Links
<1>10. Heads' /\ Phase'
  BY <1>1, <1>2, <1>3 DEF IInv, Heads, Phase
<1> QED
  BY <1>4, <1>5, <1>6, <1>7, <1>8, <1>9, <1>10 DEF IInv, Heap

(* What the marker reaches some place refers to.                           *)
LEMMA ReachIsReferred ==
  ASSUME Heap, NEW o \in Reach
  PROVE  o \in Obj /\ \E p \in Place : at[p] = o
<1> DEFINE S == {x \in Obj : \E p \in Place : at[p] = x}
<1>1. Roots(Scanned) \subseteq S
  BY Scans, Places DEF Heap, HeapType, Roots, ObjOrNull
<1>2. \A e \in Edges(MarkedFld) : e[1] \in S => e[2] \in S
  BY Scans, Places DEF Edges
<1>3. S \in SUBSET Obj
  OBVIOUS
<1>4. o \in Obj /\ \A Q \in SUBSET Obj :
        Roots(Scanned) \subseteq Q
          /\ (\A e \in Edges(MarkedFld) : e[1] \in Q => e[2] \in Q) => o \in Q
  BY DEF Reach, Closure
<1> HIDE DEF S
<1>5. o \in S
  BY <1>1, <1>2, <1>3, <1>4
<1> QED
  BY <1>4, <1>5 DEF S

(* Marking moves an object from one chain to the other.                    *)
LEMMA MarkKeepsIInv ==
  ASSUME IInv, NEW o \in Obj, MarkObject(o)
  PROVE  IInv'
<1> DEFINE r == RemoveFromChain(gcChain, o)
           c == AddToChain(r.next, r.prev, tchain, o)
<1>1. /\ o \in Reach /\ o \notin marked /\ marked' = marked \cup {o}
      /\ next' = c.next /\ prev' = c.prev /\ gcChain' = r.head /\ tchain' = c.head
      /\ UNCHANGED <<live, at, uiRef, dtor, depth, linked, pc, final>>
      /\ pc = "mark"
  BY DEF MarkObject, heap
<1>2. o \in live /\ dtor[o] = 0 /\ o # Null
  BY <1>1, ReachIsReferred, Referred, TagsDistinct DEF IInv
<1>3. o \in linked
  BY <1>2 DEF IInv, ChainLinked, Dying
<1> HIDE DEF r, c
<1>4. /\ Chained(linked \ {o}, r.next, r.prev, r.head)
      /\ Chained(linked \ {o}, r.next, r.prev, tchain)
      /\ r.head = tchain => r.head = Null
  BY <1>1, <1>3, UnlinkKeepsChains DEF r
<1>5. /\ Chained((linked \ {o}) \cup {o}, c.next, c.prev, c.head)
      /\ KeepsHeads(linked \ {o}, tchain, r.prev, c.prev)
      /\ c.head = o
  BY <1>4, AddKeepsChain DEF c
<1>6. Chained(linked, next', prev', tchain') /\ tchain' = o
  <2>1. (linked \ {o}) \cup {o} = linked
    BY <1>3
  <2> QED
    BY <2>1, <1>1, <1>5
<1>7. Chained(linked, next', prev', gcChain')
  BY <1>1, <1>4, <1>5, <1>6 DEF Chained, KeepsHeads
<1>8. gcChain' # o
  BY <1>1, <1>2, <1>4 DEF Chained
<1>9. Heap'
  BY <1>1 DEF IInv, Heap, HeapType, RefCountExact, Refs, RefsIn, Deaths, Blank
<1>10. ChainType' /\ ControlType'
  BY <1>1, <1>6, <1>7 DEF IInv, Chained, ChainType, ControlType, LinkType, ObjOrNull
<1>11. ChainLinked'
  BY <1>1, <1>6, <1>7 DEF IInv, Chained, ChainLinked, Dying
<1>12. Heads' /\ Phase'
  BY <1>1, <1>2, <1>6, <1>8 DEF IInv, Heads, Phase
<1> QED
  BY <1>9, <1>10, <1>11, <1>12 DEF IInv

(* The pin moves from nx to t.                                             *)
LEMMA AdvanceKeepsIInv ==
  ASSUME IInv, Advance
  PROVE  IInv'
<1> DEFINE v == at[NX]
           a == [at EXCEPT ![T] = v]
<1>1. /\ at' = [at EXCEPT ![T] = v, ![NX] = Null] /\ pc = "advance" /\ pc' = "sweep"
      /\ UNCHANGED <<live, uiRef, dtor, depth, next, prev, gcChain, tchain, linked>>
      /\ UNCHANGED <<marked, final>>
  BY DEF Advance, chain
<1>2. at[T] = Null /\ at \in [Place -> ObjOrNull] /\ T \in Place /\ NX \in Place /\ T # NX
  BY <1>1, Places DEF IInv, Phase, Heap, HeapType
<1>3. OnlyAt(T, at, a) /\ a[T] = v /\ a[NX] = v
  BY <1>2 DEF OnlyAt
<1>4. OnlyAt(NX, a, at') /\ at'[NX] = Null /\ at' \in [Place -> ObjOrNull]
  BY <1>1, <1>2 DEF OnlyAt, ObjOrNull
<1> HIDE DEF a, v
<1>5. RefCountExact'
  <2> SUFFICES ASSUME NEW x \in Obj
               PROVE  uiRef'[x] = Cardinality(RefsIn(at', x))
    BY DEF RefCountExact, Refs
  <2>1. Cardinality(RefsIn(a, x))
          = Cardinality(RefsIn(at, x)) + Hit(a[T], x) - Hit(at[T], x)
    BY <1>2, <1>3, OverwriteCounts
  <2>2. Cardinality(RefsIn(at', x))
          = Cardinality(RefsIn(a, x)) + Hit(at'[NX], x) - Hit(a[NX], x)
    BY <1>2, <1>4, OverwriteCounts
  <2>3. uiRef'[x] = Cardinality(RefsIn(at, x)) /\ Cardinality(RefsIn(at, x)) \in Nat
    BY <1>1, RefsFinite DEF IInv, Heap, RefCountExact, Refs
  <2>4. /\ Hit(at[T], x) = 0 /\ Hit(at'[NX], x) = 0
        /\ Hit(a[T], x) = Hit(v, x) /\ Hit(a[NX], x) = Hit(v, x) /\ Hit(v, x) \in Nat
    BY <1>2, <1>3, <1>4, TagsDistinct DEF Hit
  <2> QED
    BY <2>1, <2>2, <2>3, <2>4
<1>6. Blank'
  <2> SUFFICES ASSUME NEW x \in Obj, NEW f \in Fld, x \notin live
               PROVE  at'[<<x, f>>] = Null
    BY <1>1 DEF Blank
  <2>1. at[<<x, f>>] = Null /\ <<x, f>> \in Place /\ <<x, f>> # T /\ <<x, f>> # NX
    BY TagsDistinct DEF IInv, Heap, Blank, FldPlace, Place, T, NX
  <2> QED
    BY <2>1, <1>3, <1>4 DEF OnlyAt
<1>7. Heap'
  BY <1>1, <1>4, <1>5, <1>6 DEF IInv, Heap, HeapType, Deaths
<1>8. ChainType' /\ ControlType' /\ ChainLinked' /\ Heads' /\ Phase'
  BY <1>1 DEF IInv, ChainType, ControlType, ChainLinked, Links, Dying, Heads, Phase
<1> QED
  BY <1>7, <1>8 DEF IInv
(* The conditions of SetKeepsIInv, once for all the steps that overwrite a *)
(* place: what a place refers to, and the heads of the chains, are         *)
(* allocated and not dying when no destructor runs.                        *)
LEMMA Sources ==
  ASSUME IInv
  PROVE  /\ \A q \in Place : /\ at[q] \in ObjOrNull
                             /\ at[q] # Null => at[q] \in live /\ dtor[at[q]] = 0
         /\ depth = 0 => /\ gcChain \in ObjOrNull
                         /\ gcChain # Null => gcChain \in live /\ dtor[gcChain] = 0
         /\ depth = 0 => \A o \in live : /\ next[o] \in ObjOrNull
                                         /\ next[o] # Null => /\ next[o] \in live
                                                              /\ dtor[next[o]] = 0
         /\ Null \in ObjOrNull
         /\ \A p \in Writable : p \in FldPlace => p[1] \in live
<1>1. \A q \in Place : /\ at[q] \in ObjOrNull
                       /\ at[q] # Null => at[q] \in live /\ dtor[at[q]] = 0
  BY Referred DEF IInv, Heap, HeapType
<1>2. depth = 0 => \A o \in Obj : dtor[o] = 0
  BY DEF IInv, Heap, HeapType, Deaths
<1>3. depth = 0 => /\ gcChain \in ObjOrNull
                   /\ gcChain # Null => gcChain \in live /\ dtor[gcChain] = 0
  BY <1>2 DEF IInv, ChainType, ChainLinked
<1>4. depth = 0 => \A o \in live : /\ next[o] \in ObjOrNull
                                   /\ next[o] # Null => /\ next[o] \in live
                                                        /\ dtor[next[o]] = 0
  BY <1>2 DEF IInv, ChainType, ChainLinked, Links, Dying, Heap, HeapType
<1>5. \A p \in Writable : p \in FldPlace => p[1] \in live
  <2>1. VmPlace \subseteq Place
    BY DEF Place
  <2>2. \A x \in Held : x \in live
    BY <1>1, <2>1 DEF Held
  <2>3. \A p \in VmPlace : p \notin FldPlace
    BY TagsDistinct DEF VmPlace, FldPlace
  <2> QED
    BY <2>2, <2>3 DEF Writable
<1> QED
  BY <1>1, <1>3, <1>4, <1>5 DEF ObjOrNull

(* Every step of the program keeps the invariant.                          *)
LEMMA NextKeepsIInv == IInv /\ [Next]_vars => IInv'
<1> SUFFICES ASSUME IInv, [Next]_vars PROVE IInv'
  OBVIOUS
<1> USE DEF Running
<1>1. ASSUME NEW o \in Obj, NEW h \in Holder, New(o, h) PROVE IInv'
  BY <1>1, NewKeepsIInv
<1>2. ASSUME NEW o \in Obj, NEW h \in Holder, NEW f \in Fld \ Cleared, NEW q \in Place,
             NewWith(o, h, f, q)
      PROVE  IInv'
  BY <1>2, NewWithKeepsIInv
<1>3. ASSUME NEW p \in Place, NEW q \in Place, Assign(p, q) PROVE IInv'
  <2>1. ControlType'
    BY <1>3 DEF Assign, IInv, ControlType
  <2> QED
    BY <1>3, <2>1, Sources, Places, SetKeepsIInv DEF Assign
<1>4. ASSUME NEW p \in Place, NullSlot(p) PROVE IInv'
  <2>1. ControlType'
    BY <1>4 DEF NullSlot, IInv, ControlType
  <2> QED
    BY <1>4, <2>1, Sources, Places, SetKeepsIInv DEF NullSlot
<1>5. ASSUME NEW o \in Obj, NEW f \in Fld, DropField(o, f) PROVE IInv'
  <2>1. ControlType'
    BY <1>5 DEF DropField, IInv, ControlType
  <2> QED
    BY <1>5, <2>1, Sources, Places, SetKeepsIInv DEF DropField
<1>6. ASSUME NEW f \in Fld, Finalize(f) PROVE IInv'
  <2>1. ControlType'
    BY <1>6 DEF Finalize, IInv, ControlType
  <2>2. at[T] \in Obj
    BY <1>6, Places, Sources DEF Finalize, ObjOrNull
  <2> QED
    BY <1>6, <2>1, <2>2, Sources, Places, SetKeepsIInv DEF Finalize
<1>7. CASE BeginSweep
  <2>1. ControlType'
    BY <1>7 DEF BeginSweep, IInv, ControlType
  <2> QED
    BY <1>7, <2>1, Sources, Places, TagsDistinct, SetKeepsIInv
    DEF BeginSweep, FldPlace, T
<1>8. CASE PinNext
  <2>1. ControlType'
    BY <1>8 DEF PinNext, IInv, ControlType
  <2>2. at[T] \in live
    BY <1>8, Places, Sources DEF PinNext
  <2>3. NX \notin FldPlace
    BY TagsDistinct DEF FldPlace, NX
  <2> QED
    BY <1>8, <2>1, <2>2, <2>3, Sources, Places, SetKeepsIInv DEF PinNext
<1>9. CASE Unpin
  <2>1. ControlType'
    BY <1>9 DEF Unpin, IInv, ControlType
  <2> QED
    BY <1>9, <2>1, Sources, Places, SetKeepsIInv DEF Unpin
<1>10. ASSUME NEW h \in Holder, NullHolder(h) PROVE IInv'
  <2>1. ControlType'
    BY <1>10 DEF NullHolder, IInv, ControlType
  <2> QED
    BY <1>10, <2>1, Sources, Places, SetKeepsIInv DEF NullHolder
<1>11. CASE BeginFinalSweep
  <2>1. ControlType'
    BY <1>11 DEF BeginFinalSweep, IInv, ControlType
  <2> QED
    BY <1>11, <2>1, Sources, Places, TagsDistinct, SetKeepsIInv
    DEF BeginFinalSweep, FldPlace, T
<1>12. CASE CollectGarbage \/ Shutdown \/ EndSweep \/ EndFinalSweep \/ UNCHANGED vars
  <2>1. Heap'
    BY <1>12 DEF CollectGarbage, Shutdown, EndSweep, EndFinalSweep, vars, heap,
       IInv, Heap, HeapType, RefCountExact, Refs, RefsIn, Deaths, Blank
  <2>2. ChainType' /\ ControlType'
    BY <1>12 DEF CollectGarbage, Shutdown, EndSweep, EndFinalSweep, vars, chain,
       IInv, ChainType, ControlType, ObjOrNull
  <2>3. ChainLinked'
    BY <1>12 DEF CollectGarbage, Shutdown, EndSweep, EndFinalSweep, vars, heap, chain,
       IInv, ChainLinked, Links, Dying
  <2>4. Heads' /\ Phase'
    BY <1>12 DEF CollectGarbage, Shutdown, EndSweep, EndFinalSweep, vars, heap, chain,
       IInv, Heads, Phase
  <2> QED
    BY <2>1, <2>2, <2>3, <2>4 DEF IInv
<1> QED
  BY <1>1, <1>2, <1>3, <1>4, <1>5, <1>6, <1>7, <1>8, <1>9, <1>10, <1>11, <1>12,
     AdvanceKeepsIInv, MarkKeepsIInv, UnlinkKeepsIInv, FreeKeepsIInv
  DEF Next, Script, Destruct, Collect, Close

-----------------------------------------------------------------------------
(* The invariant holds throughout.                                         *)
THEOREM Invariance == Spec => []IInv
BY InitIInv, NextKeepsIInv, PTL DEF Spec

(* Every variable keeps its type.                                          *)
THEOREM TypeCorrect == Spec => []TypeOK
<1>1. IInv => TypeOK
  BY DEF IInv, Heap, HeapType, ChainType, ControlType, TypeOK
<1> QED
  BY <1>1, Invariance, PTL

(* Reference counts are exact, at every step of the script, of a cascade   *)
(* of destructors and of a sweep.                                          *)
THEOREM CountsAreExact == Spec => []RefCountExact
<1>1. IInv => RefCountExact
  BY DEF IInv, Heap
<1> QED
  BY <1>1, Invariance, PTL

(* No reference, and neither local of the sweep, points at freed memory or *)
(* at an object being destroyed.                                           *)
THEOREM NothingDangles == Spec => []NoDangling
<1>1. IInv => NoDangling
  <2> SUFFICES ASSUME IInv, NEW p \in Place, at[p] # Null
               PROVE  at[p] \in live \ Dying
    BY DEF NoDangling
  <2> QED
    BY Referred DEF IInv, Dying
<1> QED
  BY <1>1, Invariance, PTL

(* The chain stays doubly linked through allocated objects.                *)
THEOREM ChainStaysLinked == Spec => []ChainLinked
<1>1. IInv => ChainLinked
  BY DEF IInv
<1> QED
  BY <1>1, Invariance, PTL
=============================================================================
