----------------------- MODULE CollectorMarks_proofs -----------------------
(***************************************************************************)
(* More about Collector, again for every set of objects, holders and       *)
(* fields and whatever the collector fails to scan: what is on tchain, and *)
(* why the mark bit, which keeps __ObjRelease from destroying an object,   *)
(* never leaves one behind that nothing refers to.                         *)
(***************************************************************************)
EXTENDS Collector_proofs

-----------------------------------------------------------------------------
(* Lemmas about Closure: it is the least set that is closed.               *)

LEMMA ClosureClosed ==
  ASSUME NEW from \in SUBSET Obj, NEW edges \in SUBSET (Obj \X Obj)
  PROVE  /\ from \subseteq Closure(from, edges) /\ Closure(from, edges) \subseteq Obj
         /\ \A e \in edges : e[1] \in Closure(from, edges) => e[2] \in Closure(from, edges)
<1>1. from \subseteq Closure(from, edges) /\ Closure(from, edges) \subseteq Obj
  BY DEF Closure
<1>2. ASSUME NEW e \in edges, e[1] \in Closure(from, edges)
      PROVE  e[2] \in Closure(from, edges)
  <2>1. e[2] \in Obj
    OBVIOUS
  <2>2. ASSUME NEW S \in SUBSET Obj, from \subseteq S, \A d \in edges : d[1] \in S => d[2] \in S
        PROVE  e[2] \in S
    BY <1>2, <2>2 DEF Closure
  <2> QED
    BY <2>1, <2>2 DEF Closure
<1> QED
  BY <1>1, <1>2

LEMMA ClosureLeast ==
  ASSUME NEW from, NEW edges, NEW S \in SUBSET Obj, from \subseteq S,
         \A e \in edges : e[1] \in S => e[2] \in S
  PROVE  Closure(from, edges) \subseteq S
BY DEF Closure

(* Only the edges that leave the closure matter.                           *)
LEMMA ClosureSame ==
  ASSUME NEW from \in SUBSET Obj, NEW E \in SUBSET (Obj \X Obj), NEW F \in SUBSET (Obj \X Obj),
         \A e \in Obj \X Obj : e[1] \in Closure(from, E) => (e \in E <=> e \in F)
  PROVE  Closure(from, F) = Closure(from, E)
<1> DEFINE C == Closure(from, E)
           D == Closure(from, F)
<1>1. /\ from \subseteq C /\ C \subseteq Obj /\ \A e \in E : e[1] \in C => e[2] \in C
      /\ from \subseteq D /\ D \subseteq Obj /\ \A e \in F : e[1] \in D => e[2] \in D
  BY ClosureClosed
<1>2. D \subseteq C
  BY <1>1, ClosureLeast
<1>3. C \subseteq D
  <2>1. \A e \in E : e[1] \in D => e[2] \in D
    BY <1>1, <1>2
  <2> QED
    BY <1>1, <2>1, ClosureLeast
<1> QED
  BY <1>2, <1>3

-----------------------------------------------------------------------------
(* Lemmas about walking a chain.                                           *)

NextEdges(nx) == {e \in Obj \X Obj : nx[e[1]] = e[2]}
Walk(nx, h) == IF h = Null THEN {} ELSE Closure({h}, NextEdges(nx))

LEMMA WalkIsOnChain == \A h : OnChain(h) = Walk(next, h)
BY DEF OnChain, Walk, NextEdges

LEMMA WalkGoesOn ==
  ASSUME NEW nx \in LinkType, NEW h \in ObjOrNull
  PROVE  /\ Walk(nx, h) \subseteq Obj
         /\ h # Null => h \in Walk(nx, h)
         /\ \A x \in Walk(nx, h) : nx[x] # Null => nx[x] \in Walk(nx, h)
<1>1. CASE h = Null
  BY <1>1 DEF Walk
<1>2. CASE h # Null
  <2> DEFINE C == Closure({h}, NextEdges(nx))
  <2>1. {h} \in SUBSET Obj /\ NextEdges(nx) \in SUBSET (Obj \X Obj)
    BY <1>2 DEF ObjOrNull, NextEdges
  <2>2. /\ h \in C /\ C \subseteq Obj
        /\ \A e \in NextEdges(nx) : e[1] \in C => e[2] \in C
    BY <2>1, ClosureClosed
  <2> HIDE DEF C
  <2>3. ASSUME NEW x \in C, nx[x] # Null
        PROVE  nx[x] \in C
    <3>1. x \in Obj /\ nx[x] \in Obj
      BY <2>2, <2>3 DEF LinkType, ObjOrNull
    <3>2. <<x, nx[x]>> \in NextEdges(nx)
      BY <3>1 DEF NextEdges
    <3> QED
      BY <2>2, <2>3, <3>2
  <2>4. Walk(nx, h) = C
    BY <1>2 DEF Walk, C
  <2> QED
    BY <2>2, <2>3, <2>4
<1> QED
  BY <1>1, <1>2

LEMMA WalkLeast ==
  ASSUME NEW nx \in LinkType, NEW h \in ObjOrNull, NEW S \in SUBSET Obj,
         h # Null => h \in S, \A x \in S : nx[x] # Null => nx[x] \in S
  PROVE  Walk(nx, h) \subseteq S
<1>1. CASE h = Null
  BY <1>1 DEF Walk
<1>2. CASE h # Null
  <2>1. \A e \in NextEdges(nx) : e[1] \in S => e[2] \in S
    BY TagsDistinct DEF NextEdges
  <2>2. Closure({h}, NextEdges(nx)) \subseteq S
    BY <1>2, <2>1, ClosureLeast
  <2> QED
    BY <1>2, <2>2 DEF Walk
<1> QED
  BY <1>1, <1>2

(* Only the links of what is walked through matter.                        *)
LEMMA WalkSame ==
  ASSUME NEW nx \in LinkType, NEW ny \in LinkType, NEW h \in ObjOrNull,
         \A x \in Walk(nx, h) : ny[x] = nx[x]
  PROVE  Walk(ny, h) = Walk(nx, h)
<1>1. /\ Walk(nx, h) \subseteq Obj
      /\ h # Null => h \in Walk(nx, h)
  BY WalkGoesOn
<1>2. Walk(ny, h) \subseteq Walk(nx, h)
  BY WalkGoesOn, WalkLeast
<1>3. Walk(nx, h) \subseteq Walk(ny, h)
  <2>1. /\ Walk(ny, h) \subseteq Obj
        /\ h # Null => h \in Walk(ny, h)
    BY WalkGoesOn
  <2>2. \A x \in Walk(ny, h) : nx[x] # Null => nx[x] \in Walk(ny, h)
    BY <1>2, WalkGoesOn
  <2> QED
    BY <2>2, WalkGoesOn, WalkLeast
<1> QED
  BY <1>2, <1>3

LEMMA WalkStep ==
  ASSUME NEW nx \in LinkType, NEW h \in Obj
  PROVE  Walk(nx, h) = {h} \cup Walk(nx, nx[h])
<1>0. h \in ObjOrNull /\ h # Null /\ nx[h] \in ObjOrNull
  BY TagsDistinct DEF ObjOrNull, LinkType
<1>1. /\ Walk(nx, h) \subseteq Obj /\ h \in Walk(nx, h)
      /\ \A x \in Walk(nx, h) : nx[x] # Null => nx[x] \in Walk(nx, h)
  BY <1>0, WalkGoesOn
<1>2. /\ Walk(nx, nx[h]) \subseteq Obj
      /\ nx[h] # Null => nx[h] \in Walk(nx, nx[h])
      /\ \A x \in Walk(nx, nx[h]) : nx[x] # Null => nx[x] \in Walk(nx, nx[h])
  BY <1>0, WalkGoesOn
<1>3. Walk(nx, nx[h]) \subseteq Walk(nx, h)
  BY <1>0, <1>1, WalkLeast
<1>4. Walk(nx, h) \subseteq {h} \cup Walk(nx, nx[h])
  <2> DEFINE S == {h} \cup Walk(nx, nx[h])
  <2>1. S \in SUBSET Obj /\ h \in S
    BY <1>2
  <2>2. \A x \in S : nx[x] # Null => nx[x] \in S
    BY <1>2
  <2> HIDE DEF S
  <2>3. Walk(nx, h) \subseteq S
    BY <1>0, <2>1, <2>2, WalkLeast
  <2> QED
    BY <2>3 DEF S
<1> QED
  BY <1>1, <1>3, <1>4

(* A new head is put in front of what is walked through.                   *)
LEMMA WalkAdd ==
  ASSUME NEW nx \in LinkType, NEW h \in ObjOrNull, NEW c \in Obj, c \notin Walk(nx, h)
  PROVE  LET ny == [nx EXCEPT ![c] = h]
         IN  ny \in LinkType /\ Walk(ny, c) = {c} \cup Walk(nx, h)
<1> DEFINE ny == [nx EXCEPT ![c] = h]
<1>1. ny \in LinkType /\ ny[c] = h
  BY DEF LinkType
<1>2. \A x \in Walk(nx, h) : ny[x] = nx[x]
  BY WalkGoesOn DEF LinkType
<1> HIDE DEF ny
<1>3. Walk(ny, h) = Walk(nx, h)
  BY <1>1, <1>2, WalkSame
<1>4. Walk(ny, c) = {c} \cup Walk(ny, h)
  BY <1>1, WalkStep
<1> QED
  BY <1>1, <1>3, <1>4 DEF ny

(* Removing an object takes it, and nothing else, out of a walk, if the    *)
(* walk does not begin in the middle of the chain with that object.        *)
LEMMA WalkRemove ==
  ASSUME NEW L \in SUBSET Obj, NEW nx \in LinkType, NEW pv \in LinkType, Links(L, nx, pv),
         NEW c \in L, NEW h \in ObjOrNull, h # Null => h \in L, h = c => pv[c] = Null
  PROVE  LET ny == [o \in Obj |-> IF o = c THEN Null ELSE IF o = pv[c] THEN nx[c] ELSE nx[o]]
             g  == IF h = c THEN nx[c] ELSE h
         IN  Walk(ny, g) = Walk(nx, h) \ {c}
<1> DEFINE ny == [o \in Obj |-> IF o = c THEN Null ELSE IF o = pv[c] THEN nx[c] ELSE nx[o]]
           g  == IF h = c THEN nx[c] ELSE h
           C  == Walk(nx, h)
           D  == Walk(ny, g)
<1>1. c \in Obj /\ ny \in LinkType /\ g \in ObjOrNull
  BY DEF LinkType, ObjOrNull
<1>2. /\ ny[c] = Null
      /\ \A x \in Obj : x # c => ny[x] = IF x = pv[c] THEN nx[c] ELSE nx[x]
  BY <1>1
<1>3. /\ C \subseteq Obj
      /\ h # Null => h \in C
      /\ \A x \in C : nx[x] # Null => nx[x] \in C
  BY WalkGoesOn
<1> HIDE DEF ny, g
<1>4. /\ D \subseteq Obj
      /\ g # Null => g \in D
      /\ \A x \in D : ny[x] # Null => ny[x] \in D
  BY <1>1, WalkGoesOn
<1> HIDE DEF D
<1>5. C \subseteq L
  <2>1. \A x \in L : nx[x] # Null => nx[x] \in L
    BY DEF Links
  <2> QED
    BY <2>1, WalkLeast
<1>6. /\ pv[c] # Null => pv[c] \in L /\ nx[pv[c]] = c
      /\ \A x \in L : nx[x] = c => x = pv[c]
      /\ nx[c] # Null => nx[c] \in L /\ pv[nx[c]] = c
      /\ c # Null
  BY TagsDistinct DEF Links
<1>7. c \in C => nx[c] # c
  <2> SUFFICES ASSUME nx[c] = c PROVE c \notin C
    OBVIOUS
  <2>1. pv[c] = c /\ h # c
    BY <1>6
  <2>2. \A x \in C \ {c} : nx[x] # Null => nx[x] \in C \ {c}
    BY <2>1, <1>3, <1>5, <1>6
  <2>3. C \subseteq C \ {c}
    BY <2>1, <2>2, <1>3, WalkLeast
  <2> QED
    BY <2>3
<1>8. D \subseteq C \ {c}
  <2> DEFINE S == C \ {c}
  <2>1. g # Null => g \in S
    BY <1>3, <1>6, <1>7 DEF g
  <2>2. ASSUME NEW x \in S, ny[x] # Null
        PROVE  ny[x] \in S
    <3>1. x \in C /\ x \in L /\ x \in Obj /\ x # c /\ x # Null
      BY <1>3, <1>5, TagsDistinct
    <3>2. CASE x = pv[c]
      <4>1. nx[x] = c /\ ny[x] = nx[c]
        BY <3>1, <3>2, <1>2, <1>6
      <4>2. c \in C
        BY <4>1, <3>1, <1>3, <1>6
      <4> QED
        BY <4>1, <4>2, <2>2, <1>3, <1>7
    <3>3. CASE x # pv[c]
      <4>1. nx[x] # c /\ ny[x] = nx[x]
        BY <3>1, <3>3, <1>2, <1>6
      <4> QED
        BY <4>1, <3>1, <2>2, <1>3
    <3> QED
      BY <3>2, <3>3
  <2>3. S \in SUBSET Obj
    BY <1>3
  <2> HIDE DEF S
  <2>4. D \subseteq S
    BY <1>1, <2>1, <2>2, <2>3, WalkLeast DEF D
  <2> QED
    BY <2>4 DEF S
<1>9. C \subseteq D \cup {c}
  <2> DEFINE S == D \cup (IF pv[c] \in D \/ h = c THEN {c} ELSE {})
  <2>1. S \in SUBSET Obj
    BY <1>1, <1>4
  <2>2. h # Null => h \in S
    BY <1>4 DEF g
  <2>3. ASSUME NEW x \in D, nx[x] # Null
        PROVE  nx[x] \in S
    <3>1. x \in L /\ x \in Obj /\ x # c
      BY <1>4, <1>5, <1>8
    <3>2. CASE nx[x] = c
      BY <3>1, <3>2, <1>6
    <3>3. CASE nx[x] # c
      <4>1. x # pv[c]
        BY <3>1, <3>3, <1>6, TagsDistinct
      <4> QED
        BY <4>1, <3>1, <1>2, <1>4, <2>3
    <3> QED
      BY <3>2, <3>3
  <2>4. ASSUME c \in S, nx[c] # Null
        PROVE  nx[c] \in S
    <3>1. c \notin D
      BY <1>8
    <3>2. CASE h = c
      BY <3>2, <2>4, <1>4 DEF g
    <3>3. CASE pv[c] \in D
      <4>1. ny[pv[c]] = nx[c]
        BY <3>1, <3>3, <1>2, <1>4
      <4> QED
        BY <4>1, <3>3, <2>4, <1>4
    <3> QED
      BY <3>1, <3>2, <3>3, <2>4
  <2>5. \A x \in S : nx[x] # Null => nx[x] \in S
    BY <2>3, <2>4
  <2> HIDE DEF S
  <2>6. C \subseteq S
    BY <2>1, <2>2, <2>5, WalkLeast
  <2> QED
    BY <2>6 DEF S
<1> QED
  BY <1>8, <1>9 DEF ny, g, D

-----------------------------------------------------------------------------
(* The inductive invariant.                                                *)

InSweep == pc \in {"sweep", "unpin", "advance"} /\ ~final

(* No link leads from a marked object to one that is not, or back; tchain  *)
(* starts with the marked ones, all of them, and gcChain does not.         *)
Apart ==
    /\ \A o \in linked : next[o] # Null => (o \in marked <=> next[o] \in marked)
    /\ gcChain \notin marked
    /\ OnChain(tchain) = marked

(* What the locals of the sweep pin.                                       *)
Pins ==
    /\ pc \in {"run", "mark", "closing", "closed"} => at[T] = Null /\ at[NX] = Null
    /\ pc = "sweep" => at[NX] = Null
    /\ at[T] \notin marked /\ at[NX] \notin marked

(* Objects are marked from the start of a collection to its end, and       *)
(* during the sweep what is marked is what the marker reaches: nothing     *)
(* that dies in a sweep was a reference to a marked object the marker used.*)
Marks ==
    /\ pc \in {"run", "closing", "closed"} \/ final => marked = {}
    /\ pc = "mark" => depth = 0 /\ marked \subseteq Reach
    /\ InSweep => marked = Reach
    /\ final => pc \in {"sweep", "unpin", "advance", "closed"}

MarkInv == IInv /\ Apart /\ Pins /\ Marks /\ NoForgotten

-----------------------------------------------------------------------------
(* Lemmas about what the marker reaches.                                   *)

LEMMA RootsAndEdges ==
  ASSUME IInv, NEW hs \in SUBSET Holder, NEW fs \in SUBSET Fld
  PROVE  Roots(hs) \in SUBSET Obj /\ Edges(fs) \in SUBSET (Obj \X Obj)
<1>1. \A h \in Holder : at[<<Vm, h>>] \in ObjOrNull
  BY Places DEF IInv, Heap, HeapType
<1> QED
  BY <1>1 DEF Roots, Edges, ObjOrNull

(* Something keeps what is reached: a root, or a member of another object  *)
(* that is reached.                                                        *)
LEMMA ReachHasReason ==
  ASSUME IInv, NEW o \in Reach
  PROVE  \/ \E h \in Scanned : at[<<Vm, h>>] = o
         \/ \E x \in Reach, f \in MarkedFld : at[<<x, f>>] = o
<1> DEFINE Kept(y) == \/ \E h \in Scanned : at[<<Vm, h>>] = y
                      \/ \E x \in Reach, f \in MarkedFld : at[<<x, f>>] = y
           S == {y \in Reach : Kept(y)}
<1>1. Roots(Scanned) \in SUBSET Obj /\ Edges(MarkedFld) \in SUBSET (Obj \X Obj)
  BY Scans, RootsAndEdges
<1>2. /\ Roots(Scanned) \subseteq Reach /\ Reach \subseteq Obj
      /\ \A e \in Edges(MarkedFld) : e[1] \in Reach => e[2] \in Reach
  BY <1>1, ClosureClosed DEF Reach
<1>3. Roots(Scanned) \subseteq S
  BY <1>2 DEF Roots
<1>4. \A e \in Edges(MarkedFld) : e[1] \in S => e[2] \in S
  <2> SUFFICES ASSUME NEW e \in Edges(MarkedFld), e[1] \in S PROVE e[2] \in S
    OBVIOUS
  <2>1. e[2] \in Reach /\ e[1] \in Reach
    BY <1>2
  <2>2. \E f \in MarkedFld : at[<<e[1], f>>] = e[2]
    BY DEF Edges
  <2> QED
    BY <2>1, <2>2
<1>5. S \in SUBSET Obj
  BY <1>2
<1> HIDE DEF S
<1>6. Reach \subseteq S
  BY <1>3, <1>4, <1>5, ClosureLeast DEF Reach
<1> QED
  BY <1>6 DEF S

(* A place the marker does not look at.                                    *)
Aside(p) == p \in {T, NX} \/ (p \in FldPlace /\ p[1] \notin Reach)

LEMMA AsideIsNoHolder ==
  ASSUME NEW p, Aside(p)
  PROVE  \A h \in Holder : <<Vm, h>> \in Place /\ <<Vm, h>> # p
BY Places, TagsDistinct DEF Aside, T, NX, FldPlace

LEMMA AsideKeepsReach ==
  ASSUME IInv, IInv', NEW p \in Place, Aside(p), OnlyAt(p, at, at')
  PROVE  Reach' = Reach
<1>1. \A h \in Holder : <<Vm, h>> \in Place /\ <<Vm, h>> # p
  BY AsideIsNoHolder
<1>2. \A x \in Reach, f \in Fld : <<x, f>> \in Place /\ <<x, f>> # p
  <2>1. Reach \subseteq Obj
    BY DEF Reach, Closure
  <2>2. ASSUME NEW x \in Reach, NEW f \in Fld
        PROVE  <<x, f>> \in Place /\ <<x, f>> # p
    <3>1. x \in Obj /\ x # Gc /\ <<x, f>> \in Place /\ <<x, f>>[1] = x
      BY <2>1, Places, TagsDistinct
    <3>2. T[1] = Gc /\ NX[1] = Gc
      BY DEF T, NX
    <3> QED
      BY <3>1, <3>2 DEF Aside
  <2> QED
    BY <2>2
<1>3. Roots(Scanned)' = Roots(Scanned)
  BY <1>1, Scans DEF Roots, OnlyAt
<1>4. \A e \in Obj \X Obj : e[1] \in Reach => (e \in Edges(MarkedFld) <=> e \in Edges(MarkedFld)')
  BY <1>2, Scans DEF Edges, OnlyAt
<1>5. /\ Roots(Scanned) \in SUBSET Obj /\ Edges(MarkedFld) \in SUBSET (Obj \X Obj)
      /\ Edges(MarkedFld)' \in SUBSET (Obj \X Obj)
  BY Scans, RootsAndEdges DEF Edges
<1>6. Closure(Roots(Scanned), Edges(MarkedFld)') = Reach
  BY <1>4, <1>5, ClosureSame DEF Reach
<1> QED
  BY <1>3, <1>6 DEF Reach, Closure

-----------------------------------------------------------------------------
(* The steps.                                                              *)

(* What the steps that overwrite one place have in common: when objects    *)
(* are marked, those the marker reached, the place is one it did not use.  *)
LEMMA SetKeepsMarks ==
  ASSUME MarkInv, IInv', NEW p \in Place, NEW v \in ObjOrNull, Set(p, v),
         UNCHANGED <<live, chain, marked>>,
         marked = {} \/ (marked = Reach /\ Aside(p))
  PROVE  /\ Apart' /\ NoForgotten'
         /\ OnlyAt(p, at, at') /\ at'[p] = v
         /\ Aside(p) => Reach' = Reach
<1> USE DEF chain
<1>1. OnlyAt(p, at, at') /\ at'[p] = v
  BY DEF OnlyAt, Set, MarkInv, IInv, Heap, HeapType
<1>2. Apart'
  BY DEF MarkInv, Apart, OnChain, Closure
<1>3. Aside(p) => Reach' = Reach
  BY <1>1, AsideKeepsReach DEF MarkInv
<1>4. NoForgotten'
  <2> DEFINE old == at[p]
             r == DropRef(AddRef(uiRef, v), old)
             dies == old # Null /\ old \notin marked /\ r[old] = 0
  <2>1. /\ uiRef' = r
        /\ dtor' = IF dies THEN [dtor EXCEPT ![old] = depth + 1] ELSE dtor
    BY DEF Set
  <2>2. SUFFICES ASSUME NEW o \in live, ~(dtor'[o] > 0), o \in Obj PROVE uiRef'[o] > 0
    BY DEF NoForgotten, Dying, MarkInv, IInv, Heap, HeapType
  <2>3. /\ uiRef \in [Obj -> Nat] /\ dtor \in [Obj -> Nat] /\ depth \in Nat
        /\ uiRef' \in [Obj -> Nat]
    BY DEF MarkInv, IInv, Heap, HeapType
  <2>4. r[o] = uiRef[o] + Hit(v, o) - Hit(old, o)
    BY <2>2, <2>3 DEF AddRef, DropRef, Hit
  <2> HIDE DEF r
  <2>5. ~(dtor[o] > 0) /\ ~(dies /\ o = old)
    <3> HIDE DEF dies, old
    <3> QED
      BY <2>1, <2>2, <2>3
  <2>6. uiRef[o] > 0
    BY <2>2, <2>5 DEF MarkInv, NoForgotten, Dying
  <2>7. CASE o # old
    <3>1. Hit(old, o) = 0 /\ Hit(v, o) \in Nat
      BY <2>7 DEF Hit
    <3>2. uiRef[o] \in Nat /\ uiRef'[o] = r[o]
      BY <2>1, <2>2, <2>3
    <3> HIDE DEF old
    <3> QED
      BY <3>1, <3>2, <2>4, <2>6
  <2>8. CASE o = old /\ o \notin marked
    <3>1. r[o] # 0
      BY <2>5, <2>8, <2>2, TagsDistinct
    <3> QED
      BY <3>1, <2>1, <2>2, <2>3
  <2>9. CASE o = old /\ o \in marked
    <3>1. o \in Reach /\ Aside(p) /\ Reach \subseteq Obj
      BY <2>9 DEF Reach, Closure
    <3>2. \E s \in Place : s # p /\ at[s] = o
      <4>1. CASE \E h \in Scanned : at[<<Vm, h>>] = o
        <5>0. Aside(p)
          BY <3>1
        <5>1. \A h \in Holder : <<Vm, h>> \in Place /\ <<Vm, h>> # p
          <6> HIDE DEF Aside
          <6> QED
            BY <5>0, AsideIsNoHolder
        <5> QED
          BY <4>1, <5>1, Scans
      <4>2. CASE \E x \in Reach, f \in MarkedFld : at[<<x, f>>] = o
        <5>1. PICK x \in Reach, f \in MarkedFld : at[<<x, f>>] = o
          BY <4>2
        <5>2. x \in Obj /\ x # Gc /\ <<x, f>> \in Place /\ <<x, f>>[1] = x
          BY <3>1, <5>1, Scans, Places, TagsDistinct
        <5>3. T[1] = Gc /\ NX[1] = Gc
          BY DEF T, NX
        <5>4. <<x, f>> # p
          BY <3>1, <5>2, <5>3 DEF Aside
        <5> QED
          BY <5>1, <5>2, <5>4
      <4> QED
        BY <3>1, <4>1, <4>2, ReachHasReason DEF MarkInv
    <3>3. \E s \in Place : at'[s] = o
      BY <3>2, <1>1 DEF OnlyAt
    <3>4. Cardinality(RefsIn(at', o)) > 0
      BY <3>3, ReferredCounts
    <3> QED
      BY <3>4, <2>2 DEF IInv, Heap, RefCountExact, Refs
  <2> QED
    BY <2>7, <2>8, <2>9
<1> QED
  BY <1>1, <1>2, <1>3, <1>4

(* The script, and what a cascade or the shutdown drops while nothing is   *)
(* marked.                                                                 *)
LEMMA UnmarkedSetKeeps ==
  ASSUME MarkInv, IInv', NEW p \in Place, NEW v \in ObjOrNull, Set(p, v),
         UNCHANGED <<live, chain, marked, pc, final>>,
         marked = {}, pc # "mark", ~InSweep, p # T, p # NX
  PROVE  MarkInv'
<1>1. Apart' /\ NoForgotten' /\ OnlyAt(p, at, at')
  BY SetKeepsMarks
<1>2. at'[T] = at[T] /\ at'[NX] = at[NX]
  BY <1>1, Places DEF OnlyAt
<1>3. Pins' /\ Marks'
  BY <1>2 DEF MarkInv, Pins, Marks, InSweep
<1> QED
  BY <1>1, <1>3 DEF MarkInv

(* A member dropped in the middle of a sweep is not one of a marked object.*)
LEMMA SweptSetKeeps ==
  ASSUME MarkInv, IInv', NEW o \in Obj, NEW f \in Fld, Set(<<o, f>>, Null),
         UNCHANGED <<live, chain, marked, pc, final>>, InSweep, o \notin marked
  PROVE  MarkInv'
<1>1. <<o, f>> \in Place /\ <<o, f>> # T /\ <<o, f>> # NX /\ <<o, f>> \in FldPlace
  BY Places, TagsDistinct DEF T, NX, FldPlace
<1>2. marked = Reach /\ Aside(<<o, f>>)
  BY <1>1 DEF MarkInv, Marks, Aside
<1>3. /\ Apart' /\ NoForgotten' /\ OnlyAt(<<o, f>>, at, at') /\ Reach' = Reach
  BY <1>1, <1>2, SetKeepsMarks DEF ObjOrNull
<1>4. at'[T] = at[T] /\ at'[NX] = at[NX]
  BY <1>1, <1>3, Places DEF OnlyAt
<1>5. Pins' /\ Marks'
  BY <1>3, <1>4 DEF MarkInv, Pins, Marks, InSweep
<1> QED
  BY <1>3, <1>5 DEF MarkInv

LEMMA DropFieldKeepsMarks ==
  ASSUME MarkInv, IInv', NEW o \in Obj, NEW f \in Fld, DropField(o, f)
  PROVE  MarkInv'
<1>1. /\ Set(<<o, f>>, Null) /\ UNCHANGED <<live, chain, marked, pc, final>>
      /\ dtor[o] > 0 /\ depth # 0
  BY DEF DropField, Destroys, MarkInv, IInv, Heap, HeapType
<1>2. o \notin marked /\ pc # "mark"
  BY <1>1 DEF MarkInv, IInv, Phase, Marks
<1>3. <<o, f>> \in Place /\ <<o, f>> # T /\ <<o, f>> # NX
  BY Places, TagsDistinct DEF NX
<1>4. CASE InSweep
  BY <1>1, <1>2, <1>4, SweptSetKeeps
<1>5. CASE ~InSweep
  <2>1. marked = {}
    BY <1>2, <1>5 DEF MarkInv, Marks, InSweep, IInv, ControlType
  <2> QED
    BY <1>1, <1>2, <1>3, <1>5, <2>1, UnmarkedSetKeeps DEF ObjOrNull
<1> QED
  BY <1>4, <1>5

LEMMA FinalizeKeepsMarks ==
  ASSUME MarkInv, IInv', NEW f \in Fld, Finalize(f)
  PROVE  MarkInv'
<1>1. /\ Set(<<at[T], f>>, Null) /\ UNCHANGED <<live, chain, marked, pc, final>>
      /\ at[T] # Null /\ pc = "sweep"
  BY DEF Finalize
<1>2. at[T] \in Obj /\ at[T] \notin marked
  BY <1>1, Places DEF MarkInv, Pins, IInv, Heap, HeapType, ObjOrNull
<1>3. <<at[T], f>> \in Place /\ <<at[T], f>> # T /\ <<at[T], f>> # NX
  BY <1>2, Places, TagsDistinct DEF NX
<1>4. CASE InSweep
  BY <1>1, <1>2, <1>4, SweptSetKeeps
<1>5. CASE ~InSweep
  <2>1. marked = {}
    BY <1>1, <1>5 DEF MarkInv, Marks, InSweep
  <2> QED
    BY <1>1, <1>3, <1>5, <2>1, UnmarkedSetKeeps DEF ObjOrNull
<1> QED
  BY <1>4, <1>5

LEMMA BeginSweepKeepsMarks ==
  ASSUME MarkInv, IInv', BeginSweep
  PROVE  MarkInv'
<1>1. /\ pc = "mark" /\ depth = 0 /\ Reach \subseteq marked /\ Set(T, gcChain) /\ pc' = "sweep"
      /\ UNCHANGED <<live, chain, marked, final>>
  BY DEF BeginSweep
<1>2. marked = Reach /\ Aside(T) /\ gcChain \in ObjOrNull
  BY <1>1 DEF MarkInv, Marks, Aside, IInv, ChainType
<1>3. Apart' /\ NoForgotten' /\ OnlyAt(T, at, at') /\ at'[T] = gcChain /\ Reach' = Reach
  BY <1>1, <1>2, Places, SetKeepsMarks
<1>4. at'[NX] = at[NX] /\ at[NX] = Null
  BY <1>1, <1>3, Places DEF OnlyAt, MarkInv, Pins
<1>5. Pins'
  BY <1>1, <1>3, <1>4 DEF Pins, MarkInv, Apart
<1>6. Marks'
  BY <1>1, <1>2, <1>3 DEF Marks, MarkInv, InSweep
<1> QED
  BY <1>3, <1>5, <1>6 DEF MarkInv

(* t moves to the next object, which is no more marked than this one.      *)
LEMMA PinNextKeepsMarks ==
  ASSUME MarkInv, IInv', PinNext
  PROVE  MarkInv'
<1>1. /\ pc = "sweep" /\ depth = 0 /\ at[T] # Null /\ Set(NX, next[at[T]]) /\ pc' = "unpin"
      /\ UNCHANGED <<live, chain, marked, final>>
  BY DEF PinNext
<1>2. at[T] \in live /\ dtor[at[T]] = 0 /\ at[T] \in Obj
  BY <1>1, Places, Referred DEF MarkInv, IInv
<1>3. at[T] \in linked /\ next[at[T]] \in ObjOrNull
  BY <1>2 DEF MarkInv, IInv, ChainLinked, ChainType, Dying
<1>4. next[at[T]] \notin marked
  BY <1>3, TagsDistinct DEF MarkInv, Apart, Pins, IInv, ControlType
<1>5. marked = {} \/ marked = Reach
  BY <1>1 DEF MarkInv, Marks, InSweep
<1>6. Apart' /\ NoForgotten' /\ OnlyAt(NX, at, at') /\ at'[NX] = next[at[T]] /\ Reach' = Reach
  BY <1>1, <1>3, <1>5, Places, SetKeepsMarks DEF Aside
<1>7. at'[T] = at[T]
  BY <1>6, Places DEF OnlyAt
<1>8. Pins' /\ Marks'
  BY <1>1, <1>4, <1>6, <1>7 DEF Pins, Marks, MarkInv, InSweep
<1> QED
  BY <1>6, <1>8 DEF MarkInv

LEMMA UnpinKeepsMarks ==
  ASSUME MarkInv, IInv', Unpin
  PROVE  MarkInv'
<1>1. /\ pc = "unpin" /\ depth = 0 /\ Set(T, Null) /\ pc' = "advance"
      /\ UNCHANGED <<live, chain, marked, final>>
  BY DEF Unpin
<1>2. marked = {} \/ marked = Reach
  BY <1>1 DEF MarkInv, Marks, InSweep
<1>3. Apart' /\ NoForgotten' /\ OnlyAt(T, at, at') /\ at'[T] = Null /\ Reach' = Reach
  BY <1>1, <1>2, Places, SetKeepsMarks DEF Aside, ObjOrNull
<1>4. at'[NX] = at[NX] /\ Null \notin marked
  BY <1>3, Places, TagsDistinct DEF OnlyAt, MarkInv, IInv, ControlType
<1>5. Pins' /\ Marks'
  BY <1>1, <1>3, <1>4 DEF Pins, Marks, MarkInv, InSweep
<1> QED
  BY <1>3, <1>5 DEF MarkInv

LEMMA AdvanceKeepsMarks ==
  ASSUME MarkInv, IInv', Advance
  PROVE  MarkInv'
<1>1. /\ at' = [at EXCEPT ![T] = at[NX], ![NX] = Null] /\ pc = "advance" /\ pc' = "sweep"
      /\ UNCHANGED <<live, uiRef, dtor, depth, next, prev, gcChain, tchain, linked, marked, final>>
  BY DEF Advance, chain
<1>2. /\ at'[T] = at[NX] /\ at'[NX] = Null
      /\ \A q \in Place : q \notin {T, NX} => at'[q] = at[q]
  BY <1>1, Places DEF MarkInv, IInv, Heap, HeapType
<1>3. Reach' = Reach
  <2>1. \A h \in Holder : <<Vm, h>> \in Place /\ <<Vm, h>> \notin {T, NX}
    BY Places, TagsDistinct DEF T, NX
  <2>2. \A x \in Obj, f \in Fld : <<x, f>> \in Place /\ <<x, f>> \notin {T, NX}
    BY Places, TagsDistinct DEF T, NX
  <2>3. Roots(Scanned)' = Roots(Scanned)
    BY <1>2, <2>1, Scans DEF Roots
  <2>4. Edges(MarkedFld)' = Edges(MarkedFld)
    BY <1>2, <2>2, Scans DEF Edges
  <2> QED
    BY <2>3, <2>4 DEF Reach, Closure
<1>4. Apart' /\ NoForgotten'
  BY <1>1 DEF MarkInv, Apart, OnChain, Closure, NoForgotten, Dying
<1>5. Pins'
  BY <1>1, <1>2, TagsDistinct DEF MarkInv, Pins, IInv, ControlType
<1>6. Marks'
  BY <1>1, <1>3 DEF MarkInv, Marks, InSweep
<1> QED
  BY <1>4, <1>5, <1>6 DEF MarkInv

(* A new object is counted, and in front of the unmarked ones.             *)
LEMMA CreateKeepsMarks ==
  ASSUME MarkInv, IInv', NEW o \in Obj, NEW h \in Holder, Create(o, h),
         at'[T] = at[T], at'[NX] = at[NX], uiRef'[o] > 0, \A x \in Obj : uiRef'[x] >= uiRef[x]
  PROVE  MarkInv'
<1>1. /\ pc = "run" /\ o \notin live /\ live' = live \cup {o} /\ linked' = linked \cup {o}
      /\ UNCHANGED <<marked, tchain, dtor, depth, pc, final>>
      /\ next' = [next EXCEPT ![o] = gcChain] /\ gcChain' = o
  BY DEF Create, Running, AddToChain
<1>2. marked = {} /\ tchain = Null
  BY <1>1 DEF MarkInv, Marks, IInv, Heads
<1>3. Apart'
  <2>1. tchain' = Null
    BY <1>1, <1>2
  <2>2. OnChain(tchain)' = {}
    BY <2>1 DEF OnChain
  <2> QED
    BY <1>1, <1>2, <2>2 DEF Apart
<1>4. Pins' /\ Marks'
  BY <1>1, <1>2 DEF MarkInv, Pins, Marks, InSweep
<1>5. NoForgotten'
  <2> SUFFICES ASSUME NEW x \in live', x \notin Dying', x \in Obj PROVE uiRef'[x] > 0
    BY DEF NoForgotten, IInv, Heap, HeapType
  <2>1. CASE x = o
    BY <2>1
  <2>2. CASE x # o
    <3>1. uiRef[x] > 0
      BY <1>1, <2>2 DEF MarkInv, NoForgotten, Dying
    <3>2. uiRef[x] \in Nat /\ uiRef'[x] \in Nat
      BY DEF MarkInv, IInv, Heap, HeapType
    <3> QED
      BY <3>1, <3>2
  <2> QED
    BY <2>1, <2>2
<1> QED
  BY <1>3, <1>4, <1>5 DEF MarkInv

LEMMA NewKeepsMarks ==
  ASSUME MarkInv, IInv', NEW o \in Obj, NEW h \in Holder, New(o, h)
  PROVE  MarkInv'
<1>1. /\ Create(o, h) /\ at' = [at EXCEPT ![<<Vm, h>>] = o] /\ uiRef' = AddRef(uiRef, o)
      /\ uiRef \in [Obj -> Nat] /\ at \in [Place -> ObjOrNull]
  BY DEF New, MarkInv, IInv, Heap, HeapType
<1>2. \A x \in Obj : uiRef'[x] >= uiRef[x] /\ (x = o => uiRef'[x] > 0)
  BY <1>1 DEF AddRef
<1>3. at'[T] = at[T] /\ at'[NX] = at[NX]
  BY <1>1, Places, TagsDistinct DEF T, NX
<1> QED
  BY <1>1, <1>2, <1>3, CreateKeepsMarks

LEMMA NewWithKeepsMarks ==
  ASSUME MarkInv, IInv', NEW o \in Obj, NEW h \in Holder, NEW f \in Fld \ Cleared,
         NEW q \in Place, NewWith(o, h, f, q)
  PROVE  MarkInv'
<1>1. /\ Create(o, h) /\ at' = [at EXCEPT ![<<Vm, h>>] = o, ![<<o, f>>] = at[q]]
      /\ uiRef' = AddRef(AddRef(uiRef, o), at[q])
      /\ uiRef \in [Obj -> Nat] /\ at \in [Place -> ObjOrNull]
  BY DEF NewWith, MarkInv, IInv, Heap, HeapType
<1>2. \A x \in Obj : uiRef'[x] >= uiRef[x] /\ (x = o => uiRef'[x] > 0)
  BY <1>1 DEF AddRef
<1>3. at'[T] = at[T] /\ at'[NX] = at[NX]
  BY <1>1, Places, TagsDistinct DEF T, NX
<1> QED
  BY <1>1, <1>2, <1>3, CreateKeepsMarks

(* A destructor takes an unmarked object off the chain.                    *)
LEMMA UnlinkKeepsMarks ==
  ASSUME MarkInv, IInv', NEW o \in Obj, Unlink(o)
  PROVE  MarkInv'
<1>1. /\ o \in linked /\ dtor[o] > 0 /\ linked' = linked \ {o}
      /\ next' = [x \in Obj |-> IF x = o THEN Null ELSE IF x = prev[o] THEN next[o] ELSE next[x]]
      /\ gcChain' = IF prev[o] = Null THEN next[o] ELSE gcChain
      /\ UNCHANGED <<live, at, uiRef, dtor, depth, marked, tchain, pc, final>>
  BY DEF Unlink, Destroys, heap, RemoveFromChain, MarkInv, IInv, Heap, HeapType
<1>2. /\ o \notin marked /\ marked \subseteq Obj /\ Null \notin marked
      /\ \A x \in marked : x \in linked
  BY <1>1, TagsDistinct DEF MarkInv, IInv, Phase, ControlType, ChainLinked, Dying
<1>3. Links(linked, next, prev) /\ linked \subseteq Obj
  BY DEF MarkInv, IInv, ChainLinked, ChainType
<1>4. prev[o] # Null => prev[o] \notin marked /\ prev[o] \in linked /\ next[prev[o]] = o
  BY <1>1, <1>2, <1>3, TagsDistinct DEF Links, MarkInv, Apart
<1>5. next[o] \notin marked
  BY <1>1, <1>2 DEF MarkInv, Apart
<1>6. Apart'
  <2>1. ASSUME NEW x \in linked', next'[x] # Null
        PROVE  x \in marked <=> next'[x] \in marked
    <3>1. x \in linked /\ x \in Obj /\ x # o /\ x # Null
      BY <1>1, <1>3, TagsDistinct
    <3>2. next'[x] = IF x = prev[o] THEN next[o] ELSE next[x]
      BY <1>1, <3>1
    <3>3. CASE x = prev[o]
      BY <3>1, <3>2, <3>3, <1>4, <1>5
    <3>4. CASE x # prev[o]
      BY <3>1, <3>2, <3>4, <2>1 DEF MarkInv, Apart
    <3> QED
      BY <3>3, <3>4
  <2>2. gcChain' \notin marked
    BY <1>1, <1>5 DEF MarkInv, Apart
  <2>3. OnChain(tchain)' = marked
    <3>0. Walk(next, tchain) = marked
      BY WalkIsOnChain DEF MarkInv, Apart
    <3>1. \A x \in Walk(next, tchain) : next'[x] = next[x]
      <4>1. \A x \in marked : x \in Obj /\ x # o /\ x # prev[o]
        BY <1>2, <1>4
      <4> QED
        BY <3>0, <4>1, <1>1
    <3>2. next \in LinkType /\ next' \in LinkType /\ tchain \in ObjOrNull
      BY DEF MarkInv, IInv, ChainType, LinkType
    <3>3. Walk(next', tchain) = Walk(next, tchain)
      BY <3>1, <3>2, WalkSame
    <3>4. OnChain(tchain)' = Walk(next', tchain)
      BY <1>1 DEF OnChain, Walk, NextEdges, Closure
    <3> QED
      BY <3>3, <3>4, WalkIsOnChain DEF MarkInv, Apart
  <2> QED
    BY <1>1, <2>1, <2>2, <2>3 DEF Apart
<1>7. Reach' = Reach
  BY <1>1 DEF Reach, Closure, Roots, Edges
<1>8. Pins' /\ Marks' /\ NoForgotten'
  BY <1>1, <1>7 DEF MarkInv, Pins, Marks, InSweep, NoForgotten, Dying
<1> QED
  BY <1>6, <1>8 DEF MarkInv

LEMMA FreeKeepsMarks ==
  ASSUME MarkInv, IInv', NEW o \in Obj, Free(o)
  PROVE  MarkInv'
<1>1. /\ depth > 0 /\ dtor[o] = depth /\ live' = live \ {o} /\ dtor' = [dtor EXCEPT ![o] = 0]
      /\ depth' = depth - 1 /\ depth \in Nat /\ dtor \in [Obj -> Nat]
      /\ UNCHANGED <<at, uiRef, next, prev, gcChain, tchain, linked, marked, pc, final>>
  BY DEF Free, Destroys, chain, MarkInv, IInv, Heap, HeapType
<1>2. Reach' = Reach /\ pc # "mark"
  BY <1>1 DEF Reach, Closure, Roots, Edges, MarkInv, Marks
<1>3. Apart'
  BY <1>1 DEF MarkInv, Apart, OnChain, Closure
<1>4. Pins' /\ Marks'
  BY <1>1, <1>2 DEF MarkInv, Pins, Marks, InSweep
<1>5. NoForgotten'
  <2>1. \A x \in live' : x \in Dying <=> x \in Dying'
    BY <1>1 DEF Dying
  <2> QED
    BY <1>1, <2>1 DEF MarkInv, NoForgotten
<1> QED
  BY <1>3, <1>4, <1>5 DEF MarkInv

(* Marking takes an object from one chain to the other.                    *)
LEMMA MarkKeepsMarks ==
  ASSUME MarkInv, IInv', NEW o \in Obj, MarkObject(o)
  PROVE  MarkInv'
<1> DEFINE nr == [x \in Obj |-> IF x = o THEN Null ELSE IF x = prev[o] THEN next[o] ELSE next[x]]
<1>1. /\ pc = "mark" /\ o \in Reach /\ o \notin marked /\ marked' = marked \cup {o}
      /\ next' = [nr EXCEPT ![o] = tchain] /\ tchain' = o
      /\ gcChain' = IF prev[o] = Null THEN next[o] ELSE gcChain
      /\ UNCHANGED <<live, at, uiRef, dtor, depth, linked, pc, final>>
  BY DEF MarkObject, RemoveFromChain, AddToChain, heap
<1>2. /\ o \in live /\ dtor[o] = 0 /\ o # Null /\ o \in linked
      /\ marked \subseteq Obj /\ Null \notin marked /\ \A x \in marked : x \in linked
  BY <1>1, ReachIsReferred, Referred, TagsDistinct
     DEF MarkInv, IInv, Phase, ControlType, ChainLinked, Dying
<1>3. /\ Links(linked, next, prev) /\ linked \subseteq Obj
      /\ next \in LinkType /\ next' \in LinkType /\ tchain \in ObjOrNull /\ nr \in LinkType
  BY DEF MarkInv, IInv, ChainLinked, ChainType, LinkType, ObjOrNull
<1> HIDE DEF nr
<1>4. /\ prev[o] # Null => prev[o] \notin marked /\ prev[o] \in linked /\ next[prev[o]] = o
      /\ prev[o] = o => next[o] = o
  BY <1>1, <1>2, <1>3, TagsDistinct DEF Links, MarkInv, Apart
<1>5. next[o] \notin marked
  BY <1>1, <1>2 DEF MarkInv, Apart
<1>6. \A x \in marked : nr[x] = next[x]
  BY <1>1, <1>2, <1>4 DEF nr
<1>7. OnChain(tchain)' = marked'
  <2>1. Walk(nr, tchain) = marked
    BY <1>3, <1>6, WalkSame, WalkIsOnChain DEF MarkInv, Apart
  <2>2. Walk(next', o) = {o} \cup marked
    BY <1>1, <1>3, <2>1, WalkAdd
  <2>3. OnChain(tchain)' = Walk(next', tchain')
    BY DEF OnChain, Walk, NextEdges, Closure
  <2> QED
    BY <1>1, <2>2, <2>3
<1>8. gcChain' # o
  <2>1. gcChain' = gcChain => gcChain # o \/ prev[o] = Null
    BY <1>2 DEF MarkInv, IInv, ChainLinked
  <2>2. prev[o] = Null => next[o] # o
    BY <1>2, <1>3 DEF Links
  <2> QED
    BY <1>1, <2>1, <2>2
<1>9. \A x \in linked : next'[x] # Null => (x \in marked' <=> next'[x] \in marked')
  <2> SUFFICES ASSUME NEW x \in linked, next'[x] # Null
               PROVE  x \in marked' <=> next'[x] \in marked'
    OBVIOUS
  <2>1. CASE x = o
    <3>1. next'[x] = tchain
      BY <1>1, <1>3, <2>1 DEF LinkType
    <3> QED
      BY <3>1, <1>1, <2>1 DEF MarkInv, IInv, Heads
  <2>2. CASE x # o
    <3>1. next'[x] = IF x = prev[o] THEN next[o] ELSE next[x]
      BY <1>1, <1>3, <2>2 DEF nr
    <3>2. CASE x = prev[o]
      <4>1. x \notin marked' /\ x # Null
        BY <1>1, <1>3, <1>4, <2>2, <3>2, TagsDistinct
      <4>2. next[o] # o
        BY <1>2, <1>3, <2>2, <3>2 DEF Links
      <4> QED
        BY <3>1, <3>2, <4>1, <4>2, <1>1, <1>5
    <3>3. CASE x # prev[o]
      <4>1. next[x] # o
        BY <1>2, <1>3, <3>3 DEF Links
      <4> QED
        BY <3>1, <3>3, <4>1, <1>1, <2>2 DEF MarkInv, Apart
    <3> QED
      BY <3>2, <3>3
  <2> QED
    BY <2>1, <2>2
<1>10. Apart'
  BY <1>1, <1>5, <1>7, <1>8, <1>9 DEF MarkInv, Apart
<1>11. Reach' = Reach
  BY <1>1 DEF Reach, Closure, Roots, Edges
<1>12. Pins' /\ Marks'
  <2>1. at[T] = Null /\ at[NX] = Null
    BY <1>1 DEF MarkInv, Pins
  <2> QED
    BY <1>1, <1>2, <1>11, <2>1 DEF MarkInv, Pins, Marks, InSweep
<1>13. NoForgotten'
  BY <1>1 DEF MarkInv, NoForgotten, Dying
<1> QED
  BY <1>10, <1>12, <1>13 DEF MarkInv

(* A collection begins, the shutdown begins, and both end.                 *)
LEMMA EndsKeepMarks ==
  ASSUME MarkInv, IInv', CollectGarbage \/ Shutdown \/ EndSweep \/ EndFinalSweep \/ UNCHANGED vars
  PROVE  MarkInv'
<1>1. UNCHANGED <<live, at, uiRef, dtor, depth, next, prev, linked>>
  BY DEF CollectGarbage, Shutdown, EndSweep, EndFinalSweep, vars, heap, chain
<1>2. NoForgotten' /\ Reach' = Reach
  BY <1>1 DEF MarkInv, NoForgotten, Dying, Reach, Closure, Roots, Edges
<1>3. \A h : h = Null => OnChain(h) = {}
  BY DEF OnChain
<1>4. CASE CollectGarbage
  <2>1. /\ pc = "run" /\ depth = 0 /\ pc' = "mark" /\ tchain' = Null
        /\ UNCHANGED <<gcChain, marked, final>>
    BY <1>4 DEF CollectGarbage, Running
  <2>2. marked = {}
    BY <2>1 DEF MarkInv, Marks
  <2>3. OnChain(tchain)' = {}
    BY <2>1 DEF OnChain
  <2> QED
    BY <1>1, <1>2, <2>1, <2>2, <2>3 DEF MarkInv, Apart, Pins, Marks, InSweep
<1>5. CASE EndSweep
  <2>1. /\ pc = "sweep" /\ ~final /\ at[T] = Null /\ marked' = {} /\ tchain' = Null
        /\ pc' = "run" /\ final' = final
    BY <1>5 DEF EndSweep
  <2>2. OnChain(tchain)' = {}
    BY <2>1 DEF OnChain
  <2> QED
    BY <1>1, <1>2, <2>1, <2>2 DEF MarkInv, Apart, Pins, Marks, InSweep
<1>6. CASE Shutdown \/ EndFinalSweep \/ UNCHANGED vars
  <2>1. /\ UNCHANGED <<gcChain, tchain, marked, final>>
        /\ \/ pc = "run" /\ depth = 0 /\ pc' = "closing"
           \/ pc = "sweep" /\ final /\ at[T] = Null /\ pc' = "closed"
           \/ pc' = pc
    BY <1>6 DEF Shutdown, Running, EndFinalSweep, vars, chain
  <2>2. Apart'
    BY <1>1, <2>1 DEF MarkInv, Apart, OnChain, Closure
  <2>3. Pins' /\ Marks'
    BY <1>1, <1>2, <2>1 DEF MarkInv, Pins, Marks, InSweep
  <2> QED
    BY <1>2, <2>2, <2>3 DEF MarkInv
<1> QED
  BY <1>4, <1>5, <1>6

LEMMA BeginFinalSweepKeepsMarks ==
  ASSUME MarkInv, IInv', BeginFinalSweep
  PROVE  MarkInv'
<1>1. /\ pc = "closing" /\ Set(T, gcChain) /\ pc' = "sweep" /\ final' = TRUE
      /\ UNCHANGED <<live, chain, marked>>
  BY DEF BeginFinalSweep
<1>2. marked = {} /\ gcChain \in ObjOrNull
  BY <1>1 DEF MarkInv, Marks, IInv, ChainType
<1>3. Apart' /\ NoForgotten' /\ OnlyAt(T, at, at') /\ at'[T] = gcChain
  BY <1>1, <1>2, Places, SetKeepsMarks
<1>4. at'[NX] = at[NX] /\ at[NX] = Null
  BY <1>1, <1>3, Places DEF OnlyAt, MarkInv, Pins
<1>5. Pins' /\ Marks'
  BY <1>1, <1>2, <1>3, <1>4 DEF Pins, Marks, InSweep
<1> QED
  BY <1>3, <1>5 DEF MarkInv

(* The script stores, or the shutdown nulls a holder.                      *)
LEMMA StoreKeepsMarks ==
  ASSUME MarkInv, IInv', NEW p \in Place,
         \/ \E q \in Place : Assign(p, q)
         \/ NullSlot(p)
         \/ \E h \in Holder : p = <<Vm, h>> /\ NullHolder(h)
  PROVE  MarkInv'
<1>1. PICK v \in ObjOrNull : Set(p, v)
  BY DEF Assign, NullSlot, NullHolder, MarkInv, IInv, Heap, HeapType, ObjOrNull
<1>2. /\ UNCHANGED <<live, chain, marked, pc, final>>
      /\ pc \in {"run", "closing"}
  BY DEF Assign, NullSlot, NullHolder, Running
<1>3. p # T /\ p # NX
  <2>1. p \in Writable \/ \E h \in Holder : p = <<Vm, h>>
    BY DEF Assign, NullSlot
  <2>2. p[1] # Gc
    BY <2>1, TagsDistinct DEF Writable, VmPlace, FldPlace
  <2>3. T[1] = Gc /\ NX[1] = Gc
    BY DEF T, NX
  <2> QED
    BY <2>2, <2>3
<1>4. marked = {} /\ pc # "mark" /\ ~InSweep
  BY <1>2 DEF MarkInv, Marks, InSweep
<1> QED
  BY <1>1, <1>2, <1>3, <1>4, UnmarkedSetKeeps

LEMMA InitMarkInv == Init => MarkInv
<1> SUFFICES ASSUME Init PROVE MarkInv
  OBVIOUS
<1>1. IInv
  BY InitIInv
<1>2. Apart /\ NoForgotten
  BY DEF Init, Apart, NoForgotten, OnChain
<1>3. Pins
  BY Places DEF Init, Pins
<1>4. Marks
  BY DEF Init, Marks, InSweep
<1> QED
  BY <1>1, <1>2, <1>3, <1>4 DEF MarkInv

LEMMA NextKeepsMarkInv == MarkInv /\ [Next]_vars => MarkInv'
<1> SUFFICES ASSUME MarkInv, [Next]_vars PROVE MarkInv'
  OBVIOUS
<1>1. IInv'
  BY NextKeepsIInv DEF MarkInv
<1>2. CASE Script
  <2>1. ASSUME NEW o \in Obj, NEW h \in Holder, New(o, h) PROVE MarkInv'
    BY <1>1, <2>1, NewKeepsMarks
  <2>2. ASSUME NEW o \in Obj, NEW h \in Holder, NEW f \in Fld \ Cleared, NEW q \in Place,
               NewWith(o, h, f, q)
        PROVE  MarkInv'
    BY <1>1, <2>2, NewWithKeepsMarks
  <2>3. ASSUME NEW p \in Place, NEW q \in Place, Assign(p, q) PROVE MarkInv'
    BY <1>1, <2>3, StoreKeepsMarks
  <2>4. ASSUME NEW p \in Place, NullSlot(p) PROVE MarkInv'
    BY <1>1, <2>4, StoreKeepsMarks
  <2> QED
    BY <1>1, <1>2, <2>1, <2>2, <2>3, <2>4, EndsKeepMarks DEF Script
<1>3. CASE Destruct
  <2>1. ASSUME NEW o \in Obj, NEW f \in Fld, DropField(o, f) PROVE MarkInv'
    BY <1>1, <2>1, DropFieldKeepsMarks
  <2>2. ASSUME NEW o \in Obj, Unlink(o) \/ Free(o) PROVE MarkInv'
    BY <1>1, <2>2, UnlinkKeepsMarks, FreeKeepsMarks
  <2> QED
    BY <1>3, <2>1, <2>2 DEF Destruct
<1>4. CASE Collect
  <2>1. ASSUME NEW o \in Obj, MarkObject(o) PROVE MarkInv'
    BY <1>1, <2>1, MarkKeepsMarks
  <2>2. ASSUME NEW f \in Fld, Finalize(f) PROVE MarkInv'
    BY <1>1, <2>2, FinalizeKeepsMarks
  <2> QED
    BY <1>1, <1>4, <2>1, <2>2, BeginSweepKeepsMarks, PinNextKeepsMarks, UnpinKeepsMarks,
       AdvanceKeepsMarks, EndsKeepMarks DEF Collect
<1>5. CASE Close
  <2>1. ASSUME NEW h \in Holder, NullHolder(h) PROVE MarkInv'
    BY <1>1, <2>1, Places, StoreKeepsMarks
  <2> QED
    BY <1>1, <1>5, <2>1, BeginFinalSweepKeepsMarks, EndsKeepMarks DEF Close
<1>6. CASE UNCHANGED vars
  BY <1>1, <1>6, EndsKeepMarks
<1> QED
  BY <1>2, <1>3, <1>4, <1>5, <1>6 DEF Next

-----------------------------------------------------------------------------
THEOREM MarksInvariance == Spec => []MarkInv
BY InitMarkInv, NextKeepsMarkInv, PTL DEF Spec

(* From the start of a collection to its end, tchain holds the marked      *)
(* objects and no other, though the sweep destroys objects next to it.     *)
THEOREM TchainHoldsTheMarked == Spec => []TchainIsMarked
<1>1. MarkInv => TchainIsMarked
  BY DEF MarkInv, Apart, TchainIsMarked
<1> QED
  BY <1>1, MarksInvariance, PTL

(* No object outlives its last reference, whatever the marker misses: while*)
(* the mark bit suppresses a release, the references the marker followed   *)
(* are still there.                                                        *)
THEOREM NothingIsForgotten == Spec => []NoForgotten
<1>1. MarkInv => NoForgotten
  BY DEF MarkInv
<1> QED
  BY <1>1, MarksInvariance, PTL
=============================================================================
