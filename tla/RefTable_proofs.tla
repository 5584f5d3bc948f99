-------------------------- MODULE RefTable_proofs --------------------------
(***************************************************************************)
(* Proofs about RefTable, for every set of objects, whichever of them have *)
(* a release hook, and every size of a new table.                          *)
(***************************************************************************)
EXTENDS RefTable, FiniteSetTheorems, SequenceTheorems, TLAPS

-----------------------------------------------------------------------------
(* The inductive invariant.                                                *)

(* A node is where its object is looked up, and the nodes have room.       *)
Nodes(tb) ==
    /\ tb \in [slots : Nat \ {0}, used : Nat,
               bucket : [Obj -> Nat \cup {None}], refs : [Obj -> Nat]]
    /\ \A x \in Linked(tb) : tb.bucket[x] = Mainpos(tb, x)
    /\ tb.used <= tb.slots

(* An object has a node as long as somebody pins it.                       *)
NodesInUse(tb) ==
    /\ \A x \in Obj : x \in Linked(tb) <=> tb.refs[x] > 0
    /\ tb.used = Cardinality(Linked(tb))

Types ==
    /\ Nodes(tab)
    /\ fld \in [Obj -> Obj \cup {None}] /\ pin \in [Obj -> SUBSET Obj]
    /\ live \subseteq Obj /\ IsFiniteSet(live) /\ held \subseteq live
    /\ marked \subseteq Obj /\ todo \subseteq Obj /\ t \in Obj \cup {None}
    /\ dtors \in Seq(Obj)
    /\ pc \in {"run", "sweep", "closing", "finalize", "final", "closed"}

(* What is referred to is allocated and stays so: no destructor runs on    *)
(* it.  What is freed has left nothing behind.                             *)
Owners ==
    /\ (Referenced \ {None}) \cup Dying \subseteq live
    /\ Dying \cap Referenced = {}
    /\ \A x \in Obj \ live : fld[x] = None /\ pin[x] = {}
    /\ \A x \in Obj \ Native : fld[x] = None

(* No object is destroyed twice.                                           *)
Once ==
    /\ \A i, j \in 1 .. Len(dtors) : dtors[i] = dtors[j] => i = j
    /\ Cardinality(Dying) = Len(dtors)

Pinners(x) == {n \in live : x \in pin[n]}

(* Until the shutdown begins a node says how many pin its object.          *)
Counted ==
    pc \in {"run", "sweep"} =>
        NodesInUse(tab) /\ \A x \in Obj : tab.refs[x] = Cardinality(Pinners(x))

Phases ==
    /\ pc \in {"run", "closing", "finalize"} => t = None /\ marked = {}
    /\ pc \in {"finalize", "final"} => held = {}
    /\ pc = "final" => Linked(tab) = {} /\ marked = {}
    /\ pc = "closed" => dtors = <<>>

(* A sweep has not marked what it will free: what it has passed has lost   *)
(* its member, and what it has not passed yet, and nothing refers to, is   *)
(* still ahead of it.                                                      *)
Sweep ==
    pc \in {"sweep", "final"} =>
        /\ t = None => todo = {}
        /\ held \cup Linked(tab) \subseteq marked
        /\ \A n \in Native \cap marked : fld[n] \in marked \cup {None}
        /\ \A n \in live \ (marked \cup todo \cup {t} \cup Dying) : fld[n] = None
        /\ live \ marked \subseteq Referenced \cup Dying \cup todo

IInv == Types /\ Owners /\ Once /\ Counted /\ Phases /\ Sweep

-----------------------------------------------------------------------------
(* Lemmas about the table.                                                 *)

LEMMA MainposInTable ==
  ASSUME NEW x \in Obj, NEW n \in Nat \ {0}
  PROVE  x % n \in 0 .. n - 1
BY ObjectsAreNumbers

(* A lookup finds what is linked, and nothing else.                        *)
LEMMA FoundIsLinked ==
  ASSUME NEW tb, Nodes(tb), NEW x \in Obj
  PROVE  Found(tb, x) <=> x \in Linked(tb)
<1>1. tb.slots \in Nat \ {0}
  BY DEF Nodes
<1>2. x % tb.slots \in Nat
  BY <1>1, MainposInTable
<1> QED
  BY <1>2, ObjectsAreNumbers DEF Found, Nodes, Linked, Mainpos

(* A larger table has the same nodes.                                      *)
LEMMA ResizeKeeps ==
  ASSUME NEW tb, Nodes(tb), NodesInUse(tb), IsFiniteSet(Linked(tb)), NEW n \in Nat \ {0}, tb.used <= n
  PROVE  LET r == Resize(tb, n)
         IN  /\ Nodes(r) /\ Linked(r) = Linked(tb)
             /\ r.refs = tb.refs /\ r.used = tb.used /\ r.slots = n
<1> DEFINE r == Resize(tb, n)
<1>1. \A x \in Obj : x % n \in Nat /\ x % n # None
  BY MainposInTable, ObjectsAreNumbers
<1>2. /\ r.slots = n /\ r.used = tb.used /\ r.refs = tb.refs
      /\ r.bucket = [x \in Obj |-> IF x \in Linked(tb) THEN x % n ELSE None]
  BY DEF Resize, NodesInUse
<1>3. Linked(r) = Linked(tb)
  BY <1>1, <1>2 DEF Linked
<1>4. r \in [slots : Nat \ {0}, used : Nat,
            bucket : [Obj -> Nat \cup {None}], refs : [Obj -> Nat]]
  BY <1>1 DEF Nodes, NodesInUse, Resize
<1>5. \A x \in Linked(r) : r.bucket[x] = Mainpos(r, x)
  BY <1>2, <1>3 DEF Mainpos, Linked
<1> QED
  BY <1>2, <1>3, <1>4, <1>5 DEF Nodes

(* sq_addref: the object has a node, with one reference more.              *)
LEMMA AddRefCounts ==
  ASSUME NEW tb, Nodes(tb), NodesInUse(tb), IsFiniteSet(Linked(tb)), NEW x \in Obj
  PROVE  LET r == AddRef(tb, x)
         IN  /\ Nodes(r) /\ NodesInUse(r)
             /\ Linked(r) = Linked(tb) \cup {x}
             /\ r.refs = [tb.refs EXCEPT ![x] = @ + 1]
<1> DEFINE r == AddRef(tb, x)
<1>1. tb.slots \in Nat \ {0} /\ tb.used \in Nat /\ tb.refs \in [Obj -> Nat]
      /\ tb.bucket \in [Obj -> Nat \cup {None}] /\ tb.used <= tb.slots
  BY DEF Nodes
<1>2. CASE x \in Linked(tb)
  <2>1. r = [tb EXCEPT !.refs[x] = @ + 1]
    BY <1>2, FoundIsLinked DEF AddRef, Get
  <2>2. r.bucket = tb.bucket /\ r.slots = tb.slots /\ r.used = tb.used
        /\ r.refs = [tb.refs EXCEPT ![x] = @ + 1]
    BY <2>1 DEF Nodes
  <2>3. Linked(r) = Linked(tb)
    BY <2>2 DEF Linked
  <2>4. Nodes(r)
    BY <2>1, <2>2, <2>3, <1>1 DEF Nodes, Mainpos
  <2>5. NodesInUse(r)
    BY <2>2, <2>3, <1>1, <1>2 DEF NodesInUse
  <2> QED
    BY <2>2, <2>3, <2>4, <2>5, <1>2
<1>3. CASE x \notin Linked(tb)
  <2> DEFINE roomy == IF tb.used = tb.slots THEN Resize(tb, 2 * tb.slots) ELSE tb
  <2>1. /\ Nodes(roomy) /\ Linked(roomy) = Linked(tb) /\ roomy.refs = tb.refs
        /\ roomy.used = tb.used /\ roomy.used < roomy.slots
    <3>1. 2 * tb.slots \in Nat \ {0} /\ tb.used <= 2 * tb.slots /\ tb.slots < 2 * tb.slots
      BY <1>1
    <3>2. LET q == Resize(tb, 2 * tb.slots)
          IN  /\ Nodes(q) /\ Linked(q) = Linked(tb) /\ q.refs = tb.refs
              /\ q.used = tb.used /\ q.slots = 2 * tb.slots
      BY <3>1, ResizeKeeps
    <3> QED
      BY <3>1, <3>2, <1>1
  <2> HIDE DEF roomy
  <2>2. r = [Add(roomy, x, Mainpos(roomy, x)) EXCEPT !.refs[x] = @ + 1]
    BY <1>3, FoundIsLinked DEF AddRef, Get, roomy
  <2>3. /\ roomy.slots \in Nat \ {0} /\ roomy.used \in Nat /\ roomy.refs \in [Obj -> Nat]
        /\ roomy.bucket \in [Obj -> Nat \cup {None}]
    BY <2>1 DEF Nodes
  <2>4. Mainpos(roomy, x) \in Nat /\ Mainpos(roomy, x) # None
    BY <2>3, MainposInTable, ObjectsAreNumbers DEF Mainpos
  <2>5. /\ r.slots = roomy.slots /\ r.used = roomy.used + 1
        /\ r.bucket = [roomy.bucket EXCEPT ![x] = Mainpos(roomy, x)]
        /\ r.refs = [tb.refs EXCEPT ![x] = @ + 1]
    BY <2>1, <2>2 DEF Add, Nodes
  <2>6. Linked(r) = Linked(tb) \cup {x}
    BY <2>1, <2>3, <2>4, <2>5 DEF Linked
  <2>7. r \in [slots : Nat \ {0}, used : Nat,
              bucket : [Obj -> Nat \cup {None}], refs : [Obj -> Nat]]
    <3>1. r = [slots |-> r.slots, used |-> r.used, bucket |-> r.bucket, refs |-> r.refs]
      BY <2>1, <2>2 DEF Add, Nodes
    <3>2. r.bucket \in [Obj -> Nat \cup {None}] /\ r.refs \in [Obj -> Nat]
      BY <2>3, <2>4, <2>5, <1>1
    <3> HIDE DEF r
    <3> QED
      BY <3>1, <3>2, <2>3, <2>5
  <2>8. \A y \in Linked(r) : r.bucket[y] = Mainpos(r, y)
    BY <2>1, <2>3, <2>5, <2>6 DEF Nodes, Mainpos, Linked
  <2>9. Cardinality(Linked(r)) = Cardinality(Linked(tb)) + 1
    BY <2>6, <1>3, FS_AddElement
  <2>10. NodesInUse(r)
    BY <2>1, <2>5, <2>6, <2>9, <1>1, <1>3 DEF NodesInUse
  <2> QED
    BY <2>1, <2>3, <2>5, <2>6, <2>7, <2>8, <2>10 DEF Nodes
<1> QED
  BY <1>2, <1>3

(* sq_release: one reference less, and no node when it was the last one.   *)
LEMMA ReleaseCounts ==
  ASSUME NEW tb, Nodes(tb), NodesInUse(tb), IsFiniteSet(Linked(tb)),
         NEW x \in Linked(tb)
  PROVE  LET r == Release(tb, x)
         IN  /\ Nodes(r) /\ NodesInUse(r)
             /\ Linked(tb) \ {x} \subseteq Linked(r) /\ Linked(r) \subseteq Linked(tb)
             /\ r.refs = [tb.refs EXCEPT ![x] = @ - 1]
<1> DEFINE r == Release(tb, x)
<1>1. tb.slots \in Nat \ {0} /\ tb.used \in Nat /\ tb.refs \in [Obj -> Nat]
      /\ tb.bucket \in [Obj -> Nat \cup {None}] /\ tb.used <= tb.slots
  BY DEF Nodes
<1>2. x \in Obj /\ Found(tb, x) /\ tb.refs[x] \in Nat /\ tb.refs[x] > 0
  BY <1>1, FoundIsLinked DEF Linked, NodesInUse
<1>3. CASE tb.refs[x] > 1
  <2>1. r = [tb EXCEPT !.refs[x] = @ - 1]
    BY <1>2, <1>3 DEF Release
  <2>2. r.bucket = tb.bucket /\ r.slots = tb.slots /\ r.used = tb.used
        /\ r.refs = [tb.refs EXCEPT ![x] = @ - 1]
    BY <2>1 DEF Nodes
  <2>3. Linked(r) = Linked(tb)
    BY <2>2 DEF Linked
  <2>4. Nodes(r)
    BY <2>1, <2>2, <2>3, <1>1, <1>2 DEF Nodes, Mainpos
  <2>5. NodesInUse(r)
    BY <2>2, <2>3, <1>1, <1>2, <1>3 DEF NodesInUse
  <2> QED
    BY <2>2, <2>3, <2>4, <2>5
<1>4. CASE tb.refs[x] = 1
  <2>1. r = [tb EXCEPT !.refs[x] = 0, !.bucket[x] = None, !.used = @ - 1]
    BY <1>2, <1>4 DEF Release
  <2>2. /\ r.bucket = [tb.bucket EXCEPT ![x] = None] /\ r.slots = tb.slots
        /\ r.used = tb.used - 1 /\ r.refs = [tb.refs EXCEPT ![x] = 0]
    BY <2>1 DEF Nodes
  <2>3. Linked(r) = Linked(tb) \ {x}
    BY <2>2, <1>1 DEF Linked
  <2>4. Cardinality(Linked(r)) = tb.used - 1 /\ tb.used > 0
    <3>1. Cardinality(Linked(tb)) # 0
      BY FS_EmptySet
    <3>2. Cardinality(Linked(r)) = Cardinality(Linked(tb)) - 1
      BY <2>3, FS_RemoveElement
    <3> QED
      BY <3>1, <3>2, <1>1 DEF NodesInUse
  <2>5. r \in [slots : Nat \ {0}, used : Nat,
              bucket : [Obj -> Nat \cup {None}], refs : [Obj -> Nat]]
    <3>1. r = [slots |-> r.slots, used |-> r.used, bucket |-> r.bucket, refs |-> r.refs]
      BY <2>1 DEF Nodes
    <3> HIDE DEF r
    <3>2. r.bucket \in [Obj -> Nat \cup {None}]
      BY <2>2, <1>1
    <3>3. r.refs \in [Obj -> Nat]
      <4>1. \A f \in [Obj -> Nat] : [f EXCEPT ![x] = 0] \in [Obj -> Nat]
        OBVIOUS
      <4> QED
        BY <4>1, <2>2, <1>1
    <3>4. r.used \in Nat
      BY <2>2, <2>4, <1>1
    <3> QED
      BY <3>1, <3>2, <3>3, <3>4, <2>2, <1>1
  <2>6. \A y \in Linked(r) : r.bucket[y] = Mainpos(r, y)
    BY <2>2, <2>3, <1>1 DEF Nodes, Mainpos, Linked
  <2>7. Nodes(r)
    BY <2>2, <2>4, <2>5, <2>6, <1>1 DEF Nodes
  <2>8. NodesInUse(r)
    BY <2>2, <2>3, <2>4, <1>1, <1>2 DEF NodesInUse
  <2> QED
    BY <2>2, <2>3, <2>7, <2>8, <1>1, <1>2, <1>4
<1> QED
  BY <1>2, <1>3, <1>4

-----------------------------------------------------------------------------
(* Lemmas about destructors, pins and what is referred to.                 *)

(* A destructor is put on top of those that run.                           *)
LEMMA UnreferDies ==
  ASSUME Types, Owners, Once, NEW x, Unrefer(x)
  PROVE  /\ dtors' \in Seq(Obj) /\ Once'
         /\ Dying' = IF x \in live \ (Referenced' \cup marked \cup Dying)
                     THEN Dying \cup {x} ELSE Dying
<1>1. CASE x \notin live \ (Referenced' \cup marked \cup Dying)
  <2>1. dtors' = dtors
    BY <1>1 DEF Unrefer
  <2>2. Dying' = Dying
    BY <2>1 DEF Dying
  <2>3. dtors' \in Seq(Obj) /\ Once'
    BY <2>1, <2>2 DEF Types, Once
  <2> QED
    BY <2>2, <2>3, <1>1
<1>2. CASE x \in live \ (Referenced' \cup marked \cup Dying)
  <2>1. dtors' = <<x>> \o dtors /\ x \in Obj /\ dtors \in Seq(Obj)
    BY <1>2 DEF Unrefer, Types
  <2>2. /\ dtors' \in Seq(Obj) /\ Len(dtors') = Len(dtors) + 1 /\ Len(dtors) \in Nat
        /\ dtors'[1] = x
        /\ \A i \in 2 .. Len(dtors) + 1 : dtors'[i] = dtors[i - 1]
    <3>1. <<x>> \in Seq(Obj) /\ Len(<<x>>) = 1 /\ <<x>>[1] = x
      BY <2>1
    <3>2. Len(dtors) \in Nat
      BY <2>1
    <3>3. /\ dtors' \in Seq(Obj) /\ Len(dtors') = Len(dtors) + 1
          /\ \A i \in 1 .. Len(dtors) + 1 :
                dtors'[i] = IF i <= 1 THEN <<x>>[i] ELSE dtors[i - 1]
      BY <2>1, <3>1, <3>2, ConcatProperties
    <3> QED
      BY <3>1, <3>2, <3>3
  <2>3. Dying' = Dying \cup {x}
    <3>1. \A i \in 1 .. Len(dtors) : i + 1 \in 1 .. Len(dtors') /\ dtors'[i + 1] = dtors[i]
      BY <2>2
    <3>2. \A i \in 1 .. Len(dtors') : i = 1 \/ (i - 1 \in 1 .. Len(dtors) /\ dtors'[i] = dtors[i - 1])
      BY <2>2
    <3>3. ASSUME NEW y \in Dying'
          PROVE  y \in Dying \cup {x}
      <4>1. PICK i \in 1 .. Len(dtors') : y = dtors'[i]
        BY <3>3 DEF Dying
      <4>2. CASE i = 1
        BY <4>1, <4>2, <2>2
      <4>3. CASE i - 1 \in 1 .. Len(dtors) /\ dtors'[i] = dtors[i - 1]
        BY <4>1, <4>3 DEF Dying
      <4> QED
        BY <4>1, <4>2, <4>3, <3>2
    <3>4. ASSUME NEW y \in Dying
          PROVE  y \in Dying'
      <4>1. PICK i \in 1 .. Len(dtors) : y = dtors[i]
        BY <3>4 DEF Dying
      <4>2. i + 1 \in 1 .. Len(dtors') /\ dtors'[i + 1] = y
        BY <4>1, <3>1
      <4> QED
        BY <4>2 DEF Dying
    <3>5. x \in Dying'
      <4>1. 1 \in 1 .. Len(dtors')
        BY <2>2
      <4> QED
        BY <4>1, <2>2 DEF Dying
    <3> QED
      BY <3>3, <3>4, <3>5
  <2>4. IsFiniteSet(Dying)
    BY FS_Subset DEF Types, Owners
  <2>5. Cardinality(Dying') = Cardinality(Dying) + 1
    BY <2>3, <2>4, <1>2, FS_AddElement
  <2>6. ASSUME NEW i \in 1 .. Len(dtors'), NEW j \in 1 .. Len(dtors'), dtors'[i] = dtors'[j]
        PROVE  i = j
    <3>1. \A k \in 1 .. Len(dtors) : dtors[k] \in Dying
      BY DEF Dying
    <3>2. CASE i = 1 /\ j # 1
      <4>1. j - 1 \in 1 .. Len(dtors) /\ dtors'[j] = dtors[j - 1]
        BY <2>2, <3>2
      <4> QED
        BY <4>1, <3>1, <3>2, <2>2, <2>6, <1>2
    <3>3. CASE i # 1 /\ j = 1
      <4>1. i - 1 \in 1 .. Len(dtors) /\ dtors'[i] = dtors[i - 1]
        BY <2>2, <3>3
      <4> QED
        BY <4>1, <3>1, <3>3, <2>2, <2>6, <1>2
    <3>4. CASE i # 1 /\ j # 1
      <4>1. /\ i - 1 \in 1 .. Len(dtors) /\ dtors'[i] = dtors[i - 1]
            /\ j - 1 \in 1 .. Len(dtors) /\ dtors'[j] = dtors[j - 1]
        BY <2>2, <3>4
      <4>2. i - 1 = j - 1
        BY <4>1, <2>6 DEF Once
      <4> QED
        BY <4>2
    <3> QED
      BY <3>2, <3>3, <3>4
  <2> QED
    BY <2>2, <2>3, <2>5, <2>6, <1>2 DEF Once
<1> QED
  BY <1>1, <1>2

(* The innermost destructor is through.                                    *)
LEMMA FreeUndies ==
  ASSUME Types, Owners, Once, dtors # <<>>, dtors' = Tail(dtors)
  PROVE  /\ dtors' \in Seq(Obj) /\ Once' /\ Head(dtors) \in Dying
         /\ Dying' = Dying \ {Head(dtors)}
<1>1. dtors \in Seq(Obj) /\ Len(dtors) \in Nat \ {0}
  BY DEF Types
<1>2. /\ dtors' \in Seq(Obj) /\ Len(dtors') = Len(dtors) - 1 /\ Head(dtors) = dtors[1]
      /\ \A i \in 1 .. Len(dtors) - 1 : dtors'[i] = dtors[i + 1]
  BY <1>1
<1>3. Head(dtors) \in Dying
  BY <1>1, <1>2 DEF Dying
<1>4. Dying' = Dying \ {Head(dtors)}
  <2>1. ASSUME NEW i \in 1 .. Len(dtors')
        PROVE  dtors'[i] \in Dying \ {Head(dtors)}
    <3>1. i + 1 \in 1 .. Len(dtors) /\ 1 \in 1 .. Len(dtors) /\ i + 1 # 1
      BY <1>1, <1>2
    <3>2. dtors[i + 1] # dtors[1]
      BY <3>1 DEF Once
    <3> QED
      BY <3>1, <3>2, <1>2 DEF Dying
  <2>2. ASSUME NEW i \in 1 .. Len(dtors), dtors[i] # Head(dtors)
        PROVE  dtors[i] \in Dying'
    <3>1. i # 1
      BY <2>2, <1>2
    <3>2. i - 1 \in 1 .. Len(dtors') /\ dtors'[i - 1] = dtors[i]
      BY <3>1, <1>1, <1>2
    <3> QED
      BY <3>2 DEF Dying
  <2> QED
    BY <2>1, <2>2 DEF Dying
<1>5. Cardinality(Dying') = Len(dtors')
  <2>1. IsFiniteSet(Dying)
    BY FS_Subset DEF Types, Owners
  <2> QED
    BY <2>1, <1>2, <1>3, <1>4, FS_RemoveElement DEF Once
<1>6. \A i, j \in 1 .. Len(dtors') : dtors'[i] = dtors'[j] => i = j
  <2>1. SUFFICES ASSUME NEW i \in 1 .. Len(dtors'), NEW j \in 1 .. Len(dtors'),
                        dtors'[i] = dtors'[j]
                 PROVE  i = j
    OBVIOUS
  <2>2. /\ i + 1 \in 1 .. Len(dtors) /\ j + 1 \in 1 .. Len(dtors)
        /\ dtors[i + 1] = dtors[j + 1]
    BY <2>1, <1>1, <1>2
  <2>3. i + 1 = j + 1
    BY <2>2 DEF Once
  <2> QED
    BY <2>3, <1>1, <1>2
<1> QED
  BY <1>2, <1>3, <1>4, <1>5, <1>6 DEF Once

(* Those who pin an object, and what is linked, can be counted.            *)
LEMMA PinnersFinite ==
  ASSUME Types, NEW x
  PROVE  IsFiniteSet(Pinners(x)) /\ Cardinality(Pinners(x)) \in Nat
<1>1. IsFiniteSet(Pinners(x))
  BY FS_Subset DEF Pinners, Types
<1> QED
  BY <1>1, FS_CardinalityType

LEMMA LinkedFinite ==
  ASSUME Types, Owners
  PROVE  IsFiniteSet(Linked(tab)) /\ Linked(tab) \subseteq live
<1>1. Linked(tab) \subseteq live
  BY ObjectsAreNumbers DEF Linked, Owners, Referenced
<1> QED
  BY <1>1, FS_Subset DEF Types

(* Nothing about the table has changed, nor about who pins what.           *)
LEMMA TableKept ==
  ASSUME IInv, tab' = tab, pin' = pin, live' = live, pc' \in {"run", "sweep"} => pc \in {"run", "sweep"}
  PROVE  Counted'
BY DEF IInv, Counted, Pinners

(* A reference to x has gone and perhaps another object is referred to:    *)
(* nothing that is referred to dies, and x is not forgotten.               *)
LEMMA Unreferred ==
  ASSUME IInv, NEW x, Unrefer(x), live' = live,
         Referenced' \ {None} \subseteq live, Dying \cap Referenced' = {}
  PROVE  /\ dtors' \in Seq(Obj) /\ Once'
         /\ (Referenced' \ {None}) \cup Dying' \subseteq live' /\ Dying' \cap Referenced' = {}
         /\ Dying \subseteq Dying' /\ Dying' \subseteq Dying \cup {x}
         /\ x \in live \ marked => x \in Referenced' \cup Dying'
<1>1. /\ dtors' \in Seq(Obj) /\ Once'
      /\ Dying' = IF x \in live \ (Referenced' \cup marked \cup Dying)
                  THEN Dying \cup {x} ELSE Dying
  BY UnreferDies DEF IInv
<1>2. Dying \subseteq live
  BY DEF IInv, Owners
<1> QED
  BY <1>1, <1>2

(* What the sweep relies on survives: members of what is marked, and of    *)
(* what has been passed, are at most dropped.                              *)
LEMMA SweepGoesOn ==
  ASSUME IInv, NEW x, Unrefer(x), live' = live, held' \subseteq held, marked' = marked,
         todo' = todo, t' = t, pc' = pc, Referenced' \ {None} \subseteq live,
         Dying \cap Referenced' = {}, Linked(tab)' \subseteq Linked(tab),
         Referenced \ {x, None} \subseteq Referenced',
         \A n \in Obj : fld'[n] \in {fld[n], None}
  PROVE  Sweep'
<1> SUFFICES ASSUME pc \in {"sweep", "final"} PROVE Sweep'
  BY DEF Sweep
<1>1. /\ Dying \subseteq Dying' /\ Dying' \subseteq Dying \cup {x}
      /\ x \in live \ marked => x \in Referenced' \cup Dying'
  BY Unreferred
<1>2. /\ t = None => todo = {}
      /\ held \cup Linked(tab) \subseteq marked
      /\ \A n \in Native \cap marked : fld[n] \in marked \cup {None}
      /\ \A n \in live \ (marked \cup todo \cup {t} \cup Dying) : fld[n] = None
      /\ live \ marked \subseteq Referenced \cup Dying \cup todo
  BY DEF IInv, Sweep
<1>3. Native \subseteq Obj /\ live \subseteq Obj /\ None \notin live
  BY ObjectsAreNumbers DEF IInv, Types
<1>4. /\ t' = None => todo' = {}
      /\ held' \cup Linked(tab)' \subseteq marked'
  BY <1>2
<1>5. \A n \in Native \cap marked' : fld'[n] \in marked' \cup {None}
  BY <1>2, <1>3
<1>6. \A n \in live' \ (marked' \cup todo' \cup {t'} \cup Dying') : fld'[n] = None
  BY <1>1, <1>2, <1>3
<1>7. live' \ marked' \subseteq Referenced' \cup Dying' \cup todo'
  BY <1>1, <1>2, <1>3
<1> QED
  BY <1>4, <1>5, <1>6, <1>7 DEF Sweep

-----------------------------------------------------------------------------
(* One lemma for each action of the script.                                *)

LEMMA NewKeeps ==
  ASSUME IInv, NEW x \in Obj, New(x)
  PROVE  IInv'
<1> USE DEF New, Running, walk
<1>1. /\ x \notin live /\ live' = live \cup {x} /\ held' = held \cup {x}
      /\ tab' = tab /\ fld' = fld /\ pin' = pin /\ dtors' = dtors /\ dtors = <<>>
      /\ marked' = marked /\ todo' = todo /\ t' = t /\ pc' = pc /\ pc = "run"
  OBVIOUS
<1>2. Types'
  <2>1. IsFiniteSet(live')
    BY <1>1, FS_AddElement DEF IInv, Types
  <2> QED
    BY <1>1, <2>1 DEF IInv, Types
<1>3. Owners'
  <2>1. Referenced' = Referenced \cup {x} /\ Dying' = Dying /\ Dying = {}
    BY <1>1 DEF Referenced, Linked, Dying
  <2> QED
    BY <1>1, <2>1 DEF IInv, Owners
<1>4. Once'
  BY <1>1 DEF IInv, Once, Dying
<1>5. Counted'
  <2>1. \A y \in Obj : Pinners(y)' = Pinners(y)
    BY <1>1 DEF IInv, Owners, Pinners
  <2> QED
    BY <1>1, <2>1 DEF IInv, Counted
<1> QED
  BY <1>1, <1>2, <1>3, <1>4, <1>5 DEF IInv, Phases, Sweep

(* sq_addref: a further object pins x.                                     *)
LEMMA PinKeeps ==
  ASSUME IInv, NEW n \in Native, NEW x \in Obj, Pin(n, x)
  PROVE  IInv'
<1>1. /\ n \in live /\ x \in held /\ x \in live /\ x \notin pin[n] /\ n \in Obj
      /\ tab' = AddRef(tab, x) /\ pin' = [pin EXCEPT ![n] = @ \cup {x}]
      /\ held' = held /\ fld' = fld /\ live' = live /\ dtors' = dtors /\ dtors = <<>>
      /\ marked' = marked /\ todo' = todo /\ t' = t /\ pc' = pc /\ pc = "run"
  BY ObjectsAreNumbers DEF Pin, Running, walk, IInv, Types
<1>2. /\ Nodes(tab') /\ NodesInUse(tab')
      /\ Linked(tab') = Linked(tab) \cup {x}
      /\ tab'.refs = [tab.refs EXCEPT ![x] = @ + 1]
  <2>1. Nodes(tab) /\ NodesInUse(tab) /\ IsFiniteSet(Linked(tab))
    BY <1>1, LinkedFinite DEF IInv, Types, Counted
  <2> QED
    BY <1>1, <2>1, AddRefCounts
<1>3. Types'
  <2>1. pin' \in [Obj -> SUBSET Obj]
    BY <1>1 DEF IInv, Types
  <2> QED
    BY <1>1, <1>2, <2>1 DEF IInv, Types
<1>4. Owners'
  <2>1. Referenced' = Referenced \cup {x}
    BY <1>1, <1>2 DEF Referenced
  <2>2. Dying' = Dying /\ Dying = {}
    BY <1>1 DEF Dying
  <2>3. \A y \in Obj \ live : pin'[y] = pin[y]
    BY <1>1 DEF IInv, Types
  <2> QED
    BY <1>1, <2>1, <2>2, <2>3 DEF IInv, Owners
<1>5. Once'
  BY <1>1 DEF IInv, Once, Dying
<1>6. Counted'
  <2>1. SUFFICES ASSUME NEW y \in Obj PROVE tab'.refs[y] = Cardinality(Pinners(y)')
    BY <1>2 DEF Counted
  <2>2. tab.refs[y] = Cardinality(Pinners(y)) /\ tab.refs \in [Obj -> Nat]
    BY <1>1 DEF IInv, Counted, Types, Nodes
  <2>3. CASE y = x
    <3>1. Pinners(y)' = Pinners(y) \cup {n} /\ n \notin Pinners(y)
      BY <1>1, <2>3 DEF IInv, Types, Pinners
    <3>2. Cardinality(Pinners(y)') = Cardinality(Pinners(y)) + 1
      BY <3>1, PinnersFinite, FS_AddElement DEF IInv
    <3> QED
      BY <1>2, <2>2, <2>3, <3>2
  <2>4. CASE y # x
    <3>1. Pinners(y)' = Pinners(y)
      BY <1>1, <2>4 DEF IInv, Types, Pinners
    <3> QED
      BY <1>2, <2>2, <2>4, <3>1
  <2> QED
    BY <2>3, <2>4
<1> QED
  BY <1>1, <1>3, <1>4, <1>5, <1>6 DEF IInv, Phases, Sweep

(* sq_release: whoever calls it, and whatever it destroys.                 *)
LEMMA GiveBack ==
  ASSUME IInv, NEW n \in live, NEW x \in pin[n], pc # "closed",
         pin' = [pin EXCEPT ![n] = @ \ {x}],
         UNCHANGED <<held, fld, live, walk>>, SqRelease(x)
  PROVE  IInv'
<1>1. /\ n \in Obj /\ x \in Obj /\ pin' \in [Obj -> SUBSET Obj]
      /\ held' = held /\ fld' = fld /\ live' = live
      /\ marked' = marked /\ todo' = todo /\ t' = t /\ pc' = pc
  BY DEF IInv, Types, walk
<1>2. \A y \in Obj \ live : pin'[y] = {}
  BY <1>1 DEF IInv, Types, Owners
<1>3. CASE Closing
  <2>1. tab' = tab /\ dtors' = dtors
    BY <1>3 DEF SqRelease
  <2>2. Dying' = Dying /\ Referenced' = Referenced
    BY <1>1, <2>1 DEF Dying, Referenced
  <2>3. Types' /\ Owners' /\ Once'
    BY <1>1, <1>2, <2>1, <2>2 DEF IInv, Types, Owners, Once
  <2>4. Counted'
    BY <1>1, <1>3 DEF Counted, Closing
  <2> QED
    BY <1>1, <2>1, <2>2, <2>3, <2>4 DEF IInv, Phases, Sweep
<1>4. CASE ~Closing
  <2>1. pc \in {"run", "sweep"}
    BY <1>4 DEF IInv, Types, Closing
  <2>2. tab' = Release(tab, x) /\ Unrefer(x)
    BY <1>4 DEF SqRelease
  <2>3. NodesInUse(tab) /\ Nodes(tab) /\ \A y \in Obj : tab.refs[y] = Cardinality(Pinners(y))
    BY <2>1 DEF IInv, Counted, Types
  <2>4. x \in Linked(tab)
    <3>1. n \in Pinners(x)
      BY DEF Pinners
    <3>2. Cardinality(Pinners(x)) # 0 /\ Cardinality(Pinners(x)) \in Nat
      BY <3>1, PinnersFinite, FS_EmptySet DEF IInv
    <3> QED
      BY <3>2, <2>3, <1>1 DEF NodesInUse
  <2>5. /\ Nodes(tab') /\ NodesInUse(tab')
        /\ Linked(tab) \ {x} \subseteq Linked(tab') /\ Linked(tab') \subseteq Linked(tab)
        /\ tab'.refs = [tab.refs EXCEPT ![x] = @ - 1]
    BY <2>2, <2>3, <2>4, LinkedFinite, ReleaseCounts DEF IInv
  <2>6. Referenced' \subseteq Referenced /\ Referenced \ {x} \subseteq Referenced'
    BY <1>1, <2>5 DEF Referenced
  <2>7. Referenced' \ {None} \subseteq live /\ Dying \cap Referenced' = {}
    BY <2>6 DEF IInv, Owners
  <2>8. /\ dtors' \in Seq(Obj) /\ Once'
        /\ (Referenced' \ {None}) \cup Dying' \subseteq live' /\ Dying' \cap Referenced' = {}
    BY <1>1, <2>2, <2>7, Unreferred
  <2>9. Types'
    BY <1>1, <2>5, <2>8 DEF IInv, Types
  <2>10. Owners'
    BY <1>1, <1>2, <2>8 DEF IInv, Owners
  <2>11. Sweep'
    <3>1. Linked(tab)' \subseteq Linked(tab)
      BY <2>5
    <3> QED
      BY <1>1, <2>2, <2>6, <2>7, <3>1, SweepGoesOn
  <2>12. Phases'
    BY <1>1, <2>1 DEF IInv, Phases
  <2>13. Counted'
    <3>1. SUFFICES ASSUME NEW y \in Obj PROVE tab'.refs[y] = Cardinality(Pinners(y)')
      BY <2>5 DEF Counted
    <3>2. tab.refs[y] = Cardinality(Pinners(y)) /\ tab.refs \in [Obj -> Nat]
      BY <2>3 DEF Nodes
    <3>3. CASE y = x
      <4>1. Pinners(y)' = Pinners(y) \ {n} /\ n \in Pinners(y)
        BY <1>1, <3>3 DEF IInv, Types, Pinners
      <4>2. Cardinality(Pinners(y)') = Cardinality(Pinners(y)) - 1
        BY <4>1, PinnersFinite, FS_RemoveElement DEF IInv
      <4> QED
        BY <2>5, <3>2, <3>3, <4>2
    <3>4. CASE y # x
      <4>1. Pinners(y)' = Pinners(y)
        BY <1>1, <3>4 DEF IInv, Types, Pinners
      <4> QED
        BY <2>5, <3>2, <3>4, <4>1
    <3> QED
      BY <3>3, <3>4
  <2> QED
    BY <2>8, <2>9, <2>10, <2>11, <2>12, <2>13 DEF IInv
<1> QED
  BY <1>3, <1>4

LEMMA UnpinKeeps ==
  ASSUME IInv, NEW n \in Native, NEW x \in Obj, Unpin(n, x)
  PROVE  IInv'
<1>1. n \in live /\ x \in pin[n] /\ pc # "closed"
  BY DEF Unpin, Running, IInv, Types
<1> QED
  BY <1>1, GiveBack DEF Unpin

LEMMA RunHookKeeps ==
  ASSUME IInv, RunHook
  PROVE  IInv'
<1>1. dtors # <<>> /\ dtors \in Seq(Obj)
  BY DEF RunHook, IInv, Types
<1>2. Head(dtors) \in live
  <2>1. Head(dtors) \in Dying
    BY <1>1 DEF Dying
  <2> QED
    BY <2>1 DEF IInv, Owners
<1>3. PICK x \in pin[Head(dtors)] :
          /\ pin' = [pin EXCEPT ![Head(dtors)] = @ \ {x}]
          /\ UNCHANGED <<held, fld, live, walk>>
          /\ SqRelease(x)
  BY DEF RunHook
<1>4. pc # "closed"
  BY <1>1 DEF IInv, Phases
<1> QED
  BY <1>2, <1>3, <1>4, GiveBack

(* A member or a variable is dropped: what nothing refers to then dies.    *)
LEMMA DropKeeps ==
  ASSUME IInv, NEW x, Unrefer(x), live' = live, held' \subseteq held,
         fld' \in [Obj -> Obj \cup {None}], \A n \in Obj : fld'[n] \in {fld[n], None},
         tab' = tab, pin' = pin, marked' = marked, todo' = todo, t' = t, pc' = pc,
         pc # "closed", Referenced \ {x, None} \subseteq Referenced'
  PROVE  IInv'
<1>1. Linked(tab)' = Linked(tab)
  OBVIOUS
<1>2. Referenced' \ {None} \subseteq Referenced
  BY <1>1, ObjectsAreNumbers DEF Referenced
<1>3. Referenced' \ {None} \subseteq live /\ Dying \cap Referenced' = {}
  <2>1. None \notin Dying
    BY ObjectsAreNumbers DEF IInv, Types, Owners
  <2> QED
    BY <1>2, <2>1 DEF IInv, Owners
<1>4. /\ dtors' \in Seq(Obj) /\ Once'
      /\ (Referenced' \ {None}) \cup Dying' \subseteq live' /\ Dying' \cap Referenced' = {}
  BY <1>3, Unreferred
<1>5. Types'
  BY <1>4 DEF IInv, Types
<1>6. Owners'
  BY <1>4, ObjectsAreNumbers DEF IInv, Owners
<1>7. Sweep'
  BY <1>1, <1>3, SweepGoesOn
<1>8. Phases'
  BY DEF IInv, Phases
<1> QED
  BY <1>4, <1>5, <1>6, <1>7, <1>8, TableKept DEF IInv

LEMMA VariableKeeps ==
  ASSUME IInv, NEW x \in Obj, Drop(x)
  PROVE  IInv'
<1>1. /\ held' = held \ {x} /\ tab' = tab /\ fld' = fld /\ pin' = pin /\ live' = live
      /\ marked' = marked /\ todo' = todo /\ t' = t /\ pc' = pc /\ pc # "closed" /\ Unrefer(x)
  BY DEF Drop, walk
<1>2. fld' \in [Obj -> Obj \cup {None}]
  BY <1>1 DEF IInv, Types
<1>3. Referenced \ {x, None} \subseteq Referenced'
  BY <1>1 DEF Referenced
<1> QED
  BY <1>1, <1>2, <1>3, DropKeeps

(* The destructor or the sweep has nulled the member of an instance.       *)
LEMMA MemberKeeps ==
  ASSUME IInv, NEW n \in Obj, pc # "closed", fld' = [fld EXCEPT ![n] = None],
         UNCHANGED <<tab, held, pin, live, walk>>, Unrefer(fld[n])
  PROVE  IInv'
<1>1. /\ held' = held /\ tab' = tab /\ pin' = pin /\ live' = live
      /\ marked' = marked /\ todo' = todo /\ t' = t /\ pc' = pc
  BY DEF walk
<1>2. /\ fld' \in [Obj -> Obj \cup {None}]
      /\ \A m \in Obj : fld'[m] = IF m = n THEN None ELSE fld[m]
  BY DEF IInv, Types
<1>3. Referenced \ {fld[n], None} \subseteq Referenced'
  BY <1>1, <1>2, ObjectsAreNumbers DEF Referenced
<1> QED
  BY <1>1, <1>2, <1>3, DropKeeps

LEMMA DropFieldKeeps ==
  ASSUME IInv, DropField
  PROVE  IInv'
<1>1. Head(dtors) \in Obj /\ pc # "closed"
  BY DEF DropField, IInv, Types, Phases
<1> QED
  BY <1>1, MemberKeeps DEF DropField

LEMMA FinalizeKeeps ==
  ASSUME IInv, Finalize
  PROVE  IInv'
<1>1. t \in Obj /\ pc # "closed"
  BY DEF Finalize, Sweeping, IInv, Types
<1> QED
  BY <1>1, MemberKeeps DEF Finalize

LEMMA SetFieldKeeps ==
  ASSUME IInv, NEW n \in Native, NEW x \in Obj \cup {None}, SetField(n, x)
  PROVE  IInv'
<1>1. /\ held' = held /\ tab' = tab /\ pin' = pin /\ live' = live
      /\ marked' = marked /\ todo' = todo /\ t' = t /\ pc' = pc /\ pc = "run"
      /\ dtors = <<>> /\ n \in held /\ x \in held \cup {None} /\ Unrefer(fld[n]) /\ n \in Obj
      /\ fld' = [fld EXCEPT ![n] = x]
  BY ObjectsAreNumbers DEF SetField, Running, walk
<1>2. /\ fld' \in [Obj -> Obj \cup {None}]
      /\ \A m \in Obj : fld'[m] = IF m = n THEN x ELSE fld[m]
  BY <1>1 DEF IInv, Types
<1>3. Referenced' \ {None} \subseteq Referenced /\ Dying = {}
  BY <1>1, <1>2, ObjectsAreNumbers DEF Referenced, Dying
<1>4. Referenced' \ {None} \subseteq live
  BY <1>3 DEF IInv, Owners
<1>5. /\ dtors' \in Seq(Obj) /\ Once'
      /\ (Referenced' \ {None}) \cup Dying' \subseteq live' /\ Dying' \cap Referenced' = {}
  BY <1>1, <1>3, <1>4, Unreferred
<1>6. Types' /\ Phases' /\ Sweep'
  BY <1>1, <1>2, <1>5 DEF IInv, Types, Phases, Sweep
<1>7. Owners'
  BY <1>1, <1>2, <1>5 DEF IInv, Owners, Types
<1> QED
  BY <1>1, <1>5, <1>6, <1>7, TableKept DEF IInv

LEMMA FetchKeeps ==
  ASSUME IInv, NEW n \in Native, NEW x \in Obj, Fetch(n, x)
  PROVE  IInv'
<1>1. /\ held' = held \cup {x} /\ tab' = tab /\ fld' = fld /\ pin' = pin /\ live' = live
      /\ dtors' = dtors /\ marked' = marked /\ todo' = todo /\ t' = t /\ pc' = pc /\ pc = "run"
      /\ dtors = <<>> /\ n \in live /\ n \in Obj /\ x \in pin[n] \cup {fld[n]} /\ x # None
  BY ObjectsAreNumbers DEF Fetch, Running, walk, IInv, Types
<1>2. x \in live
  <2>1. CASE x = fld[n]
    BY <2>1, <1>1 DEF Referenced, IInv, Owners
  <2>2. CASE x \in pin[n]
    <3>1. n \in Pinners(x)
      BY <1>1, <2>2 DEF Pinners
    <3>2. Cardinality(Pinners(x)) # 0 /\ Cardinality(Pinners(x)) \in Nat
      BY <3>1, PinnersFinite, FS_EmptySet DEF IInv
    <3>3. x \in Linked(tab)
      BY <3>2, <1>1 DEF IInv, Counted, NodesInUse
    <3> QED
      BY <3>3, LinkedFinite DEF IInv
  <2> QED
    BY <2>1, <2>2, <1>1
<1>3. Referenced' = Referenced \cup {x} /\ Dying' = Dying /\ Dying = {}
  BY <1>1 DEF Referenced, Dying
<1>4. Types' /\ Owners' /\ Once'
  BY <1>1, <1>2, <1>3 DEF IInv, Types, Owners, Once
<1> QED
  BY <1>1, <1>4, TableKept DEF IInv, Phases, Sweep

LEMMA FreeKeeps ==
  ASSUME IInv, Free
  PROVE  IInv'
<1> DEFINE o == Head(dtors)
<1>1. /\ dtors # <<>> /\ pin[o] = {} /\ fld[o] = None /\ live' = live \ {o} /\ dtors' = Tail(dtors)
      /\ held' = held /\ tab' = tab /\ fld' = fld /\ pin' = pin
      /\ marked' = marked /\ todo' = todo /\ t' = t /\ pc' = pc
  BY DEF Free, walk
<1>2. dtors' \in Seq(Obj) /\ Once' /\ o \in Dying /\ Dying' = Dying \ {o}
  BY <1>1, FreeUndies DEF IInv
<1> HIDE DEF o
<1>3. Referenced' = Referenced /\ o \notin Referenced /\ o \in live /\ o \in Obj
  BY <1>1, <1>2 DEF Referenced, IInv, Owners, Types
<1>4. Types'
  <2>1. IsFiniteSet(live')
    BY <1>1, FS_RemoveElement DEF IInv, Types
  <2>2. held \subseteq live'
    BY <1>1, <1>3 DEF IInv, Types, Referenced
  <2> QED
    BY <1>1, <1>2, <2>1, <2>2 DEF IInv, Types
<1>5. Owners'
  BY <1>1, <1>2, <1>3 DEF IInv, Owners
<1>6. Counted'
  <2>1. \A y \in Obj : Pinners(y)' = Pinners(y)
    BY <1>1 DEF Pinners
  <2> QED
    BY <1>1, <2>1 DEF IInv, Counted
<1>7. Phases' /\ Sweep'
  BY <1>1, <1>2, <1>3 DEF IInv, Phases, Sweep
<1> QED
  BY <1>2, <1>4, <1>5, <1>6, <1>7 DEF IInv

-----------------------------------------------------------------------------
(* One lemma for each action of a collection and of the shutdown.          *)

(* What is marked includes the roots and what the marked refer to.         *)
LEMMA ReachClosed ==
  ASSUME NEW from \in SUBSET Obj
  PROVE  /\ from \subseteq Reach(from) /\ Reach(from) \subseteq Obj
         /\ \A n \in Native \cap Reach(from) : fld[n] \in Obj \cup {None}
                => fld[n] \in Reach(from) \cup {None}
<1>1. from \subseteq Reach(from) /\ Reach(from) \subseteq Obj
  BY DEF Reach
<1>2. ASSUME NEW n \in Native \cap Reach(from), fld[n] \in Obj
      PROVE  fld[n] \in Reach(from)
  <2>1. ASSUME NEW S \in SUBSET Obj, from \subseteq S, \A m \in Native \cap S : fld[m] \in S \cup {None}
        PROVE  fld[n] \in S
    <3>1. n \in S
      BY <2>1 DEF Reach
    <3> QED
      BY <3>1, <2>1, <1>2, ObjectsAreNumbers
  <2> QED
    BY <2>1, <1>2 DEF Reach
<1> QED
  BY <1>1, <1>2

LEMMA CollectKeeps ==
  ASSUME IInv, Collect
  PROVE  IInv'
<1>1. /\ held' = held /\ tab' = tab /\ fld' = fld /\ pin' = pin /\ live' = live
      /\ dtors' = dtors /\ dtors = <<>> /\ pc = "run" /\ pc' = "sweep"
      /\ marked' = Reach(held \cup Linked(tab)) /\ Next_t(live \ marked')
  BY DEF Collect, Running, heap
<1>2. /\ held \cup Linked(tab) \subseteq marked' /\ marked' \subseteq Obj
      /\ \A n \in Native \cap marked' : fld[n] \in marked' \cup {None}
  <2>1. held \cup Linked(tab) \in SUBSET Obj
    BY DEF IInv, Types, Linked
  <2>2. \A n \in Native : fld[n] \in Obj \cup {None}
    BY ObjectsAreNumbers DEF IInv, Types
  <2> QED
    BY <1>1, <2>1, <2>2, ReachClosed
<1>3. /\ t' \in (live \ marked') \cup {None} /\ todo' \subseteq live
      /\ live \ marked' \subseteq {t'} \cup todo'
      /\ t' = None => todo' = {}
  BY <1>1, ObjectsAreNumbers DEF Next_t, IInv, Types
<1>4. Types'
  BY <1>1, <1>2, <1>3 DEF IInv, Types
<1>5. Referenced' \subseteq Referenced \cup {t'} /\ t' \in Referenced' /\ Dying' = {} /\ Dying = {}
  BY <1>1 DEF Referenced, Dying
<1>6. Owners' /\ Once'
  BY <1>1, <1>3, <1>5 DEF IInv, Owners, Once
<1>7. Phases'
  BY <1>1 DEF Phases
<1>8. Sweep'
  BY <1>1, <1>2, <1>3, <1>5 DEF Sweep
<1> QED
  BY <1>1, <1>4, <1>6, <1>7, <1>8, TableKept DEF IInv

LEMMA AdvanceKeeps ==
  ASSUME IInv, Advance
  PROVE  IInv'
<1>1. /\ held' = held /\ tab' = tab /\ fld' = fld /\ pin' = pin /\ live' = live
      /\ dtors = <<>> /\ pc \in {"sweep", "final"} /\ pc' = pc /\ marked' = marked
      /\ t # None /\ fld[t] = None /\ Unrefer(t) /\ Next_t(todo \cap live)
  BY DEF Advance, Sweeping, heap
<1>2. /\ t' \in (todo \cap live) \cup {None} /\ todo' \subseteq todo
      /\ todo \cap live \subseteq {t'} \cup todo'
      /\ t' = None => todo' = {}
  BY <1>1, ObjectsAreNumbers DEF Next_t, IInv, Types
<1>3. /\ Referenced' \subseteq Referenced \cup {t'} /\ Referenced \ {t} \subseteq Referenced'
      /\ t' \in Referenced' /\ Dying = {}
  BY <1>1 DEF Referenced, Dying
<1>4. Referenced' \ {None} \subseteq live
  BY <1>2, <1>3 DEF IInv, Owners
<1>5. /\ dtors' \in Seq(Obj) /\ Once'
      /\ (Referenced' \ {None}) \cup Dying' \subseteq live' /\ Dying' \cap Referenced' = {}
      /\ t \in live \ marked => t \in Referenced' \cup Dying'
  BY <1>1, <1>3, <1>4, Unreferred
<1>6. Types'
  BY <1>1, <1>2, <1>5 DEF IInv, Types
<1>7. Owners'
  BY <1>1, <1>5 DEF IInv, Owners
<1>8. Phases'
  BY <1>1 DEF IInv, Phases
<1>9. Sweep'
  <2>1. held' \cup Linked(tab)' \subseteq marked'
    BY <1>1 DEF IInv, Sweep
  <2>2. \A n \in Native \cap marked' : fld'[n] \in marked' \cup {None}
    BY <1>1 DEF IInv, Sweep
  <2>3. \A n \in live' \ (marked' \cup todo' \cup {t'} \cup Dying') : fld'[n] = None
    BY <1>1, <1>2, <1>3 DEF IInv, Sweep
  <2>4. live' \ marked' \subseteq Referenced' \cup Dying' \cup todo'
    BY <1>1, <1>2, <1>3, <1>5 DEF IInv, Sweep
  <2> QED
    BY <1>2, <2>1, <2>2, <2>3, <2>4 DEF Sweep
<1> QED
  BY <1>1, <1>5, <1>6, <1>7, <1>8, <1>9, TableKept DEF IInv

(* The last step of a sweep: everything that is left was marked.           *)
LEMMA SweptIsMarked ==
  ASSUME IInv, EndSweep
  PROVE  live \subseteq marked
<1>1. /\ pc \in {"sweep", "final"} /\ t = None /\ dtors = <<>>
  BY DEF EndSweep, Sweeping
<1>2. todo = {} /\ Dying = {}
  BY <1>1 DEF IInv, Sweep, Dying
<1> SUFFICES ASSUME NEW x \in live, x \notin marked PROVE FALSE
  OBVIOUS
<1>3. x \in Referenced /\ x # None
  BY <1>1, <1>2, ObjectsAreNumbers DEF IInv, Sweep, Types
<1>4. PICK n \in Native : fld[n] = x
  BY <1>1, <1>3 DEF IInv, Sweep, Referenced
<1>5. n \notin marked
  BY <1>1, <1>3, <1>4 DEF IInv, Sweep
<1>6. n \in live
  BY <1>3, <1>4, ObjectsAreNumbers DEF IInv, Owners
<1> QED
  BY <1>1, <1>2, <1>3, <1>4, <1>5, <1>6, ObjectsAreNumbers DEF IInv, Sweep, Types

LEMMA EndSweepKeeps ==
  ASSUME IInv, EndSweep
  PROVE  IInv'
<1>1. /\ held' = held /\ tab' = tab /\ fld' = fld /\ pin' = pin /\ live' = live
      /\ dtors' = dtors /\ dtors = <<>> /\ t' = t /\ t = None /\ marked' = {} /\ todo' = todo
      /\ pc' \in {"run", "closed"}
      /\ pc' = "run" => pc = "sweep"
  BY DEF EndSweep, Sweeping, heap
<1>2. Referenced' = Referenced /\ Dying' = Dying
  BY <1>1 DEF Referenced, Dying
<1>3. Types' /\ Owners' /\ Once' /\ Phases' /\ Sweep'
  BY <1>1, <1>2 DEF IInv, Types, Owners, Once, Phases, Sweep
<1> QED
  BY <1>1, <1>3, TableKept DEF IInv

LEMMA CloseKeeps ==
  ASSUME IInv, Close \/ BeginFinalize
  PROVE  IInv'
<1>1. /\ held' = held /\ tab' = tab /\ fld' = fld /\ pin' = pin /\ live' = live
      /\ dtors' = dtors /\ t' = t /\ marked' = marked /\ todo' = todo
      /\ \/ pc = "run" /\ pc' = "closing"
         \/ pc = "closing" /\ pc' = "finalize" /\ held = {}
  BY DEF Close, BeginFinalize, Running, heap
<1>2. Referenced' = Referenced /\ Dying' = Dying
  BY <1>1 DEF Referenced, Dying
<1>3. Types' /\ Owners' /\ Once'
  BY <1>1, <1>2 DEF IInv, Types, Owners, Once
<1>4. Phases' /\ Sweep'
  BY <1>1 DEF IInv, Phases, Sweep
<1>5. Counted'
  BY <1>1 DEF Counted
<1> QED
  BY <1>3, <1>4, <1>5 DEF IInv

(* RefTable::Finalize: the nodes keep their counts, which nobody reads.    *)
LEMMA FinalizeNodeKeeps ==
  ASSUME IInv, NEW x \in Obj, FinalizeNode(x)
  PROVE  IInv'
<1>1. /\ held' = held /\ fld' = fld /\ pin' = pin /\ live' = live /\ t' = t
      /\ marked' = marked /\ todo' = todo /\ pc' = pc /\ pc = "finalize" /\ dtors = <<>>
      /\ tab' = [tab EXCEPT !.bucket[x] = None] /\ Unrefer(x)
  BY DEF FinalizeNode, walk
<1>2. /\ tab'.bucket = [tab.bucket EXCEPT ![x] = None] /\ tab'.slots = tab.slots
      /\ tab'.used = tab.used /\ tab'.refs = tab.refs
      /\ tab' = [slots |-> tab.slots, used |-> tab.used, bucket |-> tab'.bucket, refs |-> tab.refs]
  BY <1>1 DEF IInv, Types, Nodes
<1>3. /\ tab.slots \in Nat \ {0} /\ tab.used \in Nat /\ tab.refs \in [Obj -> Nat]
      /\ tab.bucket \in [Obj -> Nat \cup {None}] /\ tab.used <= tab.slots
  BY DEF IInv, Types, Nodes
<1>4. Linked(tab') = Linked(tab) \ {x}
  BY <1>2, <1>3 DEF Linked
<1>5. Nodes(tab')
  <2>1. tab'.bucket \in [Obj -> Nat \cup {None}]
    BY <1>2, <1>3
  <2>2. tab' \in [slots : Nat \ {0}, used : Nat,
                 bucket : [Obj -> Nat \cup {None}], refs : [Obj -> Nat]]
    BY <1>2, <1>3, <2>1
  <2>3. \A y \in Linked(tab') : tab'.bucket[y] = Mainpos(tab', y)
    BY <1>2, <1>3, <1>4 DEF IInv, Types, Nodes, Mainpos, Linked
  <2> QED
    BY <1>2, <1>3, <2>2, <2>3 DEF Nodes
<1>6. Referenced' \subseteq Referenced /\ Dying = {}
  BY <1>1, <1>4 DEF Referenced, Dying
<1>7. Referenced' \ {None} \subseteq live
  BY <1>6 DEF IInv, Owners
<1>8. /\ dtors' \in Seq(Obj) /\ Once'
      /\ (Referenced' \ {None}) \cup Dying' \subseteq live' /\ Dying' \cap Referenced' = {}
  BY <1>1, <1>6, <1>7, Unreferred
<1>9. Types' /\ Owners'
  BY <1>1, <1>5, <1>8 DEF IInv, Types, Owners
<1> QED
  BY <1>1, <1>8, <1>9 DEF IInv, Counted, Phases, Sweep

LEMMA BeginFinalKeeps ==
  ASSUME IInv, BeginFinal
  PROVE  IInv'
<1>1. /\ held' = held /\ tab' = tab /\ fld' = fld /\ pin' = pin /\ live' = live
      /\ dtors' = dtors /\ dtors = <<>> /\ pc = "finalize" /\ pc' = "final"
      /\ marked' = marked /\ Linked(tab) = {} /\ Next_t(live)
  BY DEF BeginFinal, heap
<1>2. t = None /\ marked = {} /\ held = {}
  BY <1>1 DEF IInv, Phases
<1>3. /\ t' \in live \cup {None} /\ todo' \subseteq live
      /\ live \subseteq {t'} \cup todo'
      /\ t' = None => todo' = {}
  BY <1>1, ObjectsAreNumbers DEF Next_t, IInv, Types
<1>4. Types'
  BY <1>1, <1>3 DEF IInv, Types
<1>5. Referenced' \subseteq Referenced \cup {t'} /\ t' \in Referenced' /\ Dying' = {} /\ Dying = {}
  BY <1>1, <1>2 DEF Referenced, Dying
<1>6. Owners' /\ Once'
  BY <1>1, <1>3, <1>5 DEF IInv, Owners, Once
<1>7. Linked(tab)' = {}
  BY <1>1
<1>8. Phases'
  BY <1>1, <1>2, <1>7 DEF Phases
<1>9. Sweep'
  BY <1>1, <1>2, <1>3, <1>5, <1>7 DEF Sweep
<1> QED
  BY <1>1, <1>4, <1>6, <1>8, <1>9, TableKept DEF IInv

-----------------------------------------------------------------------------
(* The invariant holds.                                                    *)

LEMMA InitIInv == Init => IInv
<1> SUFFICES ASSUME Init PROVE IInv
  OBVIOUS
<1>0. /\ tab = [slots |-> InitSlots, used |-> 0,
               bucket |-> [x \in Obj |-> None], refs |-> [x \in Obj |-> 0]]
      /\ tab.bucket = [x \in Obj |-> None] /\ tab.refs = [x \in Obj |-> 0] /\ tab.used = 0
  BY DEF Init, AllocNodes
<1>1. Linked(tab) = {} /\ Dying = {} /\ Referenced \subseteq {None}
  <2>1. Linked(tab) = {}
    BY <1>0 DEF Linked
  <2>2. Dying = {}
    BY DEF Init, Dying
  <2>3. Referenced \subseteq {None}
    BY <2>1, ObjectsAreNumbers DEF Init, Referenced
  <2> QED
    BY <2>1, <2>2, <2>3
<1>2. IsFiniteSet({}) /\ Cardinality({}) = 0
  BY FS_EmptySet
<1>3. Nodes(tab)
  BY <1>0, <1>1, SomeSlots DEF Nodes
<1>4. Types
  BY <1>2, <1>3 DEF Init, Types
<1>5. Owners /\ Once
  BY <1>1, <1>2 DEF Init, Owners, Once
<1>6. Counted
  <2>1. \A x \in Obj : Pinners(x) = {}
    BY DEF Init, Pinners
  <2> QED
    BY <1>0, <1>1, <1>2, <2>1 DEF Counted, NodesInUse
<1> QED
  BY <1>4, <1>5, <1>6 DEF Init, IInv, Phases, Sweep

LEMMA NextKeepsIInv == IInv /\ [Next]_vars => IInv'
<1> SUFFICES ASSUME IInv, [Next]_vars PROVE IInv'
  OBVIOUS
<1>1. CASE \E x \in Obj : New(x) \/ Drop(x) \/ FinalizeNode(x)
  BY <1>1, NewKeeps, VariableKeeps, FinalizeNodeKeeps
<1>2. CASE \E n \in Native, x \in Obj : Pin(n, x) \/ Unpin(n, x) \/ Fetch(n, x)
  BY <1>2, PinKeeps, UnpinKeeps, FetchKeeps
<1>3. CASE \E n \in Native, x \in Obj \cup {None} : SetField(n, x)
  BY <1>3, SetFieldKeeps
<1>4. CASE RunHook \/ DropField \/ Free
  BY <1>4, RunHookKeeps, DropFieldKeeps, FreeKeeps
<1>5. CASE Collect \/ Finalize \/ Advance \/ EndSweep
  BY <1>5, CollectKeeps, FinalizeKeeps, AdvanceKeeps, EndSweepKeeps
<1>6. CASE Close \/ BeginFinalize \/ BeginFinal
  BY <1>6, CloseKeeps, BeginFinalKeeps
<1>7. CASE UNCHANGED vars
  <2>1. /\ held' = held /\ tab' = tab /\ fld' = fld /\ pin' = pin /\ live' = live
        /\ dtors' = dtors /\ t' = t /\ marked' = marked /\ todo' = todo /\ pc' = pc
    BY <1>7 DEF vars
  <2>2. Referenced' = Referenced /\ Dying' = Dying
    BY <2>1 DEF Referenced, Dying
  <2>3. Types' /\ Owners' /\ Once' /\ Phases' /\ Sweep'
    BY <2>1, <2>2 DEF IInv, Types, Owners, Once, Phases, Sweep
  <2> QED
    BY <2>1, <2>3, TableKept DEF IInv
<1> QED
  BY <1>1, <1>2, <1>3, <1>4, <1>5, <1>6, <1>7 DEF Next

THEOREM Invariance == Spec => []IInv
<1>1. Init => IInv
  BY InitIInv
<1>2. IInv /\ [Next]_vars => IInv'
  BY NextKeepsIInv
<1> QED
  BY <1>1, <1>2, PTL DEF Spec

(* TypeOK: what is referred to or being destroyed is allocated, and no     *)
(* hook is called twice.                                                   *)
THEOREM TypeCorrect == Spec => []TypeOK
<1>1. IInv => TypeOK
  <2> SUFFICES ASSUME IInv PROVE TypeOK
    OBVIOUS
  <2>1. /\ tab.slots \in Nat \ {0} /\ tab.used \in Nat /\ tab.refs \in [Obj -> Nat]
        /\ tab.bucket \in [Obj -> Nat \cup {None}] /\ tab.used <= tab.slots
    BY DEF IInv, Types, Nodes
  <2>2. tab.bucket \in [Obj -> (0 .. tab.slots - 1) \cup {None}]
    <3>1. \A x \in Obj : tab.bucket[x] \in (0 .. tab.slots - 1) \cup {None}
      BY <2>1, MainposInTable DEF IInv, Types, Nodes, Linked, Mainpos
    <3> QED
      BY <2>1, <3>1
  <2>3. tab.used \in 0 .. tab.slots
    BY <2>1
  <2> QED
    BY <2>1, <2>2, <2>3 DEF IInv, Types, Owners, Once, TypeOK
<1> QED
  BY <1>1, Invariance, PTL

(* RefsExact: until the shutdown begins, sq_addref and sq_release, the     *)
(* calls of release hooks in the middle of them included, keep the count   *)
(* of pins of every object, wherever a resize has put its node.            *)
THEOREM CountsAreExact == Spec => []RefsExact
<1>1. IInv => RefsExact
  <2> SUFFICES ASSUME IInv, pc \in {"run", "sweep"},
                      NEW x \in Obj
               PROVE  /\ GetRefCount(tab, x) = Cardinality({n \in live : x \in pin[n]})
                      /\ tab.used = Cardinality(Linked(tab))
    BY DEF RefsExact, IInv, Counted, NodesInUse
  <2>1. /\ NodesInUse(tab) /\ Nodes(tab) /\ tab.refs[x] = Cardinality(Pinners(x))
        /\ tab.refs[x] \in Nat
    BY DEF IInv, Counted, Types, Nodes
  <2>2. Found(tab, x) <=> tab.refs[x] > 0
    BY <2>1, FoundIsLinked DEF NodesInUse
  <2> QED
    BY <2>1, <2>2 DEF GetRefCount, Pinners, NodesInUse
<1> QED
  BY <1>1, Invariance, PTL

(* FreesAll: a collection leaves nothing that it did not mark, and the     *)
(* shutdown leaves nothing at all.                                         *)
THEOREM SweepsFreeAll == Spec => FreesAll
<1> DEFINE Frees == /\ pc = "sweep" /\ pc' = "run" => live' \subseteq marked
                    /\ pc' = "closed" => live' = {}
<1>1. IInv /\ [Next]_vars => [Frees]_vars
  <2> SUFFICES ASSUME IInv, Next PROVE Frees
    BY DEF vars
  <2>1. CASE EndSweep
    <3>1. live \subseteq marked /\ live' = live
      BY <2>1, SweptIsMarked DEF EndSweep, heap
    <3>2. pc' = "closed" => marked = {}
      BY <2>1 DEF EndSweep, Sweeping, IInv, Phases
    <3> QED
      BY <3>1, <3>2
  <2>2. CASE pc' = pc
    <3>1. pc # "closed"
      BY <2>2 DEF IInv, Phases, Next, New, Drop, FinalizeNode, Pin, Unpin, Fetch, SetField,
         RunHook, DropField, Free, Collect, Finalize, Advance, EndSweep, Close, BeginFinalize,
         BeginFinal, Running, Sweeping
    <3> QED
      BY <2>2, <3>1
  <2>3. CASE Collect \/ Close \/ BeginFinalize \/ BeginFinal
    BY <2>3 DEF Collect, Close, BeginFinalize, BeginFinal, Running
  <2> QED
    BY <2>1, <2>2, <2>3 DEF Next, New, Drop, FinalizeNode, Pin, Unpin, Fetch, SetField,
       RunHook, DropField, Free, Finalize, Advance, walk
<1>2. Spec => [][Frees]_vars
  BY <1>1, Invariance, PTL DEF Spec
<1> QED
  BY <1>2 DEF FreesAll

(* Outside of a collection the object that has lost a reference is either  *)
(* still referred to or is destroyed at once.                              *)
LEMMA NotForgotten ==
  ASSUME IInv, NEW x, Unrefer(x), live' = live, pc = "run",
         Referenced \ {x, None} \subseteq Referenced'
  PROVE  Forgotten' \subseteq Forgotten
<1>1. Dying' = IF x \in live \ (Referenced' \cup marked \cup Dying)
               THEN Dying \cup {x} ELSE Dying
  BY UnreferDies DEF IInv
<1>2. marked = {} /\ None \notin live
  BY ObjectsAreNumbers DEF IInv, Phases, Types
<1>3. SUFFICES ASSUME NEW y \in live, y \notin Referenced', y \notin Dying'
               PROVE  y \notin Referenced /\ y \notin Dying
  BY DEF Forgotten
<1>4. y \notin Dying /\ y # x
  BY <1>1, <1>2, <1>3
<1> QED
  BY <1>2, <1>3, <1>4

(* OnlySweepForgets: a step of the script, the releases of hooks that it   *)
(* sets off included, leaves no object behind that nothing refers to.      *)
THEOREM ScriptForgetsNothing == Spec => OnlySweepForgets
<1> DEFINE Keeps == pc = "run" /\ pc' = "run" => Forgotten' \subseteq Forgotten
<1>1. IInv /\ [Next]_vars => [Keeps]_vars
  <2> SUFFICES ASSUME IInv, Next, pc = "run", pc' = "run" PROVE Forgotten' \subseteq Forgotten
    BY DEF vars
  <2> USE DEF walk, heap
  <2>1. CASE \E x \in Obj : New(x)
    BY <2>1 DEF New, Forgotten, Referenced, Dying
  <2>2. CASE \E x \in Obj : Drop(x)
    <3>1. PICK x \in Obj : Drop(x) BY <2>2
    <3>2. Referenced \ {x, None} \subseteq Referenced'
      BY <3>1 DEF Drop, Referenced
    <3> QED
      BY <3>1, <3>2, NotForgotten DEF Drop
  <2>3. CASE \E x \in Obj : FinalizeNode(x)
    BY <2>3 DEF FinalizeNode
  <2>4. CASE \E n \in Native, x \in Obj : Pin(n, x)
    <3>1. PICK n \in Native, x \in Obj : Pin(n, x) BY <2>4
    <3>2. Linked(tab') = Linked(tab) \cup {x}
      <4>1. Nodes(tab) /\ NodesInUse(tab) /\ IsFiniteSet(Linked(tab))
        BY LinkedFinite DEF IInv, Types, Counted
      <4> QED
        BY <3>1, <4>1, AddRefCounts DEF Pin
    <3> QED
      BY <3>1, <3>2 DEF Pin, Forgotten, Referenced, Dying
  <2>5. CASE (\E n \in Native, x \in Obj : Unpin(n, x)) \/ RunHook
    <3>1. PICK n \in live, x \in Obj :
            x \in pin[n] /\ SqRelease(x) /\ UNCHANGED <<held, fld, live, t>>
      <4>1. \A n \in held : n \in live
        BY DEF IInv, Types
      <4>2. dtors # <<>> => Head(dtors) \in live
        BY DEF IInv, Types, Owners, Dying
      <4>3. pin \in [Obj -> SUBSET Obj] /\ live \subseteq Obj
        BY DEF IInv, Types
      <4> QED
        BY <2>5, <4>1, <4>2, <4>3 DEF Unpin, RunHook
    <3>2. tab' = Release(tab, x) /\ Unrefer(x)
      BY <3>1 DEF SqRelease, Closing
    <3>3. Nodes(tab) /\ NodesInUse(tab) /\ \A y \in Obj : tab.refs[y] = Cardinality(Pinners(y))
      BY DEF IInv, Types, Counted
    <3>4. x \in Linked(tab)
      <4>1. n \in Pinners(x)
        BY <3>1 DEF Pinners
      <4>2. Cardinality(Pinners(x)) # 0 /\ Cardinality(Pinners(x)) \in Nat
        BY <4>1, PinnersFinite, FS_EmptySet DEF IInv
      <4> QED
        BY <3>3, <4>1, <4>2 DEF NodesInUse
    <3>5. Linked(tab) \ {x} \subseteq Linked(tab')
      BY <3>2, <3>3, <3>4, LinkedFinite, ReleaseCounts DEF IInv
    <3>6. Referenced \ {x, None} \subseteq Referenced'
      BY <3>1, <3>5 DEF Referenced
    <3> QED
      BY <3>1, <3>2, <3>6, NotForgotten
  <2>6. CASE \E n \in Native, x \in Obj : Fetch(n, x)
    BY <2>6 DEF Fetch, Forgotten, Referenced, Dying
  <2>7. CASE \E n \in Native, x \in Obj \cup {None} : SetField(n, x)
    <3>1. PICK n \in Native, x \in Obj \cup {None} : SetField(n, x) BY <2>7
    <3>2. \A m \in Native : fld'[m] = IF m = n THEN x ELSE fld[m]
      BY <3>1, ObjectsAreNumbers DEF SetField, IInv, Types
    <3>3. Referenced \ {fld[n], None} \subseteq Referenced'
      BY <3>1, <3>2 DEF SetField, Referenced
    <3> QED
      BY <3>1, <3>3, NotForgotten DEF SetField
  <2>8. CASE DropField
    <3>1. \A m \in Native : fld'[m] = IF m = Head(dtors) THEN None ELSE fld[m]
      BY <2>8, ObjectsAreNumbers DEF DropField, IInv, Types
    <3>2. Referenced \ {fld[Head(dtors)], None} \subseteq Referenced'
      BY <2>8, <3>1 DEF DropField, Referenced
    <3> QED
      BY <2>8, <3>2, NotForgotten DEF DropField
  <2>9. CASE Free
    <3>1. Dying' = Dying \ {Head(dtors)} /\ live' = live \ {Head(dtors)}
      BY <2>9, FreeUndies DEF Free, IInv
    <3> QED
      BY <2>9, <3>1 DEF Free, Forgotten, Referenced
  <2>10. CASE Collect \/ Finalize \/ Advance \/ EndSweep \/ Close \/ BeginFinalize \/ BeginFinal
    BY <2>10 DEF Collect, Finalize, Advance, EndSweep, Sweeping, Close, BeginFinalize, BeginFinal
  <2> QED
    BY <2>1, <2>2, <2>3, <2>4, <2>5, <2>6, <2>7, <2>8, <2>9, <2>10 DEF Next
<1>2. Spec => [][Keeps]_vars
  BY <1>1, Invariance, PTL DEF Spec
<1> QED
  BY <1>2 DEF OnlySweepForgets
=============================================================================
