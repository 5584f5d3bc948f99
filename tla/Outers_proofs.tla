--------------------------- MODULE Outers_proofs ---------------------------
(***************************************************************************)
(* Proofs about Outers, for the captured locals that leave in a way the    *)
(* code follows up (Stray = {}).                                           *)
(***************************************************************************)
EXTENDS Outers, TLAPS, FiniteSetTheorems, SequenceTheorems, WellFoundedInduction

ScopeT == [size : 0 .. MaxLocals, try : BOOLEAN]
SlotT == [val : Value, var : Var]
FrameT == [fn : Closure \cup {None}, base : Nat, scopes : Seq(ScopeT), gen : BOOLEAN]
OuterT == [at : {"free", "stack", "gone", "own"}, idx : Nat, value : Value \cup {NoVal}]
ClosT == {NoClosure} \cup [outer : Outer, var : Var]
VmT == [stack : Seq(SlotT), frames : Seq(FrameT), open : Seq(Outer), outers : [Outer -> OuterT]]

VarsOf(st) == {st[i].var : i \in DOMAIN st}
Given(c) == {c[k].var : k \in Closure}

Types(st, op, ou, c) ==
    /\ st \in Seq(SlotT) /\ Len(st) <= MaxStack
    /\ op \in Seq(Outer) /\ ou \in [Outer -> OuterT] /\ c \in [Closure -> ClosT]

(* OpenListExact of these parts of the VM.                                 *)
OpenOK(st, op, ou) ==
    /\ \A j \in 1 .. Len(op) : ou[op[j]].at = "stack" /\ ou[op[j]].idx \in 1 .. Len(st)
    /\ \A i, j \in 1 .. Len(op) : i < j => ou[op[i]].idx > ou[op[j]].idx
    /\ \A o \in Outer : ou[o].at \notin {"free", "own"} => \E j \in 1 .. Len(op) : op[j] = o

(* A slot has its own number, or a spare one as a closure keeps that.      *)
Numbered(st, c) ==
    \A i \in 1 .. Len(st) : st[i].var = i \/ (st[i].var > MaxStack /\ i \in Given(c))
Distinct(st) == \A i, j \in 1 .. Len(st) : st[i].var = st[j].var => i = j

(* FreeVariablesAreLexical.                                                *)
LexicalBy(st, ou, q) ==
    IF q.var \in VarsOf(st)
    THEN /\ ou[q.outer].at = "stack" /\ ou[q.outer].idx \in 1 .. Len(st)
         /\ st[ou[q.outer].idx].var = q.var
    ELSE ou[q.outer].at = "own"
Lexical(st, ou, c) == \A k \in Closure : c[k] # NoClosure => LexicalBy(st, ou, c[k])
Shared(c) == \A k, l \in Closure : c[k].var = c[l].var <=> c[k].outer = c[l].outer

(* An outer in use is that of a closure.                                   *)
Owned(ou, c) == \A o \in Outer : ou[o].at # "free" => \E k \in Closure : c[k].outer = o

Good(st, op, ou, c) ==
    /\ Types(st, op, ou, c) /\ OpenOK(st, op, ou)
    /\ Numbered(st, c) /\ Distinct(st)
    /\ Lexical(st, ou, c) /\ Shared(c) /\ Owned(ou, c)

(* A frame whose locals end at slot e.                                     *)
FrameOK(f, e) ==
    /\ f.base <= e /\ e - f.base <= MaxLocals
    /\ f.scopes # <<>> /\ f.scopes[1].size = 1
    /\ \A b \in 1 .. Len(f.scopes) :
          /\ f.base + f.scopes[b].size <= e
          /\ f.scopes[b].try => f.scopes[b].size < MaxLocals /\ f.base + f.scopes[b].size < MaxStack
    /\ \A a, b \in 1 .. Len(f.scopes) : a <= b => f.scopes[a].size <= f.scopes[b].size

End(fr, e, d) == IF d = Len(fr) THEN e ELSE fr[d + 1].base

Shape(fr, e) ==
    /\ fr \in Seq(FrameT) /\ End(fr, e, 0) = 0
    /\ \A d \in 1 .. Len(fr) : FrameOK(fr[d], End(fr, e, d))

GenT == [state : {"suspended"}, vals : {s \in Seq(Value) : Len(s) \in 1 .. MaxLocals}]
           \cup [state : {"none", "running", "dead"}, vals : {<<>>}]

Fine(w, c) ==
    w \in VmT /\ Good(w.stack, w.open, w.outers, c) /\ Shape(w.frames, Len(w.stack))

IInv == Fine(v, clos) /\ gen \in GenT

-----------------------------------------------------------------------------
(* The arithmetic, the sets and the sequences the definitions rest on.     *)

(* A set of numbers that is not empty has a least and, if it is bounded, a *)
(* greatest member.                                                        *)
LEMMA LeastNumber ==
  ASSUME NEW T \in SUBSET Nat, T # {}
  PROVE  Min(T) \in T /\ \A y \in T : Min(T) <= y
<1> DEFINE R == OpToRel(<, Nat)
<1>1. IsWellFoundedOn(R, Nat)
  BY NatLessThanWellFounded
<1>2. \A x, y \in Nat : y < x => <<y, x>> \in R
  BY DEF OpToRel
<1> HIDE DEF R
<1>3. PICK x \in T : \A y \in T : ~(<<y, x>> \in R)
  BY <1>1, WFMin
<1>4. ASSUME NEW y \in T PROVE x <= y
  <2>1. x \in Nat /\ y \in Nat /\ ~(<<y, x>> \in R)
    BY <1>3
  <2>2. ~(y < x)
    BY <2>1, <1>2
  <2> QED
    BY <2>1, <2>2
<1> QED
  BY <1>4 DEF Min

LEMMA GreatestNumber ==
  ASSUME NEW T \in SUBSET Nat, T # {}, NEW n \in Nat, \A y \in T : y <= n
  PROVE  Max(T) \in T /\ \A y \in T : y <= Max(T)
<1> DEFINE U == {m \in Nat : n - m \in T /\ m <= n}
<1>1. U \in SUBSET Nat
  OBVIOUS
<1>2. PICK x \in T : TRUE
  OBVIOUS
<1>3. n - x \in U
  BY <1>2
<1> DEFINE k == Min(U)
<1>4. k \in U /\ \A y \in U : k <= y
  BY <1>1, <1>3, LeastNumber
<1> HIDE DEF k
<1>5. n - k \in T /\ k \in Nat
  BY <1>4
<1>6. ASSUME NEW y \in T PROVE y <= n - k
  <2>1. n - y \in U
    OBVIOUS
  <2>2. k <= n - y
    BY <1>4, <2>1
  <2> QED
    BY <2>2, <1>5
<1> QED
  BY <1>5, <1>6 DEF Max

LEMMA Constants ==
  /\ Cardinality(Closure) \in Nat /\ IsFiniteSet(Closure) /\ IsFiniteSet(Outer)
  /\ Cardinality(Outer) = Cardinality(Closure)
  /\ MaxStack \in Nat /\ MaxLocals \in Nat /\ MaxLocals >= 1
  /\ Outer = 1 .. Cardinality(Closure) /\ Outer \subseteq Nat
  /\ Var = 1 .. MaxStack + MaxLocals + Cardinality(Closure)
<1>1. Cardinality(Closure) \in Nat
  BY FiniteClosures, FS_CardinalityType
<1>2. IsFiniteSet(1 .. Cardinality(Closure)) /\ Cardinality(1 .. Cardinality(Closure)) = Cardinality(Closure)
  BY <1>1, FS_Interval
<1> QED
  BY <1>1, <1>2, FiniteClosures, Bounds DEF Outer, Var

(* The first n members of a sequence, and the rest.                        *)
LEMMA FirstOf ==
  ASSUME NEW S, NEW s \in Seq(S), NEW n \in 0 .. Len(s)
  PROVE  /\ SubSeq(s, 1, n) \in Seq(S) /\ Len(SubSeq(s, 1, n)) = n
         /\ \A i \in 1 .. n : SubSeq(s, 1, n)[i] = s[i]
<1>1. \A i \in 1 .. n : s[i] \in S
  BY ElementOfSeq
<1>2. n \in Int /\ 1 \in Int
  OBVIOUS
<1>3. /\ SubSeq(s, 1, n) \in Seq(S)
      /\ Len(SubSeq(s, 1, n)) = IF 1 <= n THEN n - 1 + 1 ELSE 0
      /\ \A i \in 1 .. n - 1 + 1 : SubSeq(s, 1, n)[i] = s[1 + i - 1]
  BY <1>1, <1>2, SubSeqProperties
<1> HIDE DEF SubSeq
<1> QED
  BY <1>3

LEMMA RestOf ==
  ASSUME NEW S, NEW s \in Seq(S), NEW n \in 0 .. Len(s)
  PROVE  /\ SubSeq(s, n + 1, Len(s)) \in Seq(S) /\ Len(SubSeq(s, n + 1, Len(s))) = Len(s) - n
         /\ \A i \in 1 .. Len(s) - n : SubSeq(s, n + 1, Len(s))[i] = s[n + i]
<1>1. \A i \in n + 1 .. Len(s) : s[i] \in S
  BY ElementOfSeq
<1>2. n + 1 \in Int /\ Len(s) \in Int
  OBVIOUS
<1>3. /\ SubSeq(s, n + 1, Len(s)) \in Seq(S)
      /\ Len(SubSeq(s, n + 1, Len(s))) = IF n + 1 <= Len(s) THEN Len(s) - (n + 1) + 1 ELSE 0
      /\ \A i \in 1 .. Len(s) - (n + 1) + 1 : SubSeq(s, n + 1, Len(s))[i] = s[(n + 1) + i - 1]
  BY <1>1, <1>2, SubSeqProperties
<1> QED
  BY <1>3

-----------------------------------------------------------------------------
(* The walk along the open outers passes those at or above the slot.       *)
LEMMA PassedIs ==
  ASSUME NEW w, NEW st, OpenOK(st, w.open, w.outers),
         w.open \in Seq(Outer), w.outers \in [Outer -> OuterT], NEW i \in Int
  PROVE  /\ Passed(w, i) \in 0 .. Len(w.open)
         /\ \A j \in 1 .. Len(w.open) : w.outers[w.open[j]].idx >= i <=> j <= Passed(w, i)
<1> DEFINE op == w.open
           ou == w.outers
           above(j) == ou[op[j]].idx >= i
           T == {n \in 0 .. Len(op) : n = Len(op) \/ ~AtOrAbove(w, op[n + 1], i)}
           n == Passed(w, i)
<1>1. /\ \A j \in 1 .. Len(op) : ou[op[j]].at = "stack" /\ ou[op[j]].idx \in Nat
      /\ \A a, b \in 1 .. Len(op) : a < b => ou[op[a]].idx > ou[op[b]].idx
      /\ Len(op) \in Nat
  <2>1. \A j \in 1 .. Len(op) : op[j] \in Outer
    BY ElementOfSeq
  <2>2. \A j \in 1 .. Len(op) : ou[op[j]] \in OuterT
    BY <2>1
  <2>3. \A j \in 1 .. Len(op) : ou[op[j]].idx \in Nat
    BY <2>2 DEF OuterT
  <2> QED
    BY <2>3 DEF OpenOK
<1>2. T \in SUBSET Nat /\ Len(op) \in T
  BY <1>1
<1>3. n \in T /\ \A y \in T : n <= y
  BY <1>2, LeastNumber DEF Passed
<1>4. \A j \in 1 .. Len(op) : AtOrAbove(w, op[j], i) <=> above(j)
  BY <1>1 DEF AtOrAbove
<1>5. n \in 0 .. Len(op) /\ (n = Len(op) \/ ~above(n + 1))
  BY <1>1, <1>3, <1>4
<1>6. ASSUME NEW j \in 1 .. Len(op), j <= n PROVE above(j)
  <2>1. j - 1 \in 0 .. Len(op) /\ ~(n <= j - 1) /\ j - 1 # Len(op) /\ (j - 1) + 1 = j
    BY <1>1, <1>5, <1>6
  <2>2. j - 1 \notin T
    BY <1>3, <2>1
  <2>3. AtOrAbove(w, op[j], i)
    BY <2>1, <2>2
  <2> QED
    BY <1>4, <2>3
<1> HIDE DEF T, n
<1>7. ASSUME NEW j \in 1 .. Len(op), ~(j <= n) PROVE ~above(j)
  <2>1. n + 1 \in 1 .. Len(op) /\ ~above(n + 1) /\ n + 1 <= j
    BY <1>1, <1>5, <1>7
  <2>2. ou[op[n + 1]].idx \in Nat /\ ou[op[j]].idx \in Nat
    BY <1>1, <2>1
  <2>3. ou[op[j]].idx <= ou[op[n + 1]].idx
    <3>1. CASE j = n + 1
      BY <2>2, <3>1
    <3>2. CASE n + 1 < j
      BY <1>1, <2>1, <2>2, <3>2
    <3> QED
      BY <2>1, <1>5, <1>1, <3>1, <3>2
  <2> QED
    BY <2>1, <2>2, <2>3
<1> QED
  BY <1>5, <1>6, <1>7 DEF n

(* The outers once the first p of the open ones have taken their values.   *)
Shut(st, op, ou, p) ==
    [o \in Outer |-> IF o \in ToSet(SubSeq(op, 1, p))
                     THEN [at |-> "own", idx |-> 0, value |-> st[ou[o].idx].val]
                     ELSE ou[o]]

IsShut(ou2, st, op, ou, p) ==
    /\ \A j \in 1 .. p : ou2[op[j]]
                            = [at |-> "own", idx |-> 0, value |-> st[ou[op[j]].idx].val]
    /\ \A o \in Outer : (\A j \in 1 .. p : op[j] # o) => ou2[o] = ou[o]

LEMMA ShutIs ==
  ASSUME NEW st, NEW op \in Seq(Outer), NEW ou, NEW p \in 0 .. Len(op)
  PROVE  IsShut(Shut(st, op, ou, p), st, op, ou, p)
<1>1. Len(SubSeq(op, 1, p)) = p /\ SubSeq(op, 1, p) \in Seq(Outer)
      /\ \A i \in 1 .. p : SubSeq(op, 1, p)[i] = op[i]
  BY FirstOf
<1>2. DOMAIN SubSeq(op, 1, p) = 1 .. p
  BY <1>1
<1>3. \A o : o \in ToSet(SubSeq(op, 1, p)) <=> \E j \in 1 .. p : op[j] = o
  BY <1>1, <1>2 DEF ToSet
<1>4. \A j \in 1 .. p : op[j] \in Outer
  BY ElementOfSeq
<1> QED
  BY <1>3, <1>4 DEF Shut, IsShut

(* A VM by its parts.                                                      *)
VmOf(st, fr, op, ou) == [stack |-> st, frames |-> fr, open |-> op, outers |-> ou]

LEMMA VmIs ==
  ASSUME NEW w \in VmT
  PROVE  w = VmOf(w.stack, w.frames, w.open, w.outers)
BY DEF VmT, VmOf

VmSet(st, fr, op, ou) == [stack : {st}, frames : {fr}, open : {op}, outers : {ou}]

LEMMA VmInSet ==
  ASSUME NEW st, NEW fr, NEW op, NEW ou, NEW w \in VmSet(st, fr, op, ou)
  PROVE  w = VmOf(st, fr, op, ou)
BY DEF VmOf, VmSet

LEMMA VmParts ==
  ASSUME NEW st, NEW fr, NEW op, NEW ou
  PROVE  /\ VmOf(st, fr, op, ou).stack = st /\ VmOf(st, fr, op, ou).frames = fr
         /\ VmOf(st, fr, op, ou).open = op /\ VmOf(st, fr, op, ou).outers = ou
BY DEF VmOf

(* CloseOuters, by the number of outers it passes.                         *)
LEMMA ClosedIs ==
  ASSUME NEW st, NEW fr, NEW op, NEW ou, NEW i
  PROVE  LET w == VmOf(st, fr, op, ou)
             p == Passed(w, i)
         IN  CloseOuters(w, i) = VmOf(st, fr, SubSeq(op, p + 1, Len(op)), Shut(st, op, ou, p))
<1> DEFINE w == VmOf(st, fr, op, ou)
           p == Passed(w, i)
           op2 == SubSeq(op, p + 1, Len(op))
           ou2 == Shut(st, op, ou, p)
<1>1. w.stack = st /\ w.open = op /\ w.outers = ou
  BY VmParts
<1>2. CloseOuters(w, i) = [w EXCEPT !.open = SubSeq(@, p + 1, Len(@)),
                                    !.outers = [o \in Outer |->
                      IF o \in ToSet(SubSeq(w.open, 1, p))
                      THEN [at |-> "own", idx |-> 0, value |-> w.stack[w.outers[o].idx].val]
                      ELSE @[o]]]
  BY DEF CloseOuters
<1>3. ou2 = [o \in Outer |-> IF o \in ToSet(SubSeq(w.open, 1, p))
                      THEN [at |-> "own", idx |-> 0, value |-> w.stack[w.outers[o].idx].val]
                      ELSE w.outers[o]]
  BY <1>1 DEF Shut
<1>4. CloseOuters(w, i) = [w EXCEPT !.open = op2, !.outers = ou2]
  BY <1>1, <1>2, <1>3
<1> HIDE DEF p, op2, ou2
<1>5. CloseOuters(w, i) = VmOf(st, fr, op2, ou2)
  <2>1. CloseOuters(w, i) \in VmSet(st, fr, op2, ou2)
    BY <1>4 DEF VmOf, VmSet
  <2> QED
    BY <2>1, VmInSet
<1> QED
  BY <1>5 DEF p, op2, ou2
-----------------------------------------------------------------------------
(* What the invariant says of one outer, slot or closure.                  *)
LEMMA GoodTypes ==
  ASSUME NEW st, NEW op, NEW ou, NEW c, Good(st, op, ou, c)
  PROVE  /\ st \in Seq(SlotT) /\ Len(st) \in Nat /\ Len(st) <= MaxStack
         /\ op \in Seq(Outer) /\ Len(op) \in Nat /\ ou \in [Outer -> OuterT]
         /\ c \in [Closure -> ClosT] /\ OpenOK(st, op, ou) /\ Numbered(st, c) /\ Distinct(st)
         /\ Lexical(st, ou, c) /\ Shared(c) /\ Owned(ou, c)
         /\ DOMAIN st = 1 .. Len(st) /\ DOMAIN op = 1 .. Len(op)
BY DEF Good, Types

LEMMA GoodOuters ==
  ASSUME NEW st, NEW op, NEW ou, NEW c, Good(st, op, ou, c)
  PROVE  /\ \A j \in 1 .. Len(op) : /\ op[j] \in Outer /\ ou[op[j]].at = "stack"
                                     /\ ou[op[j]].idx \in 1 .. Len(st)
         /\ \A i, j \in 1 .. Len(op) : op[i] = op[j] => i = j
         /\ \A i \in 1 .. Len(st) : st[i] \in SlotT /\ st[i].val \in Value /\ st[i].var \in Var
         /\ \A o \in Outer : ou[o] \in OuterT
<1>1. /\ st \in Seq(SlotT) /\ op \in Seq(Outer) /\ ou \in [Outer -> OuterT] /\ Len(st) \in Nat
      /\ OpenOK(st, op, ou)
  BY GoodTypes
<1>2. \A j \in 1 .. Len(op) : op[j] \in Outer
  BY <1>1, ElementOfSeq
<1>3. \A i \in 1 .. Len(st) : st[i] \in SlotT
  BY <1>1, ElementOfSeq
<1>4. ASSUME NEW i \in 1 .. Len(op), NEW j \in 1 .. Len(op), op[i] = op[j]
      PROVE  i = j
  <2>1. ou[op[i]].idx \in 1 .. Len(st)
    BY <1>1 DEF OpenOK
  <2>2. ~(i < j) /\ ~(j < i)
    BY <1>1, <1>4, <2>1 DEF OpenOK
  <2> QED
    BY <2>2
<1>5. \A j \in 1 .. Len(op) : ou[op[j]].at = "stack" /\ ou[op[j]].idx \in 1 .. Len(st)
  BY <1>1 DEF OpenOK
<1>6. \A i \in 1 .. Len(st) : st[i].val \in Value /\ st[i].var \in Var
  BY <1>3 DEF SlotT
<1> QED
  BY <1>1, <1>2, <1>3, <1>4, <1>5, <1>6

(* The locals above the first m leave and the outers that point at them    *)
(* are closed.                                                             *)
OpenAbove(op, ou, m, p) == \A j \in 1 .. Len(op) : ou[op[j]].idx > m <=> j <= p

LEMMA CutGood ==
  ASSUME NEW st, NEW op, NEW ou, NEW c, Good(st, op, ou, c),
         NEW m \in 0 .. Len(st), NEW p \in 0 .. Len(op),
         OpenAbove(op, ou, m, p)
  PROVE  Good(SubSeq(st, 1, m), SubSeq(op, p + 1, Len(op)), Shut(st, op, ou, p), c)
<1> DEFINE st2 == SubSeq(st, 1, m)
           op2 == SubSeq(op, p + 1, Len(op))
           ou2 == Shut(st, op, ou, p)
<1>o. op \in Seq(Outer)
  BY GoodTypes
<1>0. /\ st \in Seq(SlotT) /\ Len(st) \in Nat /\ Len(st) <= MaxStack /\ op \in Seq(Outer)
      /\ Len(op) \in Nat /\ ou \in [Outer -> OuterT] /\ c \in [Closure -> ClosT]
      /\ OpenOK(st, op, ou) /\ Numbered(st, c) /\ Distinct(st)
      /\ Lexical(st, ou, c) /\ Shared(c) /\ Owned(ou, c)
  BY GoodTypes
<1>1. /\ st2 \in Seq(SlotT) /\ Len(st2) = m
      /\ \A i \in 1 .. m : st2[i] = st[i]
  BY <1>0, FirstOf
<1>2. /\ op2 \in Seq(Outer) /\ Len(op2) = Len(op) - p
      /\ \A i \in 1 .. Len(op) - p : op2[i] = op[p + i]
  BY <1>0, RestOf
<1>3. /\ \A j \in 1 .. p : ou2[op[j]] = [at |-> "own", idx |-> 0, value |-> st[ou[op[j]].idx].val]
      /\ \A o \in Outer : (\A j \in 1 .. p : op[j] # o) => ou2[o] = ou[o]
      /\ DOMAIN ou2 = Outer
  <2>1. DOMAIN ou2 = Outer
    BY DEF Shut
  <2>2. IsShut(ou2, st, op, ou, p)
    BY <1>o, ShutIs
  <2> QED
    BY <2>1, <2>2 DEF IsShut
<1>4. /\ \A j \in 1 .. Len(op) : /\ op[j] \in Outer /\ ou[op[j]].at = "stack"
                                 /\ ou[op[j]].idx \in 1 .. Len(st)
      /\ \A i, j \in 1 .. Len(op) : op[i] = op[j] => i = j
      /\ \A i \in 1 .. Len(st) : st[i].val \in Value
      /\ \A o \in Outer : ou[o] \in OuterT
  BY GoodOuters
<1>5. p \in Nat /\ m \in Nat /\ p <= Len(op) /\ m <= Len(st)
  BY <1>0
<1> HIDE DEF st2, op2, ou2
<1>6. \A j \in 1 .. Len(op) : j > p => ou2[op[j]] = ou[op[j]] /\ ou[op[j]].idx <= m
  <2> SUFFICES ASSUME NEW j \in 1 .. Len(op), j > p
               PROVE  ou2[op[j]] = ou[op[j]] /\ ou[op[j]].idx <= m
    OBVIOUS
  <2>1. \A i \in 1 .. p : op[i] # op[j]
    BY <1>0, <1>4, <1>5
  <2>0. ou[op[j]].idx > m <=> j <= p
    BY DEF OpenAbove
  <2>2. ~(ou[op[j]].idx > m) /\ ou[op[j]].idx \in Nat
    BY <1>0, <1>4, <1>5, <2>0
  <2> QED
    BY <1>3, <1>4, <1>5, <2>1, <2>2
<1>7. \A j \in 1 .. Len(op) : j <= p => ou2[op[j]].at = "own"
  <2> SUFFICES ASSUME NEW j \in 1 .. Len(op), j <= p PROVE ou2[op[j]].at = "own"
    OBVIOUS
  <2>1. j \in 1 .. p
    BY <1>0, <1>5
  <2>2. ou2[op[j]] = [at |-> "own", idx |-> 0, value |-> st[ou[op[j]].idx].val]
    BY <1>3, <2>1
  <2> QED
    BY <2>2
<1>8. ou2 \in [Outer -> OuterT]
  <2> SUFFICES ASSUME NEW o \in Outer PROVE ou2[o] \in OuterT
    <3>1. ou2 = [o \in Outer |-> ou2[o]]
      BY DEF ou2, Shut
    <3> QED
      BY <3>1
  <2>1. CASE \A j \in 1 .. p : op[j] # o
    BY <1>3, <1>4, <2>1
  <2>2. ASSUME NEW j \in 1 .. p, op[j] = o PROVE ou2[o] \in OuterT
    <3>1. j \in 1 .. Len(op)
      BY <1>0, <1>5
    <3>2. st[ou[o].idx].val \in Value
      BY <1>4, <2>2, <3>1
    <3>3. ou2[o] = [at |-> "own", idx |-> 0, value |-> st[ou[o].idx].val]
      BY <1>3, <2>2
    <3> QED
      BY <3>2, <3>3 DEF OuterT
  <2> QED
    BY <2>1, <2>2
<1>9. Types(st2, op2, ou2, c)
  <2>1. Len(st2) <= MaxStack
    BY <1>0, <1>1, <1>5, Constants
  <2> QED
    BY <1>0, <1>1, <1>2, <1>8, <2>1 DEF Types
<1>10. OpenOK(st2, op2, ou2)
  <2>1. \A j \in 1 .. Len(op2) : /\ p + j \in 1 .. Len(op) /\ p + j > p
                                  /\ op2[j] = op[p + j]
    BY <1>0, <1>2, <1>5
  <2>2. \A j \in 1 .. Len(op2) : ou2[op2[j]] = ou[op[p + j]] /\ ou[op[p + j]].idx <= m
    BY <1>6, <2>1
  <2>3. \A j \in 1 .. Len(op2) : ou2[op2[j]].at = "stack" /\ ou2[op2[j]].idx \in 1 .. Len(st2)
    <3> SUFFICES ASSUME NEW j \in 1 .. Len(op2)
                 PROVE  ou2[op2[j]].at = "stack" /\ ou2[op2[j]].idx \in 1 .. m
      BY <1>1
    <3>1. /\ ou2[op2[j]] = ou[op[p + j]] /\ ou[op[p + j]].idx <= m
          /\ ou[op[p + j]].at = "stack" /\ ou[op[p + j]].idx \in 1 .. Len(st)
      BY <1>4, <2>1, <2>2
    <3> QED
      BY <1>0, <1>5, <3>1
  <2>4. ASSUME NEW i \in 1 .. Len(op2), NEW j \in 1 .. Len(op2), i < j
        PROVE  ou2[op2[i]].idx > ou2[op2[j]].idx
    <3>1. p + i < p + j
      BY <1>0, <1>2, <1>5, <2>4
    <3>2. ou[op[p + i]].idx > ou[op[p + j]].idx
      BY <1>0, <2>1, <3>1 DEF OpenOK
    <3> QED
      BY <2>2, <3>2
  <2>5. ASSUME NEW o \in Outer, ou2[o].at \notin {"free", "own"}
        PROVE  \E j \in 1 .. Len(op2) : op2[j] = o
    <3>1. \A j \in 1 .. p : op[j] # o
      <4>1. \A j \in 1 .. p : j \in 1 .. Len(op) /\ j <= p
        BY <1>0, <1>5
      <4> QED
        BY <1>7, <2>5, <4>1
    <3>2. ou2[o] = ou[o]
      BY <1>3, <3>1
    <3>3. PICK j \in 1 .. Len(op) : op[j] = o
      BY <1>0, <2>5, <3>2 DEF OpenOK
    <3>4. ~(j \in 1 .. p)
      BY <3>1, <3>3
    <3>5. j - p \in 1 .. Len(op2) /\ p + (j - p) = j
      BY <1>0, <1>2, <1>5, <3>4
    <3>6. op2[j - p] = op[j]
      BY <2>1, <3>5
    <3> QED
      BY <3>3, <3>5, <3>6
  <2> QED
    BY <2>3, <2>4, <2>5 DEF OpenOK
<1>11. Numbered(st2, c) /\ Distinct(st2)
  <2>1. \A i \in 1 .. m : i \in 1 .. Len(st)
    BY <1>0, <1>5
  <2> QED
    BY <1>0, <1>1, <2>1 DEF Numbered, Distinct
<1>12. Lexical(st2, ou2, c)
  <2> SUFFICES ASSUME NEW k \in Closure, c[k] # NoClosure
               PROVE  LexicalBy(st2, ou2, c[k])
    BY DEF Lexical
  <2> DEFINE q == c[k]
  <2>1. q.outer \in Outer /\ LexicalBy(st, ou, q)
    <3>1. q \in [outer : Outer, var : Var]
      BY <1>0 DEF ClosT
    <3> QED
      BY <1>0, <3>1 DEF Lexical
  <2> HIDE DEF q
  <2>2. DOMAIN st = 1 .. Len(st) /\ DOMAIN st2 = 1 .. m
    BY <1>0, <1>1
  <2>3. ASSUME q.var \in VarsOf(st2)
        PROVE  LexicalBy(st2, ou2, q)
    <3>1. PICK i \in 1 .. m : st2[i].var = q.var
      BY <2>2, <2>3 DEF VarsOf
    <3>2. i \in 1 .. Len(st) /\ st[i].var = q.var
      BY <1>0, <1>1, <1>5, <3>1
    <3>3. q.var \in VarsOf(st)
      BY <2>2, <3>2 DEF VarsOf
    <3>4. ou[q.outer].at = "stack" /\ ou[q.outer].idx \in 1 .. Len(st)
          /\ st[ou[q.outer].idx].var = q.var
      BY <2>1, <3>3 DEF LexicalBy
    <3>5. ou[q.outer].idx = i
      BY <1>0, <3>2, <3>4 DEF Distinct
    <3>6. PICK j \in 1 .. Len(op) : op[j] = q.outer
      BY <1>0, <2>1, <3>4 DEF OpenOK
    <3>7. ~(ou[op[j]].idx > m)
      BY <3>1, <3>5, <3>6, <1>5
    <3>8. j > p
      BY <1>0, <1>5, <3>7 DEF OpenAbove
    <3>9. ou2[q.outer] = ou[q.outer]
      BY <1>6, <3>6, <3>8
    <3> QED
      BY <1>1, <2>3, <3>1, <3>4, <3>5, <3>9 DEF LexicalBy
  <2>4. ASSUME q.var \notin VarsOf(st2) /\ q.var \in VarsOf(st)
        PROVE  LexicalBy(st2, ou2, q)
    <3>1. ou[q.outer].at = "stack" /\ ou[q.outer].idx \in 1 .. Len(st)
          /\ st[ou[q.outer].idx].var = q.var
      BY <2>1, <2>4 DEF LexicalBy
    <3>2. ~(ou[q.outer].idx <= m)
      <4>1. ASSUME ou[q.outer].idx <= m PROVE FALSE
        <5>1. ou[q.outer].idx \in 1 .. m
          BY <1>0, <1>5, <3>1, <4>1
        <5>2. st2[ou[q.outer].idx].var = q.var
          BY <1>1, <3>1, <5>1
        <5> QED
          BY <2>2, <2>4, <5>1, <5>2 DEF VarsOf
      <4> QED
        BY <4>1
    <3>3. PICK j \in 1 .. Len(op) : op[j] = q.outer
      BY <1>0, <2>1, <3>1 DEF OpenOK
    <3>4. ou[op[j]].idx > m
      BY <3>1, <3>2, <3>3, <1>5
    <3>5. ou2[q.outer].at = "own"
      BY <1>7, <3>3, <3>4 DEF OpenAbove
    <3> QED
      BY <2>4, <3>5 DEF LexicalBy
  <2>5. ASSUME q.var \notin VarsOf(st2) /\ q.var \notin VarsOf(st)
        PROVE  LexicalBy(st2, ou2, q)
    <3>1. ou[q.outer].at = "own"
      BY <2>1, <2>5 DEF LexicalBy
    <3>2. \A j \in 1 .. Len(op) : op[j] # q.outer
      BY <1>4, <3>1
    <3>3. \A j \in 1 .. p : op[j] # q.outer
      BY <1>0, <1>5, <3>2
    <3>4. ou2[q.outer] = ou[q.outer]
      BY <1>3, <2>1, <3>3
    <3> QED
      BY <2>5, <3>1, <3>4 DEF LexicalBy
  <2> QED
    BY <2>3, <2>4, <2>5 DEF q
<1>13. Owned(ou2, c)
  <2> SUFFICES ASSUME NEW o \in Outer, ou2[o].at # "free"
               PROVE  ou[o].at # "free"
    BY <1>0 DEF Owned
  <2>1. CASE \A j \in 1 .. p : op[j] # o
    BY <1>3, <2>1
  <2>2. ASSUME NEW j \in 1 .. p, op[j] = o PROVE ou[o].at # "free"
    <3>1. j \in 1 .. Len(op)
      BY <1>0, <1>5
    <3> QED
      BY <1>4, <2>2, <3>1
  <2> QED
    BY <2>1, <2>2
<1>14. Good(st2, op2, ou2, c)
  BY <1>0, <1>9, <1>10, <1>11, <1>12, <1>13 DEF Good
<1> QED
  BY <1>14 DEF st2, op2, ou2

-----------------------------------------------------------------------------
(* New locals and their names.                                             *)

LEMMA ToSeqIs ==
  ASSUME NEW S, IsFiniteSet(S)
  PROVE  /\ SetToSeq(S) \in [1 .. Cardinality(S) -> S]
         /\ \A i, j \in 1 .. Cardinality(S) : SetToSeq(S)[i] = SetToSeq(S)[j] => i = j
<1>1. ExistsBijection(1 .. Cardinality(S), S)
  BY FS_CardinalityType
<1>2. \E f \in [1 .. Cardinality(S) -> S] : IsInjective(f)
  BY <1>1 DEF ExistsBijection, Bijection, Injection
<1>3. SetToSeq(S) \in [1 .. Cardinality(S) -> S] /\ IsInjective(SetToSeq(S))
  BY <1>2 DEF SetToSeq
<1> QED
  BY <1>3 DEF IsInjective

Taken(st, c) == VarsOf(st) \cup Given(c)

(* The spare numbers in use are no more than the closures: a slot has one  *)
(* only as a closure keeps its own number.                                 *)
LEMMA SpareInUse ==
  ASSUME NEW st \in Seq(SlotT), Len(st) <= MaxStack, NEW c \in [Closure -> ClosT], Numbered(st, c)
  PROVE  LET U == {x \in Taken(st, c) : x > MaxStack}
         IN  IsFiniteSet(U) /\ Cardinality(U) <= Cardinality(Closure)
<1> DEFINE U == {x \in Taken(st, c) : x > MaxStack}
           By(x, k) == c[k].var = x \/ \E i \in 1 .. Len(st) : st[i].var = x /\ x # i /\ c[k].var = i
           f == [x \in U |-> CHOOSE k \in Closure : By(x, k)]
<1>0. DOMAIN st = 1 .. Len(st) /\ Len(st) \in Nat /\ MaxStack \in Nat
  BY Constants
<1>1. ASSUME NEW x \in U PROVE \E k \in Closure : By(x, k)
  <2>1. CASE x \in Given(c)
    BY <2>1 DEF Given
  <2>2. CASE x \in VarsOf(st)
    <3>1. PICK i \in 1 .. Len(st) : st[i].var = x
      BY <1>0, <2>2 DEF VarsOf
    <3>2. x # i
      BY <1>0
    <3>3. i \in Given(c)
      BY <3>1, <3>2 DEF Numbered
    <3>4. PICK k \in Closure : c[k].var = i
      BY <3>3 DEF Given
    <3> QED
      BY <3>1, <3>2, <3>4
  <2> QED
    BY <2>1, <2>2 DEF Taken
<1>2. f \in [U -> Closure] /\ \A x \in U : By(x, f[x])
  BY <1>1
<1>3. ASSUME NEW x \in U, NEW y \in U, NEW k \in Closure, By(x, k), By(y, k) PROVE x = y
  <2>1. x > MaxStack /\ y > MaxStack
    OBVIOUS
  <2>2. CASE c[k].var = x
    BY <1>0, <1>3, <2>1, <2>2
  <2>3. CASE c[k].var = y
    BY <1>0, <1>3, <2>1, <2>3
  <2>4. CASE c[k].var # x /\ c[k].var # y
    BY <1>0, <1>3, <2>1, <2>4
  <2> QED
    BY <2>2, <2>3, <2>4
<1> HIDE DEF f
<1>4. f \in Injection(U, Closure)
  <2>1. \A x, y \in U : f[x] = f[y] => x = y
    BY <1>2, <1>3
  <2> QED
    BY <1>2, <2>1 DEF Injection, IsInjective
<1>5. IsFiniteSet(U) /\ Cardinality(U) <= Cardinality(Closure)
  BY <1>4, FS_Injection, Constants
<1> QED
  BY <1>5

(* There is a spare number for each local a frame may have.                *)
LEMMA SpareLeft ==
  ASSUME NEW st \in Seq(SlotT), Len(st) <= MaxStack, NEW c \in [Closure -> ClosT], Numbered(st, c)
  PROVE  LET S == Var \ (Taken(st, c) \cup 1 .. MaxStack)
         IN  IsFiniteSet(S) /\ Cardinality(S) \in Nat /\ Cardinality(S) >= MaxLocals
<1> DEFINE S == Var \ (Taken(st, c) \cup 1 .. MaxStack)
           U == {x \in Taken(st, c) : x > MaxStack}
           E == MaxStack + 1 .. MaxStack + MaxLocals + Cardinality(Closure)
<1>1. /\ MaxStack \in Nat /\ MaxLocals \in Nat /\ Cardinality(Closure) \in Nat
      /\ Var = 1 .. MaxStack + MaxLocals + Cardinality(Closure)
  BY Constants
<1>2. IsFiniteSet(E) /\ Cardinality(E) = MaxLocals + Cardinality(Closure)
  <2>1. /\ MaxStack + 1 \in Int /\ MaxStack + MaxLocals + Cardinality(Closure) \in Int
    BY <1>1
  <2>2. /\ IsFiniteSet(E)
        /\ Cardinality(E) = IF MaxStack + 1 > MaxStack + MaxLocals + Cardinality(Closure) THEN 0
                            ELSE (MaxStack + MaxLocals + Cardinality(Closure)) - (MaxStack + 1) + 1
    BY <2>1, FS_Interval
  <2> HIDE DEF E
  <2> QED
    BY <1>1, <2>2, SMTT(30)
<1>3. S = E \ U
  BY <1>1
<1>4. IsFiniteSet(U) /\ Cardinality(U) <= Cardinality(Closure) /\ Cardinality(U) \in Nat
  BY SpareInUse, FS_CardinalityType
<1> HIDE DEF S, U, E
<1>5. IsFiniteSet(E \cap U) /\ Cardinality(E \cap U) <= Cardinality(U)
      /\ Cardinality(E \cap U) \in Nat
  BY <1>4, FS_Subset, FS_CardinalityType
<1>6. IsFiniteSet(S) /\ Cardinality(S) = Cardinality(E) - Cardinality(E \cap U)
      /\ Cardinality(S) \in Nat
  BY <1>2, <1>3, FS_Difference, FS_CardinalityType
<1>7. Cardinality(S) >= MaxLocals
  BY <1>1, <1>2, <1>4, <1>5, <1>6
<1> QED
  BY <1>6, <1>7 DEF S

(* New locals with names that nothing else has.                            *)
Fresh(st, new, c) ==
    /\ \A i \in 1 .. Len(new) :
          /\ new[i].var = Len(st) + i \/ (new[i].var > MaxStack /\ Len(st) + i \in Given(c))
          /\ new[i].var \notin Taken(st, c)
    /\ \A i, j \in 1 .. Len(new) : new[i].var = new[j].var => i = j

Called(names, s, n, st, c) ==
    /\ names \in [1 .. n -> Var]
    /\ \A i \in 1 .. n :
          /\ names[i] = s + i \/ (names[i] > MaxStack /\ s + i \in Given(c))
          /\ names[i] \notin Taken(st, c)
    /\ \A i, j \in 1 .. n : names[i] = names[j] => i = j

LEMMA NamesFresh ==
  ASSUME NEW w, w.stack \in Seq(SlotT), clos \in [Closure -> ClosT],
         Numbered(w.stack, clos), NEW n \in 0 .. MaxLocals, Len(w.stack) + n <= MaxStack
  PROVE  Called(Names(w, Len(w.stack), n), Len(w.stack), n, w.stack, clos)
<1> DEFINE st == w.stack
           s == Len(st)
           T == Taken(st, clos)
           S == Var \ (T \cup 1 .. MaxStack)
           spare == SetToSeq(S)
           names == Names(w, s, n)
<1>1. Named(w) = T
  BY DEF Named, Taken, VarsOf, Given
<1>2. names = [i \in 1 .. n |-> IF s + i \in T THEN spare[i] ELSE s + i]
  BY <1>1 DEF Names
<1>3. s \in Nat /\ MaxStack \in Nat /\ MaxLocals \in Nat /\ n \in Nat /\ Cardinality(Closure) \in Nat
      /\ DOMAIN st = 1 .. s /\ s <= MaxStack /\ n <= MaxLocals /\ s + n <= MaxStack
      /\ Var = 1 .. MaxStack + MaxLocals + Cardinality(Closure)
  BY Constants
<1>4. IsFiniteSet(S) /\ Cardinality(S) \in Nat /\ Cardinality(S) >= MaxLocals
  BY <1>3, SpareLeft
<1>5. /\ spare \in [1 .. Cardinality(S) -> S]
      /\ \A i, j \in 1 .. Cardinality(S) : spare[i] = spare[j] => i = j
  BY <1>4, ToSeqIs
<1>6. \A i \in 1 .. n : i \in 1 .. Cardinality(S)
  BY <1>3, <1>4
<1>7. \A i \in 1 .. n : spare[i] \in Var /\ spare[i] > MaxStack /\ spare[i] \notin T
  <2> SUFFICES ASSUME NEW i \in 1 .. n
               PROVE  spare[i] \in Var /\ spare[i] > MaxStack /\ spare[i] \notin T
    OBVIOUS
  <2>1. spare[i] \in S
    BY <1>5, <1>6
  <2> QED
    BY <1>3, <2>1
<1>8. ASSUME NEW i \in 1 .. n, s + i \in T PROVE s + i \in Given(clos)
  <2>1. CASE s + i \in VarsOf(st)
    <3>1. PICK j \in 1 .. s : st[j].var = s + i
      BY <1>3, <2>1 DEF VarsOf
    <3>2. s + i # j /\ ~(s + i > MaxStack)
      BY <1>3
    <3> QED
      BY <3>1, <3>2 DEF Numbered
  <2> QED
    BY <1>8, <2>1 DEF Taken
<1> HIDE DEF T, S, spare, names
<1>9. \A i \in 1 .. n : s + i \in Var /\ ~(s + i > MaxStack)
  BY <1>3
<1>10. names \in [1 .. n -> Var]
  BY <1>2, <1>7, <1>9
<1>11. \A i \in 1 .. n : /\ names[i] = s + i \/ (names[i] > MaxStack /\ s + i \in Given(clos))
                         /\ names[i] \notin T
  BY <1>2, <1>7, <1>8
<1>12. ASSUME NEW i \in 1 .. n, NEW j \in 1 .. n, names[i] = names[j] PROVE i = j
  <2>1. CASE s + i \in T /\ s + j \in T
    BY <1>2, <1>5, <1>6, <1>12, <2>1
  <2>2. CASE s + i \notin T /\ s + j \notin T
    <3>1. s + i = s + j
      BY <1>2, <1>12, <2>2
    <3> QED
      BY <1>3, <3>1
  <2>3. CASE s + i \in T /\ s + j \notin T
    <3>1. names[i] > MaxStack /\ names[j] = s + j
      BY <1>2, <1>7, <2>3
    <3> QED
      BY <1>9, <1>12, <3>1
  <2>4. CASE s + i \notin T /\ s + j \in T
    <3>1. names[j] > MaxStack /\ names[i] = s + i
      BY <1>2, <1>7, <2>4
    <3> QED
      BY <1>9, <1>12, <3>1
  <2> QED
    BY <2>1, <2>2, <2>3, <2>4
<1> QED
  BY <1>10, <1>11, <1>12 DEF Called, T, names

LEMMA ExtendGood ==
  ASSUME NEW st, NEW op, NEW ou, NEW c, Good(st, op, ou, c),
         NEW new \in Seq(SlotT), Len(st) + Len(new) <= MaxStack, Fresh(st, new, c)
  PROVE  Good(st \o new, op, ou, c)
<1> DEFINE st2 == st \o new
           s == Len(st)
           n == Len(new)
<1>0. /\ st \in Seq(SlotT) /\ s \in Nat /\ op \in Seq(Outer) /\ Len(op) \in Nat
      /\ ou \in [Outer -> OuterT] /\ c \in [Closure -> ClosT] /\ n \in Nat
      /\ OpenOK(st, op, ou) /\ Numbered(st, c) /\ Distinct(st)
      /\ Lexical(st, ou, c) /\ Shared(c) /\ Owned(ou, c) /\ DOMAIN st = 1 .. s
  BY GoodTypes
<1>1. /\ st2 \in Seq(SlotT) /\ Len(st2) = s + n
      /\ \A i \in 1 .. s + n : st2[i] = IF i <= s THEN st[i] ELSE new[i - s]
  BY <1>0, ConcatProperties
<1>2. \A i \in 1 .. s : i \in 1 .. s + n /\ st2[i] = st[i]
  BY <1>0, <1>1
<1>3. \A i \in 1 .. s + n : i \in 1 .. s \/ (i - s \in 1 .. n /\ st2[i] = new[i - s] /\ s + (i - s) = i)
  BY <1>0, <1>1
<1>4. DOMAIN st2 = 1 .. s + n
  BY <1>1
<1> HIDE DEF st2, s, n
<1>5. \A x : x \in VarsOf(st) => x \in VarsOf(st2)
  BY <1>0, <1>2, <1>4 DEF VarsOf
<1>6. ASSUME NEW x \in VarsOf(st2), x \in Given(c) PROVE x \in VarsOf(st)
  <2>1. PICK i \in 1 .. s + n : st2[i].var = x
    BY <1>4, <1>6 DEF VarsOf
  <2>2. CASE i \in 1 .. s
    BY <1>0, <1>2, <2>1, <2>2 DEF VarsOf
  <2>3. CASE i - s \in 1 .. n /\ st2[i] = new[i - s]
    BY <1>6, <2>1, <2>3 DEF Fresh, Taken, n
  <2> QED
    BY <1>3, <2>2, <2>3
<1>7. Types(st2, op, ou, c)
  BY <1>0, <1>1 DEF Types, s, n
<1>8. OpenOK(st2, op, ou)
  <2>1. \A j \in 1 .. Len(op) : ou[op[j]].idx \in 1 .. s => ou[op[j]].idx \in 1 .. Len(st2)
    BY <1>1, <1>2
  <2> QED
    BY <1>0, <2>1 DEF OpenOK, s
<1>9. Numbered(st2, c)
  <2> SUFFICES ASSUME NEW i \in 1 .. s + n
               PROVE  st2[i].var = i \/ (st2[i].var > MaxStack /\ i \in Given(c))
    BY <1>1 DEF Numbered
  <2>1. CASE i \in 1 .. s
    BY <1>0, <1>2, <2>1 DEF Numbered, s
  <2>2. CASE i - s \in 1 .. n /\ st2[i] = new[i - s] /\ s + (i - s) = i
    BY <2>2 DEF Fresh, s, n
  <2> QED
    BY <1>3, <2>1, <2>2
<1>10. Distinct(st2)
  <2> SUFFICES ASSUME NEW i \in 1 .. s + n, NEW j \in 1 .. s + n, st2[i].var = st2[j].var
               PROVE  i = j
    BY <1>1 DEF Distinct
  <2>0. \A k \in 1 .. s : st2[k].var \in Taken(st, c)
    BY <1>0, <1>2 DEF Taken, VarsOf
  <2>1. \A k \in 1 .. s + n : k - s \in 1 .. n /\ st2[k] = new[k - s]
                                => st2[k].var \notin Taken(st, c)
    BY DEF Fresh, n
  <2>2. CASE i \in 1 .. s /\ j \in 1 .. s
    BY <1>0, <1>2, <2>2 DEF Distinct, s
  <2>3. CASE /\ i - s \in 1 .. n /\ st2[i] = new[i - s]
             /\ j - s \in 1 .. n /\ st2[j] = new[j - s]
    <3>1. i - s = j - s
      BY <2>3 DEF Fresh, n
    <3> QED
      BY <1>0, <3>1
  <2> QED
    BY <1>3, <2>0, <2>1, <2>2, <2>3
<1>11. Lexical(st2, ou, c)
  <2> SUFFICES ASSUME NEW k \in Closure, c[k] # NoClosure
               PROVE  LexicalBy(st2, ou, c[k])
    BY DEF Lexical
  <2>1. LexicalBy(st, ou, c[k])
    BY <1>0 DEF Lexical
  <2>2. c[k].var \in Given(c)
    BY DEF Given
  <2>3. c[k].var \in VarsOf(st2) <=> c[k].var \in VarsOf(st)
    BY <1>5, <1>6, <2>2
  <2>4. \A i \in 1 .. Len(st) : i \in 1 .. Len(st2) /\ st2[i] = st[i]
    BY <1>1, <1>2 DEF s
  <2> QED
    BY <2>1, <2>3, <2>4 DEF LexicalBy
<1>12. Good(st2, op, ou, c)
  BY <1>0, <1>7, <1>8, <1>9, <1>10, <1>11 DEF Good
<1> QED
  BY <1>12 DEF st2

(* New locals with these values.                                           *)
NewLocals(st, new, values) ==
    /\ new \in Seq(SlotT) /\ Len(new) = Len(values)
    /\ \A i \in 1 .. Len(values) : new[i].val = values[i]
    /\ Fresh(st, new, clos)

LEMMA WithLocalsIs ==
  ASSUME NEW st, NEW fr, NEW op, NEW ou, Good(st, op, ou, clos),
         NEW values \in Seq(Value), Len(values) <= MaxLocals, Len(st) + Len(values) <= MaxStack
  PROVE  \E new : NewLocals(st, new, values)
                    /\ WithLocals(VmOf(st, fr, op, ou), values) = VmOf(st \o new, fr, op, ou)
<1> DEFINE w == VmOf(st, fr, op, ou)
           n == Len(values)
           names == Names(w, Len(st), n)
           new == [i \in 1 .. n |-> Slot(values[i], names[i])]
<1>1. w.stack = st
  BY VmParts
<1>2. /\ st \in Seq(SlotT) /\ clos \in [Closure -> ClosT] /\ Numbered(st, clos)
      /\ n \in Nat /\ n <= MaxLocals /\ DOMAIN values = 1 .. n /\ Len(st) \in Nat
      /\ \A i \in 1 .. n : values[i] \in Value
  BY GoodTypes, ElementOfSeq
<1>3. n \in 0 .. MaxLocals
  BY <1>2, Constants
<1>4. Called(names, Len(st), n, st, clos)
  BY <1>1, <1>2, <1>3, NamesFresh
<1>5. WithLocals(w, values) = [w EXCEPT !.stack = st \o new]
  BY <1>1, <1>2 DEF WithLocals
<1>6. WithLocals(w, values) = VmOf(st \o new, fr, op, ou)
  <2> HIDE DEF new
  <2>1. WithLocals(w, values) \in VmSet(st \o new, fr, op, ou)
    BY <1>5 DEF VmOf, VmSet
  <2> QED
    BY <2>1, VmInSet
<1> HIDE DEF names
<1>7. \A i \in 1 .. n : Slot(values[i], names[i]) \in SlotT
  BY <1>2, <1>4 DEF Called, Slot, SlotT
<1>8. new \in Seq(SlotT) /\ Len(new) = n /\ \A i \in 1 .. n : new[i] = Slot(values[i], names[i])
  BY <1>2, <1>7
<1> HIDE DEF new
<1>9. \A i \in 1 .. n : new[i].val = values[i] /\ new[i].var = names[i]
  <2> SUFFICES ASSUME NEW i \in 1 .. n
               PROVE  new[i].val = values[i] /\ new[i].var = names[i]
    OBVIOUS
  <2>1. new[i] = Slot(values[i], names[i])
    BY <1>8
  <2> QED
    BY <2>1 DEF Slot
<1>10. Fresh(st, new, clos)
  BY <1>4, <1>8, <1>9 DEF Fresh, Called
<1>11. NewLocals(st, new, values)
  BY <1>8, <1>9, <1>10 DEF NewLocals
<1> QED
  BY <1>6, <1>11

(* RelocateOuters leaves each outer on the slot it was on.                 *)
LEMMA RelocateIs ==
  ASSUME NEW st, NEW fr, NEW op, NEW ou, NEW c, Good(st, op, ou, c)
  PROVE  RelocateOuters(Moved(VmOf(st, fr, op, ou))) = VmOf(st, fr, op, ou)
<1> DEFINE w == VmOf(st, fr, op, ou)
           os == {o \in Outer : ou[o].at = "stack"}
           ou2 == [o \in Outer |-> IF o \in os THEN [ou[o] EXCEPT !.at = "gone"] ELSE ou[o]]
           ou3 == [o \in Outer |-> IF o \in ToSet(op) THEN [ou2[o] EXCEPT !.at = "stack"] ELSE ou2[o]]
<1>1. w.outers = ou
  BY VmParts
<1>2. Moved(w) = [w EXCEPT !.outers = ou2]
  BY <1>1 DEF Moved, Repoint
<1>3. Moved(w) = VmOf(st, fr, op, ou2)
  <2> HIDE DEF ou2
  <2>1. Moved(w) \in VmSet(st, fr, op, ou2)
    BY <1>2 DEF VmOf, VmSet
  <2> QED
    BY <2>1, VmInSet
<1>4. RelocateOuters(Moved(w)) = [VmOf(st, fr, op, ou2) EXCEPT !.outers = ou3]
  <2> HIDE DEF ou2
  <2>1. VmOf(st, fr, op, ou2).open = op /\ VmOf(st, fr, op, ou2).outers = ou2
    BY VmParts
  <2> QED
    BY <1>3, <2>1 DEF RelocateOuters, Repoint
<1>5. RelocateOuters(Moved(w)) = VmOf(st, fr, op, ou3)
  <2> HIDE DEF ou2, ou3
  <2>1. RelocateOuters(Moved(w)) \in VmSet(st, fr, op, ou3)
    BY <1>4 DEF VmOf, VmSet
  <2> QED
    BY <2>1, VmInSet
<1>6. ToSet(op) = os
  <2>1. /\ DOMAIN op = 1 .. Len(op) /\ OpenOK(st, op, ou)
        /\ \A j \in 1 .. Len(op) : op[j] \in Outer /\ ou[op[j]].at = "stack"
    BY GoodTypes, GoodOuters
  <2>2. \A o \in os : o \in ToSet(op)
    BY <2>1 DEF OpenOK, ToSet
  <2>3. \A o \in ToSet(op) : o \in os
    BY <2>1 DEF ToSet
  <2> QED
    BY <2>2, <2>3
<1>7. \A o \in Outer : ou3[o] = ou[o]
  <2> SUFFICES ASSUME NEW o \in Outer PROVE ou3[o] = ou[o]
    OBVIOUS
  <2>1. CASE o \in os
    <3>1. ou[o] \in OuterT /\ ou[o].at = "stack"
      BY <2>1, GoodOuters
    <3>2. [[ou[o] EXCEPT !.at = "gone"] EXCEPT !.at = "stack"] = ou[o]
      BY <3>1 DEF OuterT
    <3> QED
      BY <1>6, <2>1, <3>2
  <2>2. CASE o \notin os
    BY <1>6, <2>2
  <2> QED
    BY <2>1, <2>2
<1>8. ou3 = ou
  <2>1. ou \in [Outer -> OuterT]
    BY GoodTypes
  <2> QED
    BY <1>7, <2>1
<1> QED
  BY <1>5, <1>8

-----------------------------------------------------------------------------
(* Assignments, and a closure that takes the outer of another one.         *)

SameVars(st, st2) ==
    /\ st2 \in Seq(SlotT) /\ Len(st2) = Len(st)
    /\ \A i \in 1 .. Len(st) : st2[i].var = st[i].var

LEMMA ValueGood ==
  ASSUME NEW st, NEW op, NEW ou, NEW c, Good(st, op, ou, c), NEW st2, SameVars(st, st2)
  PROVE  Good(st2, op, ou, c)
<1>0. /\ st \in Seq(SlotT) /\ Len(st) \in Nat /\ DOMAIN st = 1 .. Len(st)
      /\ st2 \in Seq(SlotT) /\ Len(st2) = Len(st) /\ DOMAIN st2 = 1 .. Len(st)
      /\ \A i \in 1 .. Len(st) : st2[i].var = st[i].var
  BY GoodTypes DEF SameVars
<1>1. /\ Types(st, op, ou, c) /\ OpenOK(st, op, ou) /\ Numbered(st, c) /\ Distinct(st)
      /\ Lexical(st, ou, c) /\ Shared(c) /\ Owned(ou, c)
  BY DEF Good
<1>2. VarsOf(st2) = VarsOf(st)
  BY <1>0 DEF VarsOf
<1>3. Types(st2, op, ou, c)
  BY <1>0, <1>1 DEF Types
<1>4. OpenOK(st2, op, ou)
  BY <1>0, <1>1 DEF OpenOK
<1>5. Numbered(st2, c) /\ Distinct(st2)
  BY <1>0, <1>1 DEF Numbered, Distinct
<1>6. Lexical(st2, ou, c)
  <2> SUFFICES ASSUME NEW k \in Closure, c[k] # NoClosure PROVE LexicalBy(st2, ou, c[k])
    BY DEF Lexical
  <2>1. LexicalBy(st, ou, c[k])
    BY <1>1 DEF Lexical
  <2> QED
    BY <1>0, <1>2, <2>1 DEF LexicalBy
<1> QED
  BY <1>1, <1>3, <1>4, <1>5, <1>6 DEF Good

SamePlaces(ou, ou2) ==
    /\ ou2 \in [Outer -> OuterT]
    /\ \A o \in Outer : ou2[o].at = ou[o].at /\ ou2[o].idx = ou[o].idx

LEMMA OwnGood ==
  ASSUME NEW st, NEW op, NEW ou, NEW c, Good(st, op, ou, c), NEW ou2, SamePlaces(ou, ou2)
  PROVE  Good(st, op, ou2, c)
<1>1. /\ Types(st, op, ou, c) /\ OpenOK(st, op, ou) /\ Numbered(st, c) /\ Distinct(st)
      /\ Lexical(st, ou, c) /\ Shared(c) /\ Owned(ou, c)
  BY DEF Good
<1>2. /\ \A j \in 1 .. Len(op) : op[j] \in Outer
      /\ \A k \in Closure : c[k] # NoClosure => c[k].outer \in Outer
  <2>1. \A k \in Closure : c[k] # NoClosure => c[k] \in [outer : Outer, var : Var]
    BY <1>1 DEF Types, ClosT
  <2> QED
    BY <2>1, GoodOuters
<1>3. Types(st, op, ou2, c)
  BY <1>1 DEF Types, SamePlaces
<1>4. OpenOK(st, op, ou2)
  BY <1>1, <1>2 DEF OpenOK, SamePlaces
<1>5. Lexical(st, ou2, c)
  <2> SUFFICES ASSUME NEW k \in Closure, c[k] # NoClosure PROVE LexicalBy(st, ou2, c[k])
    BY DEF Lexical
  <2>1. LexicalBy(st, ou, c[k])
    BY <1>1 DEF Lexical
  <2> QED
    BY <1>2, <2>1 DEF LexicalBy, SamePlaces
<1>6. Owned(ou2, c)
  BY <1>1 DEF Owned, SamePlaces
<1> QED
  BY <1>1, <1>3, <1>4, <1>5, <1>6 DEF Good

(* One more closure: the others keep what they have.                       *)
Born(c, c2, k) ==
    /\ k \in Closure /\ c[k] = NoClosure /\ c2 \in [Closure -> ClosT]
    /\ \A l \in Closure : l # k => c2[l] = c[l]

LEMMA BornIs ==
  ASSUME NEW st, NEW op, NEW ou, NEW c, Good(st, op, ou, c), NEW c2, NEW k, Born(c, c2, k)
  PROVE  Types(st, op, ou, c2) /\ Numbered(st, c2) /\ Owned(ou, c2)
<1>1. /\ Types(st, op, ou, c) /\ Numbered(st, c) /\ Owned(ou, c) /\ Len(st) \in Nat
  BY GoodTypes DEF Good
<1>2. c[k].var = 0 /\ c[k].outer = 0 /\ Outer \subseteq Nat \ {0}
  <2>1. c[k] = NoClosure
    BY DEF Born
  <2> QED
    BY <2>1, Constants DEF NoClosure
<1>3. \A i \in 1 .. Len(st) : i \in Given(c) => i \in Given(c2)
  <2> SUFFICES ASSUME NEW i \in 1 .. Len(st), NEW l \in Closure, c[l].var = i
               PROVE  \E m \in Closure : c2[m].var = i
    BY DEF Given
  <2>1. l # k
    BY <1>1, <1>2
  <2> QED
    BY <2>1 DEF Born
<1>4. ASSUME NEW o \in Outer, NEW l \in Closure, c[l].outer = o
      PROVE  \E m \in Closure : c2[m].outer = o
  <2>1. l # k
    BY <1>2, <1>4
  <2> QED
    BY <1>4, <2>1 DEF Born
<1>5. Types(st, op, ou, c2)
  BY <1>1 DEF Types, Born
<1>6. Numbered(st, c2)
  BY <1>1, <1>3 DEF Numbered
<1>7. Owned(ou, c2)
  BY <1>1, <1>4 DEF Owned
<1> QED
  BY <1>5, <1>6, <1>7

LEMMA CloneGood ==
  ASSUME NEW st, NEW op, NEW ou, NEW c, Good(st, op, ou, c),
         NEW k \in Closure, NEW l \in Closure, c[k] = NoClosure
  PROVE  Good(st, op, ou, [c EXCEPT ![k] = c[l]])
<1> DEFINE c2 == [c EXCEPT ![k] = c[l]]
<1>1. c \in [Closure -> ClosT] /\ OpenOK(st, op, ou) /\ Distinct(st) /\ Lexical(st, ou, c) /\ Shared(c)
  BY GoodTypes
<1>2. Born(c, c2, k) /\ c2[k] = c[l]
  BY <1>1 DEF Born
<1> HIDE DEF c2
<1>3. Types(st, op, ou, c2) /\ Numbered(st, c2) /\ Owned(ou, c2)
  BY <1>2, BornIs
<1>4. \A m \in Closure : \E n \in Closure : c2[m] = c[n]
  BY <1>2 DEF Born
<1>5. Lexical(st, ou, c2)
  BY <1>1, <1>4 DEF Lexical
<1>6. Shared(c2)
  <2> SUFFICES ASSUME NEW a \in Closure, NEW b \in Closure
               PROVE  c2[a].var = c2[b].var <=> c2[a].outer = c2[b].outer
    BY DEF Shared
  <2>1. PICK m \in Closure, n \in Closure : c2[a] = c[m] /\ c2[b] = c[n]
    BY <1>4
  <2> QED
    BY <1>1, <2>1 DEF Shared
<1>7. Good(st, op, ou, c2)
  BY <1>1, <1>3, <1>5, <1>6 DEF Good
<1> QED
  BY <1>7 DEF c2
-----------------------------------------------------------------------------
(* FindOuter.                                                              *)

LEMMA InsertIs ==
  ASSUME NEW S, NEW s \in Seq(S), NEW e \in S, NEW n \in 0 .. Len(s)
  PROVE  /\ InsertAt(s, n + 1, e) \in Seq(S) /\ Len(InsertAt(s, n + 1, e)) = Len(s) + 1
         /\ \A i \in 1 .. Len(s) + 1 :
               InsertAt(s, n + 1, e)[i] = IF i <= n THEN s[i] ELSE IF i = n + 1 THEN e ELSE s[i - 1]
<1> DEFINE a == SubSeq(s, 1, n)
           z == SubSeq(s, n + 1, Len(s))
           m == a \o <<e>>
           t == m \o z
<1>0. n \in Nat /\ n <= Len(s) /\ Len(s) \in Nat /\ (n + 1) - 1 = n
  OBVIOUS
<1>1. InsertAt(s, n + 1, e) = t
  BY <1>0 DEF InsertAt
<1>2. a \in Seq(S) /\ Len(a) = n /\ \A i \in 1 .. n : a[i] = s[i]
  BY FirstOf
<1>3. z \in Seq(S) /\ Len(z) = Len(s) - n /\ \A i \in 1 .. Len(s) - n : z[i] = s[n + i]
  BY RestOf
<1> HIDE DEF a, z
<1>4. <<e>> \in Seq(S) /\ Len(<<e>>) = 1 /\ <<e>>[1] = e
  OBVIOUS
<1>5. m \in Seq(S) /\ Len(m) = n + 1 /\ \A i \in 1 .. n + 1 : m[i] = IF i <= n THEN s[i] ELSE e
  BY <1>0, <1>2, <1>4, ConcatProperties
<1> HIDE DEF m
<1>6. t \in Seq(S) /\ Len(t) = Len(s) + 1
      /\ \A i \in 1 .. Len(s) + 1 : t[i] = IF i <= n + 1 THEN m[i] ELSE z[i - (n + 1)]
  <2>1. /\ t \in Seq(S) /\ Len(t) = Len(m) + Len(z)
        /\ \A i \in 1 .. Len(m) + Len(z) : t[i] = IF i <= Len(m) THEN m[i] ELSE z[i - Len(m)]
    BY <1>3, <1>5, ConcatProperties
  <2>2. Len(m) = n + 1 /\ Len(m) + Len(z) = Len(s) + 1
    BY <1>0, <1>3, <1>5
  <2> QED
    BY <2>1, <2>2
<1> HIDE DEF t
<1>7. ASSUME NEW i \in 1 .. Len(s) + 1
      PROVE  t[i] = IF i <= n THEN s[i] ELSE IF i = n + 1 THEN e ELSE s[i - 1]
  <2>1. CASE i <= n + 1
    BY <1>0, <1>5, <1>6, <2>1
  <2>2. CASE ~(i <= n + 1)
    <3>1. i - (n + 1) \in 1 .. Len(s) - n /\ n + (i - (n + 1)) = i - 1
      BY <1>0, <2>2
    <3>2. z[i - (n + 1)] = s[i - 1]
      BY <1>3, <3>1
    <3>3. t[i] = z[i - (n + 1)]
      BY <1>6, <2>2
    <3> QED
      BY <1>0, <2>2, <3>2, <3>3
  <2> QED
    BY <2>1, <2>2
<1> QED
  BY <1>1, <1>6, <1>7

(* An outer is free as long as a closure has none: each of the others is   *)
(* that of another closure.                                                *)
LEMMA FreeOuter ==
  ASSUME NEW st, NEW op, NEW ou, NEW c, Good(st, op, ou, c), NEW k \in Closure, c[k] = NoClosure
  PROVE  \E x \in Outer : ou[x].at = "free"
<1> SUFFICES ASSUME \A x \in Outer : ou[x].at # "free" PROVE FALSE
  OBVIOUS
<1> DEFINE f == [x \in Outer |-> CHOOSE l \in Closure : c[l].outer = x]
<1>1. \A x \in Outer : \E l \in Closure : c[l].outer = x
  BY GoodTypes DEF Owned
<1>2. \A x \in Outer : f[x] \in Closure /\ c[f[x]].outer = x
  BY <1>1
<1>3. c[k].outer = 0 /\ 0 \notin Outer
  BY Constants DEF NoClosure
<1>4. DOMAIN f = Outer
  OBVIOUS
<1>4a. f \in [Outer -> Closure \ {k}]
  <2>1. \A x \in Outer : f[x] \in Closure \ {k}
    BY <1>2, <1>3
  <2> HIDE DEF f
  <2>2. f = [x \in Outer |-> f[x]]
    BY <1>4 DEF f
  <2> QED
    BY <2>1, <2>2
<1> HIDE DEF f
<1>5. f \in Injection(Outer, Closure \ {k})
  BY <1>2, <1>4a DEF Injection, IsInjective
<1>6. /\ IsFiniteSet(Closure \ {k}) /\ Cardinality(Closure \ {k}) = Cardinality(Closure) - 1
  BY Constants, FS_RemoveElement
<1>7. Cardinality(Outer) <= Cardinality(Closure \ {k})
  BY <1>5, <1>6, FS_Injection
<1> QED
  BY <1>6, <1>7, Constants

(* A closure that captures slot s.                                         *)
Captures(c, k, o, st, s) == [c EXCEPT ![k] = [outer |-> o, var |-> st[s].var]]

LEMMA CapturesIs ==
  ASSUME NEW st, NEW op, NEW ou, NEW c, Good(st, op, ou, c), NEW k \in Closure, c[k] = NoClosure,
         NEW o \in Outer, NEW s \in 1 .. Len(st)
  PROVE  /\ Born(c, Captures(c, k, o, st, s), k)
         /\ Captures(c, k, o, st, s)[k] = [outer |-> o, var |-> st[s].var]
         /\ st[s].var \in Var
<1>1. c \in [Closure -> ClosT] /\ st[s].var \in Var
  BY GoodTypes, GoodOuters
<1>2. [outer |-> o, var |-> st[s].var] \in ClosT
  BY <1>1 DEF ClosT
<1> QED
  BY <1>1, <1>2 DEF Born, Captures

(* If closures with the same variable share an outer and no others do.     *)
LEMMA SharedToo ==
  ASSUME NEW c, NEW c2, NEW k, Born(c, c2, k), Shared(c), c2[k].var # 0, c2[k].outer # 0,
         \A l \in Closure : c[l] # NoClosure => (c[l].var = c2[k].var <=> c[l].outer = c2[k].outer)
  PROVE  Shared(c2)
<1>1. ASSUME NEW l \in Closure, l # k
      PROVE  c2[l].var = c2[k].var <=> c2[l].outer = c2[k].outer
  <2>1. c2[l] = c[l]
    BY <1>1 DEF Born
  <2>2. CASE c[l] = NoClosure
    BY <2>1, <2>2 DEF NoClosure
  <2>3. CASE c[l] # NoClosure
    BY <2>1, <2>3
  <2> QED
    BY <2>2, <2>3
<1> SUFFICES ASSUME NEW a \in Closure, NEW b \in Closure
             PROVE  c2[a].var = c2[b].var <=> c2[a].outer = c2[b].outer
  BY DEF Shared
<1>2. CASE a = k
  BY <1>1, <1>2
<1>3. CASE b = k
  BY <1>1, <1>3
<1>4. CASE a # k /\ b # k
  BY <1>4 DEF Born, Shared
<1> QED
  BY <1>2, <1>3, <1>4

(* The outer of a closure is open or has its own value.                    *)
LEMMA ClosureOuter ==
  ASSUME NEW st, NEW op, NEW ou, NEW c, Good(st, op, ou, c), NEW l \in Closure, c[l] # NoClosure
  PROVE  /\ c[l].outer \in Outer /\ c[l].var \in Var /\ LexicalBy(st, ou, c[l])
         /\ ou[c[l].outer].at = "own" \/ \E j \in 1 .. Len(op) : op[j] = c[l].outer
<1>1. c[l] \in [outer : Outer, var : Var]
  BY GoodTypes DEF ClosT
<1>2. LexicalBy(st, ou, c[l]) /\ OpenOK(st, op, ou)
  BY GoodTypes DEF Lexical
<1>3. ou[c[l].outer].at = "own" \/ ou[c[l].outer].at = "stack"
  BY <1>2 DEF LexicalBy
<1>4. c[l].outer \in Outer /\ c[l].var \in Var
  BY <1>1
<1>5. ou[c[l].outer].at = "own" \/ \E j \in 1 .. Len(op) : op[j] = c[l].outer
  BY <1>2, <1>3, <1>4 DEF OpenOK
<1> QED
  BY <1>2, <1>4, <1>5

LEMMA FoundGood ==
  ASSUME NEW st, NEW op, NEW ou, NEW c, Good(st, op, ou, c), NEW k \in Closure, c[k] = NoClosure,
         NEW j \in 1 .. Len(op), NEW s, s = ou[op[j]].idx
  PROVE  Good(st, op, ou, Captures(c, k, op[j], st, s))
<1> DEFINE o == op[j]
           c2 == Captures(c, k, o, st, s)
<1>1. /\ o \in Outer /\ ou[o].at = "stack" /\ s \in 1 .. Len(st)
      /\ \A i \in 1 .. Len(op) : ou[op[i]].idx = s => op[i] = o
  <2>1. o \in Outer /\ ou[o].at = "stack" /\ s \in 1 .. Len(st) /\ OpenOK(st, op, ou) /\ Len(op) \in Nat
    BY GoodOuters, GoodTypes
  <2>2. ASSUME NEW i \in 1 .. Len(op), ou[op[i]].idx = s PROVE i = j
    <3>1. ~(i < j) /\ ~(j < i)
      BY <2>1, <2>2 DEF OpenOK
    <3> QED
      BY <2>1, <3>1
  <2> QED
    BY <2>1, <2>2
<1>2. /\ OpenOK(st, op, ou) /\ Distinct(st) /\ Lexical(st, ou, c) /\ Shared(c)
      /\ DOMAIN st = 1 .. Len(st)
  BY GoodTypes
<1>3. Born(c, c2, k) /\ c2[k] = [outer |-> o, var |-> st[s].var] /\ st[s].var \in Var
  BY <1>1, CapturesIs
<1> HIDE DEF c2
<1>4. Types(st, op, ou, c2) /\ Numbered(st, c2) /\ Owned(ou, c2)
  BY <1>3, BornIs
<1>5. c2[k].outer = o /\ c2[k].var = st[s].var
  BY <1>3
<1> HIDE DEF o
<1>6. Lexical(st, ou, c2)
  <2>1. LexicalBy(st, ou, c2[k])
    BY <1>1, <1>2, <1>5 DEF LexicalBy, VarsOf, o
  <2> QED
    BY <1>2, <1>3, <2>1 DEF Lexical, Born
<1>7. ASSUME NEW l \in Closure, c[l] # NoClosure
      PROVE  c[l].var = st[s].var <=> c[l].outer = o
  <2>1. LexicalBy(st, ou, c[l])
    BY <1>2, <1>7 DEF Lexical
  <2>2. ASSUME c[l].var = st[s].var PROVE c[l].outer = o
    <3>1. c[l].var \in VarsOf(st)
      BY <1>1, <1>2, <2>2 DEF VarsOf
    <3>2. ou[c[l].outer].at = "stack" /\ ou[c[l].outer].idx = s
      BY <1>1, <1>2, <2>1, <2>2, <3>1 DEF LexicalBy, Distinct
    <3>3. PICK i \in 1 .. Len(op) : op[i] = c[l].outer
      BY <1>7, <3>2, ClosureOuter
    <3> QED
      BY <1>1, <3>2, <3>3
  <2>3. ASSUME c[l].outer = o PROVE c[l].var = st[s].var
    BY <1>1, <2>1, <2>3 DEF LexicalBy, o
  <2> QED
    BY <2>2, <2>3
<1>8. st[s].var # 0 /\ o # 0
  BY <1>1, <1>3, Constants, SMTT(30)
<1>9. Shared(c2)
  BY <1>2, <1>3, <1>5, <1>7, <1>8, SharedToo
<1>10. Good(st, op, ou, c2)
  BY <1>2, <1>4, <1>6, <1>9 DEF Good
<1> QED
  BY <1>10 DEF c2, o

AtSlot(s) == [at |-> "stack", idx |-> s, value |-> NoVal]

(* A walk that stops before the nth outer as it is below slot s.           *)
WalkTo(op, ou, s, n) ==
    \A j \in 1 .. Len(op) : (ou[op[j]].idx >= s <=> j <= n) /\ ou[op[j]].idx # s

LEMMA InsertGood ==
  ASSUME NEW st, NEW op, NEW ou, NEW c, Good(st, op, ou, c), NEW k \in Closure, c[k] = NoClosure,
         NEW s \in 1 .. Len(st), NEW n \in 0 .. Len(op), WalkTo(op, ou, s, n),
         NEW o \in Outer, ou[o].at = "free"
  PROVE  Good(st, InsertAt(op, n + 1, o), [ou EXCEPT ![o] = AtSlot(s)], Captures(c, k, o, st, s))
<1> DEFINE op2 == InsertAt(op, n + 1, o)
           ou2 == [ou EXCEPT ![o] = AtSlot(s)]
           c2 == Captures(c, k, o, st, s)
<1>1. /\ OpenOK(st, op, ou) /\ Distinct(st) /\ Lexical(st, ou, c) /\ Shared(c)
      /\ DOMAIN st = 1 .. Len(st) /\ op \in Seq(Outer) /\ Len(op) \in Nat /\ Len(st) \in Nat
      /\ ou \in [Outer -> OuterT]
  BY GoodTypes
<1>2. \A j \in 1 .. Len(op) : /\ op[j] \in Outer /\ op[j] # o /\ ou[op[j]].at = "stack"
                              /\ ou[op[j]].idx \in 1 .. Len(st)
  BY GoodOuters
<1>3. Born(c, c2, k) /\ c2[k] = [outer |-> o, var |-> st[s].var] /\ st[s].var \in Var
  BY CapturesIs
<1>4. /\ op2 \in Seq(Outer) /\ Len(op2) = Len(op) + 1
      /\ \A i \in 1 .. Len(op) + 1 :
               op2[i] = IF i <= n THEN op[i] ELSE IF i = n + 1 THEN o ELSE op[i - 1]
  BY <1>1, InsertIs
<1>5. /\ ou2 \in [Outer -> OuterT] /\ ou2[o].at = "stack" /\ ou2[o].idx = s
      /\ \A x \in Outer : x # o => ou2[x] = ou[x]
  <2>1. AtSlot(s) \in OuterT /\ AtSlot(s).at = "stack" /\ AtSlot(s).idx = s
    BY <1>1 DEF AtSlot, OuterT
  <2> QED
    BY <1>1, <2>1
<1> HIDE DEF op2, ou2, c2
<1>6. c2[k].outer = o /\ c2[k].var = st[s].var
  BY <1>3
<1>7. Types(st, op, ou, c2) /\ Numbered(st, c2) /\ Owned(ou, c2)
  BY <1>3, BornIs
<1>8. Types(st, op2, ou2, c2)
  BY <1>4, <1>5, <1>7 DEF Types
<1>9. OpenOK(st, op2, ou2)
  <2>1. ASSUME NEW i \in 1 .. Len(op2)
        PROVE  \/ i = n + 1 /\ op2[i] = o
               \/ i <= n /\ i \in 1 .. Len(op) /\ op2[i] = op[i]
               \/ i > n + 1 /\ i - 1 \in 1 .. Len(op) /\ op2[i] = op[i - 1]
    <3>0. n \in Nat /\ n <= Len(op) /\ i \in 1 .. Len(op) + 1
      BY <1>4
    <3>1. op2[i] = IF i <= n THEN op[i] ELSE IF i = n + 1 THEN o ELSE op[i - 1]
      BY <1>4
    <3> QED
      BY <1>1, <3>0, <3>1, SMTT(30)
  <2>2. ASSUME NEW i \in 1 .. Len(op2)
        PROVE  ou2[op2[i]].at = "stack" /\ ou2[op2[i]].idx \in 1 .. Len(st)
    <3>1. op2[i] = o \/ \E j \in 1 .. Len(op) : op2[i] = op[j]
      BY <2>1
    <3>2. CASE op2[i] = o
      BY <1>5, <3>2
    <3>3. ASSUME NEW j \in 1 .. Len(op), op2[i] = op[j]
          PROVE  ou2[op2[i]].at = "stack" /\ ou2[op2[i]].idx \in 1 .. Len(st)
      BY <1>2, <1>5, <3>3
    <3> QED
      BY <3>1, <3>2, <3>3
  <2>3. ASSUME NEW i \in 1 .. Len(op2), NEW j \in 1 .. Len(op2), i < j
        PROVE  ou2[op2[i]].idx > ou2[op2[j]].idx
    <3>1. ASSUME NEW a \in 1 .. Len(op), NEW b \in 1 .. Len(op), a < b
          PROVE  ou[op[a]].idx > ou[op[b]].idx
      BY <1>1, <3>1 DEF OpenOK
    <3>2. ASSUME NEW a \in 1 .. Len(op), a <= n PROVE ou[op[a]].idx > s
      <4>1. ou[op[a]].idx >= s /\ ou[op[a]].idx # s
        BY <3>2 DEF WalkTo
      <4> QED
        BY <1>2, <1>1, <4>1
    <3>3. ASSUME NEW a \in 1 .. Len(op), a > n PROVE s > ou[op[a]].idx
      <4>1. ~(ou[op[a]].idx >= s)
        BY <3>3 DEF WalkTo
      <4> QED
        BY <1>2, <1>1, <4>1
    <3>4. CASE i = n + 1
      <4>1. j > n + 1 /\ j - 1 \in 1 .. Len(op) /\ op2[j] = op[j - 1] /\ j - 1 > n
        BY <1>1, <2>1, <2>3, <3>4
      <4> QED
        BY <1>2, <1>5, <2>1, <3>3, <3>4, <4>1, SMTT(30)
    <3>5. CASE i <= n
      <4>1. ou2[op2[i]] = ou[op[i]] /\ i \in 1 .. Len(op)
        BY <1>2, <1>5, <2>1, <3>5
      <4>2. CASE j = n + 1
        <5>1. op2[j] = o
          BY <2>1, <4>2
        <5>2. ou2[op2[j]].idx = s
          BY <1>5, <5>1
        <5> QED
          BY <3>2, <3>5, <4>1, <5>2
      <4>3. CASE j <= n
        BY <1>2, <1>5, <2>1, <2>3, <3>1, <4>1, <4>3
      <4>4. CASE j > n + 1
        <5>1. j - 1 \in 1 .. Len(op) /\ op2[j] = op[j - 1] /\ i < j - 1
          BY <1>1, <2>1, <3>5, <4>4
        <5> QED
          BY <1>2, <1>5, <3>1, <4>1, <5>1, SMTT(30)
      <4> QED
        BY <2>1, <4>2, <4>3, <4>4
    <3>6. CASE i > n + 1
      <4>1. i - 1 \in 1 .. Len(op) /\ op2[i] = op[i - 1]
        BY <1>1, <2>1, <3>6
      <4>2. j - 1 \in 1 .. Len(op) /\ op2[j] = op[j - 1] /\ i - 1 < j - 1
        BY <1>1, <2>1, <2>3, <3>6
      <4> QED
        BY <1>2, <1>5, <3>1, <4>1, <4>2
    <3> QED
      BY <2>1, <3>4, <3>5, <3>6
  <2>4. ASSUME NEW x \in Outer, ou2[x].at \notin {"free", "own"}
        PROVE  \E j \in 1 .. Len(op2) : op2[j] = x
    <3>1. CASE x = o
      <4>1. n + 1 \in 1 .. Len(op2) /\ op2[n + 1] = o
        BY <1>1, <1>4
      <4> QED
        BY <3>1, <4>1
    <3>2. CASE x # o
      <4>1. PICK j \in 1 .. Len(op) : op[j] = x
        BY <1>1, <1>5, <2>4, <3>2 DEF OpenOK
      <4>2. CASE j <= n
        <5>1. j \in 1 .. Len(op2) /\ op2[j] = op[j]
          BY <1>1, <1>4, <4>2
        <5> QED
          BY <4>1, <5>1
      <4>3. CASE ~(j <= n)
        <5>1. /\ j + 1 \in 1 .. Len(op2) /\ ~(j + 1 <= n) /\ j + 1 # n + 1 /\ (j + 1) - 1 = j
          BY <1>1, <1>4, <4>3
        <5>2. op2[j + 1] = op[j]
          BY <1>4, <5>1
        <5> QED
          BY <4>1, <5>1, <5>2
      <4> QED
        BY <4>2, <4>3
    <3> QED
      BY <3>1, <3>2
  <2> QED
    BY <2>2, <2>3, <2>4 DEF OpenOK
<1>10. \A l \in Closure : c[l] # NoClosure => c[l].outer \in Outer /\ c[l].outer # o
  <2> SUFFICES ASSUME NEW l \in Closure, c[l] # NoClosure
               PROVE  c[l].outer \in Outer /\ c[l].outer # o
    OBVIOUS
  <2>1. /\ c[l].outer \in Outer
        /\ ou[c[l].outer].at = "own" \/ \E j \in 1 .. Len(op) : op[j] = c[l].outer
    BY ClosureOuter
  <2> QED
    BY <1>2, <2>1
<1>11. Lexical(st, ou2, c2)
  <2>1. LexicalBy(st, ou2, c2[k])
    BY <1>1, <1>5, <1>6 DEF LexicalBy, VarsOf
  <2>2. ASSUME NEW l \in Closure, l # k, c2[l] # NoClosure PROVE LexicalBy(st, ou2, c2[l])
    <3>1. c2[l] = c[l]
      BY <1>3, <2>2 DEF Born
    <3>2. LexicalBy(st, ou, c[l]) /\ ou2[c[l].outer] = ou[c[l].outer]
      BY <1>1, <1>5, <1>10, <2>2, <3>1 DEF Lexical
    <3> QED
      BY <3>1, <3>2 DEF LexicalBy
  <2> QED
    BY <2>1, <2>2 DEF Lexical
<1>12. ASSUME NEW l \in Closure, c[l] # NoClosure PROVE c[l].var # st[s].var
  <2> SUFFICES ASSUME c[l].var = st[s].var PROVE FALSE
    OBVIOUS
  <2>1. LexicalBy(st, ou, c[l])
    BY <1>1, <1>12 DEF Lexical
  <2>2. c[l].var \in VarsOf(st)
    BY <1>1 DEF VarsOf
  <2>3. ou[c[l].outer].at = "stack" /\ ou[c[l].outer].idx = s
    BY <1>1, <2>1, <2>2 DEF LexicalBy, Distinct
  <2>4. PICK i \in 1 .. Len(op) : op[i] = c[l].outer
    BY <1>12, <2>3, ClosureOuter
  <2> QED
    BY <2>3, <2>4 DEF WalkTo
<1>13. Shared(c2)
  <2>1. c2[k].var # 0 /\ c2[k].outer # 0
    BY <1>3, <1>6, Constants
  <2>2. \A l \in Closure : c[l] # NoClosure => (c[l].var = c2[k].var <=> c[l].outer = c2[k].outer)
    BY <1>6, <1>10, <1>12
  <2> QED
    BY <1>1, <1>3, <2>1, <2>2, SharedToo
<1>14. Owned(ou2, c2)
  <2> SUFFICES ASSUME NEW x \in Outer, ou2[x].at # "free" PROVE \E l \in Closure : c2[l].outer = x
    BY DEF Owned
  <2>1. CASE x = o
    BY <1>6, <2>1
  <2>2. CASE x # o
    BY <1>5, <1>7, <2>2 DEF Owned
  <2> QED
    BY <2>1, <2>2
<1>15. Good(st, op2, ou2, c2)
  BY <1>1, <1>7, <1>8, <1>9, <1>11, <1>13, <1>14 DEF Good
<1> QED
  BY <1>15 DEF op2, ou2, c2
-----------------------------------------------------------------------------
(* The frames.                                                             *)

LEMMA FrameParts ==
  ASSUME NEW f \in FrameT, NEW e \in Nat, FrameOK(f, e)
  PROVE  /\ f.base \in Nat /\ f.base + 1 <= e /\ e - f.base \in 1 .. MaxLocals
         /\ f.scopes \in Seq(ScopeT) /\ Len(f.scopes) \in Nat /\ Len(f.scopes) >= 1
         /\ DOMAIN f.scopes = 1 .. Len(f.scopes) /\ f.scopes[1].size = 1
         /\ \A b \in 1 .. Len(f.scopes) :
               /\ f.scopes[b] \in ScopeT /\ f.scopes[b].size \in Nat
               /\ f.base + f.scopes[b].size <= e
         /\ \A a, b \in 1 .. Len(f.scopes) : a <= b => f.scopes[a].size <= f.scopes[b].size
<1>1. f.base \in Nat /\ f.scopes \in Seq(ScopeT)
  BY DEF FrameT
<1>2. f.base <= e /\ e - f.base <= MaxLocals /\ f.scopes # <<>> /\ f.scopes[1].size = 1
      /\ MaxLocals \in Nat
  BY Constants DEF FrameOK
<1>3. Len(f.scopes) \in Nat /\ Len(f.scopes) >= 1 /\ DOMAIN f.scopes = 1 .. Len(f.scopes)
  BY <1>1, <1>2, EmptySeq
<1>4. \A b \in 1 .. Len(f.scopes) : f.scopes[b] \in ScopeT
  BY <1>1, ElementOfSeq
<1>5. \A b \in 1 .. Len(f.scopes) : f.scopes[b].size \in Nat
  <2>1. \A b \in 1 .. Len(f.scopes) : f.scopes[b].size \in 0 .. MaxLocals
    BY <1>4 DEF ScopeT
  <2> QED
    BY <2>1
<1>6. \A b \in 1 .. Len(f.scopes) : f.base + f.scopes[b].size <= e
  BY DEF FrameOK
<1>7. \A a, b \in 1 .. Len(f.scopes) : a <= b => f.scopes[a].size <= f.scopes[b].size
  BY DEF FrameOK
<1>8. f.base + 1 <= e
  BY <1>2, <1>3, <1>6
<1>9. e - f.base \in 1 .. MaxLocals
  BY <1>1, <1>2, <1>8
<1> QED
  BY <1>1, <1>2, <1>3, <1>4, <1>5, <1>6, <1>7, <1>8, <1>9

(* The locals of a frame end at or below the top of the stack.             *)
LEMMA EndIs ==
  ASSUME NEW fr, NEW e \in Nat, Shape(fr, e), NEW d \in 0 .. Len(fr)
  PROVE  End(fr, e, d) \in 0 .. e
<1> DEFINE n == Len(fr)
           T == {a \in 0 .. n : ~(End(fr, e, a) <= e)}
<1>1. fr \in Seq(FrameT) /\ n \in Nat /\ \A a \in 1 .. n : fr[a] \in FrameT /\ FrameOK(fr[a], End(fr, e, a))
  BY ElementOfSeq DEF Shape
<1>2. \A a \in 0 .. n : a # n => a + 1 \in 1 .. n /\ End(fr, e, a) = fr[a + 1].base
  BY <1>1 DEF End
<1>3. \A a \in 0 .. n : End(fr, e, a) \in Nat
  <2>1. \A a \in 1 .. n : fr[a].base \in Nat
    BY <1>1 DEF FrameT
  <2>2. End(fr, e, n) = e
    BY DEF End
  <2> QED
    BY <1>2, <2>1, <2>2
<1>4. T = {}
  <2> SUFFICES ASSUME T # {} PROVE FALSE
    OBVIOUS
  <2>1. T \in SUBSET Nat /\ \A a \in T : a <= n
    BY <1>1
  <2> DEFINE a == Max(T)
  <2>2. a \in T /\ \A y \in T : y <= a
    BY <1>1, <2>1, GreatestNumber
  <2> HIDE DEF a
  <2>3. a \in 0 .. n /\ ~(End(fr, e, a) <= e)
    BY <2>2
  <2>4. a # n
    BY <2>3 DEF End
  <2>5. a + 1 \in 1 .. n /\ End(fr, e, a) = fr[a + 1].base /\ a + 1 \in 0 .. n
    BY <1>1, <1>2, <2>3, <2>4
  <2>6. End(fr, e, a + 1) <= e
    <3>1. ~(a + 1 <= a)
      BY <2>3
    <3> QED
      BY <2>2, <2>5, <3>1
  <2>7. fr[a + 1].base <= End(fr, e, a + 1)
    BY <1>1, <2>5 DEF FrameOK
  <2> QED
    BY <1>3, <2>3, <2>5, <2>6, <2>7
<1> QED
  BY <1>3, <1>4

LEMMA TopIs ==
  ASSUME NEW fr, NEW e \in Nat, Shape(fr, e), fr # <<>>
  PROVE  /\ fr \in Seq(FrameT) /\ Len(fr) \in Nat /\ Len(fr) >= 1
         /\ Last(fr) = fr[Len(fr)] /\ Last(fr) \in FrameT /\ FrameOK(Last(fr), e)
<1>1. fr \in Seq(FrameT) /\ Len(fr) \in Nat /\ Len(fr) >= 1
  BY EmptySeq DEF Shape
<1>2. Len(fr) \in 1 .. Len(fr)
  BY <1>1
<1>3. fr[Len(fr)] \in FrameT
  BY <1>1, <1>2, ElementOfSeq
<1>4. FrameOK(fr[Len(fr)], e)
  <2>1. End(fr, e, Len(fr)) = e
    BY DEF End
  <2> QED
    BY <1>2, <2>1 DEF Shape
<1> QED
  BY <1>1, <1>3, <1>4 DEF Last

LEMMA ShapeLeave ==
  ASSUME NEW fr, NEW e \in Nat, Shape(fr, e), NEW d \in 0 .. Len(fr)
  PROVE  Shape(SubSeq(fr, 1, d), End(fr, e, d))
<1> DEFINE f2 == SubSeq(fr, 1, d)
<1>1. fr \in Seq(FrameT) /\ Len(fr) \in Nat /\ d \in Nat /\ d <= Len(fr)
  BY DEF Shape
<1>2. f2 \in Seq(FrameT) /\ Len(f2) = d /\ \A a \in 1 .. d : f2[a] = fr[a]
  BY <1>1, FirstOf
<1> HIDE DEF f2
<1>3. \A a \in 0 .. d : End(f2, End(fr, e, d), a) = End(fr, e, a)
  <2> SUFFICES ASSUME NEW a \in 0 .. d PROVE End(f2, End(fr, e, d), a) = End(fr, e, a)
    OBVIOUS
  <2>1. CASE a = d
    BY <1>2, <2>1 DEF End
  <2>2. CASE a # d
    <3>1. a + 1 \in 1 .. d /\ a # Len(fr)
      BY <1>1, <2>2
    <3> QED
      BY <1>2, <2>2, <3>1 DEF End
  <2> QED
    BY <2>1, <2>2
<1>4. End(f2, End(fr, e, d), 0) = 0
  BY <1>1, <1>3 DEF Shape
<1>5. ASSUME NEW a \in 1 .. d PROVE FrameOK(f2[a], End(f2, End(fr, e, d), a))
  <2>1. a \in 1 .. Len(fr) /\ a \in 0 .. d
    BY <1>1
  <2> QED
    BY <1>2, <1>3, <2>1 DEF Shape
<1>6. Shape(f2, End(fr, e, d))
  BY <1>2, <1>4, <1>5 DEF Shape
<1> QED
  BY <1>6 DEF f2

LEMMA ShapeTop ==
  ASSUME NEW fr, NEW e \in Nat, Shape(fr, e), fr # <<>>,
         NEW f \in FrameT, NEW e2, f.base = Last(fr).base, FrameOK(f, e2)
  PROVE  Shape([fr EXCEPT ![Len(fr)] = f], e2)
<1> DEFINE f2 == [fr EXCEPT ![Len(fr)] = f]
           n == Len(fr)
<1>1. fr \in Seq(FrameT) /\ n \in Nat /\ n >= 1 /\ Last(fr) = fr[n]
  BY TopIs
<1>2. /\ f2 \in Seq(FrameT) /\ Len(f2) = n /\ f2[n] = f
      /\ \A a \in 1 .. n : a # n => f2[a] = fr[a]
  <2>1. n \in 1 .. n
    BY <1>1
  <2> QED
    BY <1>1, <2>1, ExceptSeq
<1> HIDE DEF f2
<1>3. \A a \in 0 .. n : a # n => End(f2, e2, a) = End(fr, e, a)
  <2> SUFFICES ASSUME NEW a \in 0 .. n, a # n PROVE End(f2, e2, a) = End(fr, e, a)
    OBVIOUS
  <2>1. a + 1 \in 1 .. n
    BY <1>1
  <2>2. f2[a + 1].base = fr[a + 1].base
    BY <1>1, <1>2, <2>1
  <2> QED
    BY <1>2, <2>2 DEF End
<1>4. End(f2, e2, 0) = 0
  BY <1>1, <1>3 DEF Shape
<1>5. ASSUME NEW a \in 1 .. n PROVE FrameOK(f2[a], End(f2, e2, a))
  <2>1. CASE a = n
    BY <1>2, <2>1 DEF End
  <2>2. CASE a # n
    BY <1>2, <1>3, <2>2 DEF Shape
  <2> QED
    BY <2>1, <2>2
<1>6. Shape(f2, e2)
  BY <1>2, <1>4, <1>5 DEF Shape
<1> QED
  BY <1>6 DEF f2

LEMMA ShapePush ==
  ASSUME NEW fr, NEW e \in Nat, Shape(fr, e), NEW f \in FrameT, f.base = e, NEW e2, FrameOK(f, e2)
  PROVE  Shape(Append(fr, f), e2)
<1> DEFINE f2 == Append(fr, f)
           n == Len(fr)
<1>1. fr \in Seq(FrameT) /\ n \in Nat
  BY DEF Shape
<1>2. f2 \in Seq(FrameT) /\ Len(f2) = n + 1 /\ f2[n + 1] = f /\ \A a \in 1 .. n : f2[a] = fr[a]
  BY <1>1, AppendProperties
<1> HIDE DEF f2
<1>3. \A a \in 0 .. n : End(f2, e2, a) = End(fr, e, a)
  <2> SUFFICES ASSUME NEW a \in 0 .. n PROVE End(f2, e2, a) = End(fr, e, a)
    OBVIOUS
  <2>1. CASE a = n
    BY <1>1, <1>2, <2>1 DEF End
  <2>2. CASE a # n
    <3>1. a + 1 \in 1 .. n /\ a # n + 1
      BY <1>1, <2>2
    <3> QED
      BY <1>2, <2>2, <3>1 DEF End
  <2> QED
    BY <2>1, <2>2
<1>4. End(f2, e2, 0) = 0
  BY <1>1, <1>3 DEF Shape
<1>5. ASSUME NEW a \in 1 .. n + 1 PROVE FrameOK(f2[a], End(f2, e2, a))
  <2>1. CASE a = n + 1
    BY <1>2, <2>1 DEF End
  <2>2. CASE a # n + 1
    <3>1. a \in 1 .. n /\ a \in 0 .. n
      BY <1>1, <2>2
    <3> QED
      BY <1>2, <1>3, <3>1 DEF Shape
  <2> QED
    BY <2>1, <2>2
<1>6. Shape(f2, e2)
  BY <1>2, <1>4, <1>5 DEF Shape
<1> QED
  BY <1>6 DEF f2

(* More locals in the frame on top.                                        *)
LEMMA ShapeMore ==
  ASSUME NEW fr, NEW e \in Nat, Shape(fr, e), fr # <<>>,
         NEW e2 \in Nat, e <= e2, e2 - Last(fr).base <= MaxLocals
  PROVE  Shape(fr, e2)
<1>1. /\ fr \in Seq(FrameT) /\ Len(fr) \in Nat /\ Len(fr) >= 1
      /\ Last(fr) = fr[Len(fr)] /\ Last(fr) \in FrameT /\ FrameOK(Last(fr), e)
  BY TopIs
<1> DEFINE f == Last(fr)
<1>2. FrameOK(f, e2)
  <2>1. /\ f.base \in Nat /\ Len(f.scopes) \in Nat
        /\ \A b \in 1 .. Len(f.scopes) : f.scopes[b].size \in Nat
    BY <1>1, FrameParts
  <2>2. \A b \in 1 .. Len(f.scopes) : f.base + f.scopes[b].size <= e2
    BY <1>1, <2>1 DEF FrameOK
  <2>3. f.base <= e2
    BY <1>1, <2>1 DEF FrameOK
  <2> QED
    BY <1>1, <2>2, <2>3 DEF FrameOK
<1> HIDE DEF f
<1>3. Shape([fr EXCEPT ![Len(fr)] = f], e2)
  BY <1>1, <1>2, ShapeTop DEF f
<1>4. [fr EXCEPT ![Len(fr)] = f] = fr
  BY <1>1 DEF f
<1> QED
  BY <1>3, <1>4

-----------------------------------------------------------------------------
(* The VM as a whole.                                                      *)

LEMMA FineIs ==
  ASSUME NEW w, NEW c, Fine(w, c)
  PROVE  /\ w = VmOf(w.stack, w.frames, w.open, w.outers)
         /\ Good(w.stack, w.open, w.outers, c) /\ Shape(w.frames, Len(w.stack))
         /\ w.stack \in Seq(SlotT) /\ Len(w.stack) \in Nat /\ Len(w.stack) <= MaxStack
         /\ w.frames \in Seq(FrameT) /\ Len(w.frames) \in Nat
         /\ DOMAIN w.stack = 1 .. Len(w.stack) /\ DOMAIN w.frames = 1 .. Len(w.frames)
BY VmIs, GoodTypes DEF Fine, Shape

LEMMA FineOf ==
  ASSUME NEW st, NEW fr, NEW op, NEW ou, NEW c, Good(st, op, ou, c), Shape(fr, Len(st))
  PROVE  Fine(VmOf(st, fr, op, ou), c)
<1>1. VmOf(st, fr, op, ou) \in VmT
  BY GoodTypes DEF VmT, VmOf, Shape
<1> QED
  BY <1>1, VmParts DEF Fine

(* The VM when the outers above the first m slots are closed.              *)
ClosedTo(w, st, fr, m, c) ==
    \E op, ou : w = VmOf(st, fr, op, ou) /\ Good(SubSeq(st, 1, m), op, ou, c)

LEMMA CutIs ==
  ASSUME NEW st, NEW fr, NEW op, NEW ou, NEW c, Good(st, op, ou, c),
         NEW m \in 0 .. Len(st), NEW i \in Int, OpenAbove(op, ou, m, Passed(VmOf(st, fr, op, ou), i))
  PROVE  ClosedTo(CloseOuters(VmOf(st, fr, op, ou), i), st, fr, m, c)
<1> DEFINE w == VmOf(st, fr, op, ou)
           p == Passed(w, i)
           op2 == SubSeq(op, p + 1, Len(op))
           ou2 == Shut(st, op, ou, p)
<1>1. w.open = op /\ w.outers = ou /\ op \in Seq(Outer) /\ ou \in [Outer -> OuterT] /\ OpenOK(st, op, ou)
  BY VmParts, GoodTypes
<1>2. p \in 0 .. Len(op)
  <2> HIDE DEF w
  <2>1. OpenOK(st, w.open, w.outers) /\ w.open \in Seq(Outer) /\ w.outers \in [Outer -> OuterT]
    BY <1>1
  <2> QED
    BY <1>1, <2>1, PassedIs
<1>3. CloseOuters(w, i) = VmOf(st, fr, op2, ou2)
  BY ClosedIs
<1> HIDE DEF p
<1>4. OpenAbove(op, ou, m, p)
  BY DEF p
<1>5. Good(SubSeq(st, 1, m), op2, ou2, c)
  BY <1>2, <1>4, CutGood
<1> HIDE DEF w, op2, ou2
<1>6. ClosedTo(CloseOuters(w, i), st, fr, m, c)
  BY <1>3, <1>5 DEF ClosedTo
<1> QED
  BY <1>6 DEF w

LEMMA CutAt ==
  ASSUME NEW st, NEW fr, NEW op, NEW ou, NEW c, Good(st, op, ou, c), NEW m \in 0 .. Len(st)
  PROVE  ClosedTo(CloseOuters(VmOf(st, fr, op, ou), m + 1), st, fr, m, c)
<1> DEFINE w == VmOf(st, fr, op, ou)
<1>1. w.open = op /\ w.outers = ou /\ op \in Seq(Outer) /\ ou \in [Outer -> OuterT] /\ OpenOK(st, op, ou)
  BY VmParts, GoodTypes
<1> HIDE DEF w
<1>2. m + 1 \in Int /\ m \in Nat
  BY GoodTypes
<1>3. \A j \in 1 .. Len(op) : ou[op[j]].idx >= m + 1 <=> j <= Passed(w, m + 1)
  <2>1. OpenOK(st, w.open, w.outers) /\ w.open \in Seq(Outer) /\ w.outers \in [Outer -> OuterT]
    BY <1>1
  <2>2. \A j \in 1 .. Len(w.open) : w.outers[w.open[j]].idx >= m + 1 <=> j <= Passed(w, m + 1)
    BY <1>2, <2>1, PassedIs
  <2> QED
    BY <1>1, <2>2
<1>4. \A j \in 1 .. Len(op) : ou[op[j]].idx \in Nat
  <2>1. \A j \in 1 .. Len(op) : ou[op[j]].idx \in 1 .. Len(st)
    BY GoodOuters
  <2> QED
    BY <2>1
<1>5. OpenAbove(op, ou, m, Passed(w, m + 1))
  BY <1>2, <1>3, <1>4 DEF OpenAbove
<1> QED
  BY <1>2, <1>5, CutIs DEF w

(* The same where the outers that are closed are just those above.         *)
ShutsAbove(w, m, u) ==
    \A j \in 1 .. Len(w.open) : w.outers[w.open[j]].idx > m <=> w.open[j] \notin ToSet(u.open)

LEMMA CutExactly ==
  ASSUME NEW st, NEW fr, NEW op, NEW ou, NEW c, Good(st, op, ou, c), NEW m \in 0 .. Len(st),
         NEW i \in Int,
         ShutsAbove(VmOf(st, fr, op, ou), m, CloseOuters(VmOf(st, fr, op, ou), i))
  PROVE  ClosedTo(CloseOuters(VmOf(st, fr, op, ou), i), st, fr, m, c)
<1> DEFINE w == VmOf(st, fr, op, ou)
           p == Passed(w, i)
           op2 == SubSeq(op, p + 1, Len(op))
<1>1. w.open = op /\ w.outers = ou /\ op \in Seq(Outer) /\ ou \in [Outer -> OuterT] /\ OpenOK(st, op, ou)
      /\ Len(op) \in Nat
  BY VmParts, GoodTypes
<1>2. p \in 0 .. Len(op)
  <2> HIDE DEF w
  <2>1. OpenOK(st, w.open, w.outers) /\ w.open \in Seq(Outer) /\ w.outers \in [Outer -> OuterT]
    BY <1>1
  <2> QED
    BY <1>1, <2>1, PassedIs
<1>3. CloseOuters(w, i).open = op2
  <2>1. CloseOuters(w, i) = VmOf(st, fr, op2, Shut(st, op, ou, p))
    BY ClosedIs
  <2> HIDE DEF w, p, op2
  <2> QED
    BY <2>1, VmParts
<1> HIDE DEF w, p, op2
<1>4. /\ Len(op2) = Len(op) - p /\ DOMAIN op2 = 1 .. Len(op) - p
      /\ \A a \in 1 .. Len(op) - p : op2[a] = op[p + a]
  <2>1. op2 \in Seq(Outer) /\ Len(op2) = Len(op) - p /\ \A a \in 1 .. Len(op) - p : op2[a] = op[p + a]
    BY <1>1, <1>2, RestOf DEF op2
  <2> QED
    BY <2>1
<1>5. \A a, b \in 1 .. Len(op) : op[a] = op[b] => a = b
  BY GoodOuters
<1>6. ASSUME NEW j \in 1 .. Len(op) PROVE op[j] \notin ToSet(op2) <=> j <= p
  <2>1. ASSUME op[j] \in ToSet(op2) PROVE ~(j <= p)
    <3>1. PICK a \in 1 .. Len(op) - p : op2[a] = op[j]
      BY <1>4, <2>1 DEF ToSet
    <3>2. p + a \in 1 .. Len(op) /\ op[p + a] = op[j]
      BY <1>1, <1>2, <1>4, <3>1
    <3>3. p + a = j
      BY <1>5, <3>2
    <3> QED
      BY <1>1, <1>2, <3>3
  <2>2. ASSUME ~(j <= p) PROVE op[j] \in ToSet(op2)
    <3>1. j - p \in 1 .. Len(op) - p /\ p + (j - p) = j
      BY <1>1, <1>2, <2>2
    <3>2. op2[j - p] = op[j]
      BY <1>4, <3>1
    <3> QED
      BY <1>4, <3>1, <3>2 DEF ToSet
  <2> QED
    BY <2>1, <2>2
<1>7. \A j \in 1 .. Len(op) : ou[op[j]].idx > m <=> op[j] \notin ToSet(op2)
  BY <1>1, <1>3 DEF ShutsAbove, w
<1>8. OpenAbove(op, ou, m, p)
  BY <1>6, <1>7 DEF OpenAbove
<1> QED
  BY <1>8, CutIs DEF w, p

(* Slots that no outer points at may go.                                   *)
LEMMA CutNone ==
  ASSUME NEW st, NEW op, NEW ou, NEW c, Good(st, op, ou, c), NEW m \in 0 .. Len(st),
         \A j \in 1 .. Len(op) : ~(ou[op[j]].idx > m)
  PROVE  Good(SubSeq(st, 1, m), op, ou, c)
<1>1. op \in Seq(Outer) /\ Len(op) \in Nat /\ ou \in [Outer -> OuterT] /\ 0 \in 0 .. Len(op)
  BY GoodTypes
<1>2. OpenAbove(op, ou, m, 0)
  BY <1>1 DEF OpenAbove
<1>3. Good(SubSeq(st, 1, m), SubSeq(op, 0 + 1, Len(op)), Shut(st, op, ou, 0), c)
  BY <1>1, <1>2, CutGood
<1>4. SubSeq(op, 0 + 1, Len(op)) = op
  <2> DEFINE op2 == SubSeq(op, 0 + 1, Len(op))
  <2>1. op2 \in Seq(Outer) /\ Len(op2) = Len(op) - 0 /\ \A a \in 1 .. Len(op) - 0 : op2[a] = op[0 + a]
    BY <1>1, RestOf
  <2> HIDE DEF op2
  <2>2. op2 \in Seq(Outer) /\ Len(op2) = Len(op) /\ \A a \in 1 .. Len(op) : op2[a] = op[a]
    BY <1>1, <2>1
  <2>3. op2 = op
    BY <1>1, <2>2, SeqEqual
  <2> QED
    BY <2>3 DEF op2
<1>5. Shut(st, op, ou, 0) = ou
  <2> DEFINE ou2 == Shut(st, op, ou, 0)
  <2>1. IsShut(ou2, st, op, ou, 0)
    BY <1>1, ShutIs
  <2>2. ou2 = [o \in Outer |-> ou2[o]]
    BY DEF Shut
  <2> HIDE DEF ou2
  <2>3. \A o \in Outer : ou2[o] = ou[o]
    BY <2>1 DEF IsShut
  <2>4. ou2 = ou
    BY <1>1, <2>2, <2>3
  <2> QED
    BY <2>4 DEF ou2
<1> QED
  BY <1>3, <1>4, <1>5

(* LeaveFrames.                                                            *)
LEMMA LeaveFine ==
  ASSUME NEW w, NEW c, Fine(w, c), NEW d \in 0 .. Len(w.frames)
  PROVE  /\ Fine(LeaveFrames(w, d), c)
         /\ LeaveFrames(w, d).frames = SubSeq(w.frames, 1, d)
         /\ LeaveFrames(w, d).stack = SubSeq(w.stack, 1, End(w.frames, Len(w.stack), d))
<1> DEFINE st == w.stack
           fr == w.frames
           op == w.open
           ou == w.outers
           m == End(fr, Len(st), d)
           st2 == SubSeq(st, 1, m)
           fr2 == SubSeq(fr, 1, d)
<1>1. /\ w = VmOf(st, fr, op, ou) /\ Good(st, op, ou, c) /\ Shape(fr, Len(st))
      /\ st \in Seq(SlotT) /\ Len(st) \in Nat /\ fr \in Seq(FrameT) /\ Len(fr) \in Nat
  BY FineIs
<1>2. m \in 0 .. Len(st)
  BY <1>1, EndIs
<1>3. Shape(fr2, m)
  BY <1>1, ShapeLeave
<1>4. Len(st2) = m
  BY <1>1, <1>2, FirstOf
<1>5. CASE d = Len(fr)
  <2>1. LeaveFrames(w, d) = w /\ m = Len(st)
    BY <1>5 DEF LeaveFrames, End
  <2>2. st2 = st /\ fr2 = fr
    <3>1. /\ fr2 \in Seq(FrameT) /\ Len(fr2) = Len(fr) /\ \A a \in 1 .. Len(fr) : fr2[a] = fr[a]
      BY <1>1, <1>5, FirstOf
    <3>2. /\ st2 \in Seq(SlotT) /\ Len(st2) = Len(st) /\ \A a \in 1 .. Len(st) : st2[a] = st[a]
      BY <1>1, <1>2, <2>1, FirstOf
    <3> HIDE DEF st2, fr2, st, fr
    <3> QED
      BY <1>1, <3>1, <3>2, SeqEqual
  <2> QED
    BY <2>1, <2>2
<1>6. CASE d # Len(fr)
  <2>1. m = fr[d + 1].base
    BY <1>6 DEF End
  <2> HIDE DEF m, st2, fr2
  <2>2. LeaveFrames(w, d) = [CloseOuters(w, m + 1)
             EXCEPT !.frames = SubSeq(@, 1, d), !.stack = SubSeq(@, 1, m)]
    BY <1>6, <2>1 DEF LeaveFrames
  <2>3. ClosedTo(CloseOuters(w, m + 1), st, fr, m, c)
    <3> HIDE DEF st, fr, op, ou
    <3> QED
      BY <1>1, <1>2, CutAt
  <2>4. PICK op2, ou2 : /\ CloseOuters(w, m + 1) = VmOf(st, fr, op2, ou2)
                        /\ Good(st2, op2, ou2, c)
    BY <2>3 DEF ClosedTo, st2
  <2>5. LeaveFrames(w, d) = [VmOf(st, fr, op2, ou2) EXCEPT !.frames = fr2, !.stack = st2]
    <3>1. VmOf(st, fr, op2, ou2).frames = fr /\ VmOf(st, fr, op2, ou2).stack = st
      BY VmParts
    <3> QED
      BY <2>2, <2>4, <3>1 DEF fr2, st2
  <2>6. LeaveFrames(w, d) = VmOf(st2, fr2, op2, ou2)
    <3>1. LeaveFrames(w, d) \in VmSet(st2, fr2, op2, ou2)
      BY <2>5 DEF VmOf, VmSet
    <3> QED
      BY <3>1, VmInSet
  <2>7. Fine(LeaveFrames(w, d), c)
    BY <1>3, <1>4, <2>4, <2>6, FineOf
  <2>8. LeaveFrames(w, d).frames = fr2 /\ LeaveFrames(w, d).stack = st2
    BY <2>6, VmParts
  <2> QED
    BY <2>7, <2>8 DEF st2, fr2, m
<1> QED
  BY <1>5, <1>6

(* A block of the frame on top and how many locals may be left in it.      *)
Within(w, b, n) ==
    /\ w.frames # <<>> /\ b \in 1 .. Len(Top(w).scopes)
    /\ n \in Top(w).scopes[b].size .. Locals(w)

(* The frames once the one on top has the first b blocks only.             *)
TopBlocks(fr, b) == [fr EXCEPT ![Len(fr)].scopes = SubSeq(@, 1, b)]

LEMMA CutFrame ==
  ASSUME NEW fr, NEW e \in Nat, Shape(fr, e), fr # <<>>,
         NEW b \in 1 .. Len(Last(fr).scopes), NEW n \in Last(fr).scopes[b].size .. e - Last(fr).base
  PROVE  /\ TopBlocks(fr, b) = [fr EXCEPT ![Len(fr)] = [Last(fr) EXCEPT !.scopes = SubSeq(@, 1, b)]]
         /\ Shape(TopBlocks(fr, b), Last(fr).base + n)
<1> DEFINE f == Last(fr)
           sc == f.scopes
           sc2 == SubSeq(sc, 1, b)
           f2 == [f EXCEPT !.scopes = sc2]
           fr2 == [fr EXCEPT ![Len(fr)] = f2]
           e2 == f.base + n
<1>1. /\ fr \in Seq(FrameT) /\ Len(fr) \in Nat /\ Len(fr) >= 1
      /\ f = fr[Len(fr)] /\ f \in FrameT /\ FrameOK(f, e)
  BY TopIs
<1>2. /\ f.base \in Nat /\ sc \in Seq(ScopeT) /\ Len(sc) \in Nat /\ Len(sc) >= 1
      /\ e - f.base \in 1 .. MaxLocals /\ sc[1].size = 1
      /\ \A a \in 1 .. Len(sc) : sc[a].size \in Nat
      /\ \A a, z \in 1 .. Len(sc) : a <= z => sc[a].size <= sc[z].size
      /\ MaxLocals \in Nat
  BY <1>1, FrameParts, Constants
<1>3. TopBlocks(fr, b) = fr2
  BY <1>1 DEF TopBlocks
<1>4. b \in Nat /\ 1 <= b /\ b <= Len(sc) /\ n \in Nat /\ sc[b].size <= n /\ n <= e - f.base
  BY <1>2
<1>5. sc2 \in Seq(ScopeT) /\ Len(sc2) = b /\ \A a \in 1 .. b : sc2[a] = sc[a]
  BY <1>2, <1>4, FirstOf
<1> HIDE DEF sc2
<1>6. f2 \in FrameT /\ f2.base = f.base /\ f2.scopes = sc2
  <2> HIDE DEF f
  <2> QED
    BY <1>1, <1>5 DEF FrameT
<1> HIDE DEF f2
<1>7. FrameOK(f2, e2)
  <2>1. f2.base <= e2 /\ e2 - f2.base <= MaxLocals
    BY <1>2, <1>4, <1>6
  <2>2. f2.scopes # <<>> /\ f2.scopes[1].size = 1
    BY <1>2, <1>4, <1>5, <1>6
  <2>3. \A a \in 1 .. b : a \in 1 .. Len(sc) /\ sc2[a] = sc[a] /\ sc[a].size <= n
    <3> SUFFICES ASSUME NEW a \in 1 .. b
                 PROVE  a \in 1 .. Len(sc) /\ sc2[a] = sc[a] /\ sc[a].size <= n
      OBVIOUS
    <3>1. a \in 1 .. Len(sc) /\ a <= b /\ b \in 1 .. Len(sc)
      BY <1>2, <1>4
    <3>2. sc[a].size <= sc[b].size /\ sc[a].size \in Nat /\ sc[b].size \in Nat
      BY <1>2, <3>1
    <3> QED
      BY <1>4, <1>5, <3>1, <3>2
  <2>4. ASSUME NEW a \in 1 .. b
        PROVE  /\ f2.base + f2.scopes[a].size <= e2
               /\ f2.scopes[a].try => f2.scopes[a].size < MaxLocals
                                        /\ f2.base + f2.scopes[a].size < MaxStack
    <3>1. a \in 1 .. Len(sc) /\ f2.scopes[a] = sc[a] /\ sc[a].size <= n /\ sc[a].size \in Nat
      BY <1>2, <1>6, <2>3
    <3>2. sc[a].try => sc[a].size < MaxLocals /\ f.base + sc[a].size < MaxStack
      BY <1>1, <3>1 DEF FrameOK
    <3> QED
      BY <1>2, <1>4, <1>6, <3>1, <3>2, SMTT(30)
  <2>5. ASSUME NEW a \in 1 .. b, NEW z \in 1 .. b, a <= z
        PROVE  f2.scopes[a].size <= f2.scopes[z].size
    BY <1>2, <1>6, <2>3, <2>5
  <2> QED
    BY <1>5, <1>6, <2>1, <2>2, <2>4, <2>5 DEF FrameOK
<1>8. Shape(fr2, e2)
  <2> HIDE DEF f
  <2>1. f2.base = Last(fr).base
    BY <1>6 DEF f
  <2> QED
    BY <1>6, <1>7, <2>1, ShapeTop
<1> QED
  BY <1>3, <1>8 DEF f2, sc2

LEMMA TruncateIs ==
  ASSUME NEW st, NEW fr, NEW op, NEW ou, NEW b, NEW n
  PROVE  Truncate(VmOf(st, fr, op, ou), b, n)
           = VmOf(SubSeq(st, 1, Last(fr).base + n), TopBlocks(fr, b), op, ou)
<1> DEFINE u == VmOf(st, fr, op, ou)
           st2 == SubSeq(st, 1, Last(fr).base + n)
           fr2 == TopBlocks(fr, b)
<1>1. u.frames = fr /\ u.stack = st
  BY VmParts
<1>2. Truncate(u, b, n) = [u EXCEPT !.stack = st2, !.frames = fr2]
  <2> HIDE DEF u
  <2> QED
    BY <1>1 DEF Truncate, Top, TopBlocks
<1> HIDE DEF st2, fr2
<1>3. Truncate(u, b, n) \in VmSet(st2, fr2, op, ou)
  BY <1>2 DEF VmOf, VmSet
<1>4. Truncate(u, b, n) = VmOf(st2, fr2, op, ou)
  BY <1>3, VmInSet
<1> QED
  BY <1>4 DEF st2, fr2

(* Truncate, with the outers above the locals that are left closed before. *)
LEMMA TruncateFine ==
  ASSUME NEW w, NEW c, Fine(w, c), NEW b, NEW n, Within(w, b, n),
         NEW u, ClosedTo(u, w.stack, w.frames, Top(w).base + n, c)
  PROVE  /\ Fine(Truncate(u, b, n), c)
         /\ \E op, ou : /\ u = VmOf(w.stack, w.frames, op, ou)
                        /\ Truncate(u, b, n) = VmOf(SubSeq(w.stack, 1, Top(w).base + n),
                                TopBlocks(w.frames, b), op, ou)
<1> DEFINE st == w.stack
           fr == w.frames
           m == Top(w).base + n
           st2 == SubSeq(st, 1, m)
           fr2 == TopBlocks(fr, b)
<1>1. /\ Good(st, w.open, w.outers, c) /\ Shape(fr, Len(st)) /\ fr # <<>>
      /\ st \in Seq(SlotT) /\ Len(st) \in Nat /\ fr \in Seq(FrameT) /\ Len(fr) \in Nat
      /\ Top(w) = Last(fr) /\ Locals(w) = Len(st) - Last(fr).base
  BY FineIs DEF Within, Top, Locals
<1>2. /\ b \in 1 .. Len(Last(fr).scopes) /\ n \in Last(fr).scopes[b].size .. Len(st) - Last(fr).base
  BY <1>1 DEF Within
<1>3. Shape(fr2, m)
  BY <1>1, <1>2, CutFrame
<1>4. m \in 0 .. Len(st)
  <2>1. Last(fr) \in FrameT /\ FrameOK(Last(fr), Len(st))
    BY <1>1, TopIs
  <2>2. Last(fr).base \in Nat /\ Last(fr).scopes[b].size \in Nat
    BY <1>1, <1>2, <2>1, FrameParts
  <2> QED
    BY <1>1, <1>2, <2>2, SMTT(30)
<1>5. Len(st2) = m
  BY <1>1, <1>4, FirstOf
<1>6. PICK op2, ou2 : u = VmOf(st, fr, op2, ou2) /\ Good(st2, op2, ou2, c)
  BY DEF ClosedTo
<1>10. Truncate(u, b, n) = VmOf(st2, fr2, op2, ou2)
  <2>1. Truncate(VmOf(st, fr, op2, ou2), b, n) = VmOf(SubSeq(st, 1, Last(fr).base + n), fr2, op2, ou2)
    BY TruncateIs
  <2>2. st2 = SubSeq(st, 1, Last(fr).base + n)
    BY <1>1
  <2> HIDE DEF st2, fr2
  <2> QED
    BY <1>6, <2>1, <2>2
<1> HIDE DEF st2, fr2
<1>11. Fine(Truncate(u, b, n), c)
  BY <1>3, <1>5, <1>6, <1>10, FineOf
<1> QED
  BY <1>6, <1>10, <1>11 DEF st2, fr2

(* New locals in the frame on top, and a stack that moves to hold them.    *)
Extended(st, fr, op, ou, values) ==
    \E new : /\ NewLocals(st, new, values)
             /\ WithLocals(VmOf(st, fr, op, ou), values) = VmOf(st \o new, fr, op, ou)
             /\ Fine(VmOf(st \o new, fr, op, ou), clos)
             /\ RelocateOuters(Moved(VmOf(st \o new, fr, op, ou))) = VmOf(st \o new, fr, op, ou)

LEMMA ExtendFine ==
  ASSUME NEW st, NEW fr, NEW op, NEW ou, Good(st, op, ou, clos),
         NEW values \in Seq(Value), Len(values) <= MaxLocals, Len(st) + Len(values) <= MaxStack,
         Shape(fr, Len(st) + Len(values))
  PROVE  Extended(st, fr, op, ou, values)
<1>1. PICK new : /\ NewLocals(st, new, values)
                 /\ WithLocals(VmOf(st, fr, op, ou), values) = VmOf(st \o new, fr, op, ou)
  BY WithLocalsIs
<1>2. new \in Seq(SlotT) /\ Len(new) = Len(values) /\ Fresh(st, new, clos) /\ st \in Seq(SlotT)
  BY <1>1, GoodTypes DEF NewLocals
<1>3. Good(st \o new, op, ou, clos)
  BY <1>2, ExtendGood
<1>4. Len(st \o new) = Len(st) + Len(values)
  BY <1>2, ConcatProperties
<1>5. Fine(VmOf(st \o new, fr, op, ou), clos)
  BY <1>3, <1>4, FineOf
<1>6. RelocateOuters(Moved(VmOf(st \o new, fr, op, ou))) = VmOf(st \o new, fr, op, ou)
  BY <1>3, RelocateIs
<1> QED
  BY <1>1, <1>5, <1>6 DEF Extended

LEMMA FrameFine ==
  ASSUME NEW k \in Closure \cup {None}, NEW e \in Nat, NEW g \in BOOLEAN, NEW n \in 1 .. MaxLocals
  PROVE  /\ Frame(k, e, g) \in FrameT /\ Frame(k, e, g).base = e
         /\ FrameOK(Frame(k, e, g), e + n)
<1> DEFINE sc == [size |-> 1, try |-> FALSE]
<1>1. sc \in ScopeT /\ MaxLocals \in Nat
  BY Constants DEF ScopeT
<1>2. Body \in Seq(ScopeT) /\ Len(Body) = 1 /\ Body[1] = sc
  BY <1>1 DEF Body
<1>3. Frame(k, e, g) \in FrameT /\ Frame(k, e, g).base = e /\ Frame(k, e, g).scopes = Body
  BY <1>2 DEF Frame, FrameT
<1>4. \A b \in 1 .. 1 : b = 1
  OBVIOUS
<1>5. Body # <<>>
  <2>1. Body = <<sc>>
    BY DEF Body
  <2> HIDE DEF sc
  <2> QED
    BY <2>1
<1>6. Body[1].size = 1 /\ Body[1].try = FALSE
  BY <1>2
<1>7. e <= e + n /\ (e + n) - e <= MaxLocals /\ e + 1 <= e + n
  BY <1>1
<1> HIDE DEF sc
<1>8. \A b \in 1 .. Len(Body) : Body[b].size = 1 /\ Body[b].try = FALSE
  BY <1>2, <1>4, <1>6
<1>9. /\ \A b \in 1 .. Len(Body) : e + Body[b].size <= e + n
      /\ \A b \in 1 .. Len(Body) : Body[b].try => Body[b].size < MaxLocals /\ e + Body[b].size < MaxStack
      /\ \A a, b \in 1 .. Len(Body) : a <= b => Body[a].size <= Body[b].size
  BY <1>7, <1>8
<1> QED
  BY <1>3, <1>5, <1>6, <1>7, <1>9 DEF FrameOK

(* A VM that has entered frame f, with new locals above those there were.  *)
Entered(w, f, values, u) ==
    \E new : /\ NewLocals(w.stack, new, values)
             /\ u = VmOf(w.stack \o new, Append(w.frames, f), w.open, w.outers)

LEMMA EnterFine ==
  ASSUME NEW w, Fine(w, clos), NEW k \in Closure \cup {None}, NEW g \in BOOLEAN,
         NEW values \in Seq(Value), Len(values) \in 1 .. MaxLocals,
         Len(w.stack) + Len(values) <= MaxStack, NEW moves \in BOOLEAN
  PROVE  /\ Fine(EnterFrame(w, Frame(k, Len(w.stack), g), values, moves), clos)
         /\ Entered(w, Frame(k, Len(w.stack), g), values,
                    EnterFrame(w, Frame(k, Len(w.stack), g), values, moves))
<1> DEFINE st == w.stack
           op == w.open
           ou == w.outers
           f == Frame(k, Len(st), g)
           fr == Append(w.frames, f)
           u == WithLocals([w EXCEPT !.frames = Append(@, f)], values)
<1>1. /\ w = VmOf(st, w.frames, op, ou) /\ Good(st, op, ou, clos) /\ Shape(w.frames, Len(st))
      /\ Len(st) \in Nat
  BY FineIs
<1>2. f \in FrameT /\ f.base = Len(st) /\ FrameOK(f, Len(st) + Len(values))
  BY <1>1, FrameFine
<1>3. Shape(fr, Len(st) + Len(values))
  <2> HIDE DEF f
  <2> QED
    BY <1>1, <1>2, ShapePush
<1>4. [w EXCEPT !.frames = Append(@, f)] = VmOf(st, fr, op, ou)
  <2>1. [w EXCEPT !.frames = Append(@, f)] = [VmOf(st, w.frames, op, ou) EXCEPT !.frames = fr]
    BY <1>1
  <2> HIDE DEF fr
  <2>2. [VmOf(st, w.frames, op, ou) EXCEPT !.frames = fr] \in VmSet(st, fr, op, ou)
    BY DEF VmOf, VmSet
  <2>3. [VmOf(st, w.frames, op, ou) EXCEPT !.frames = fr] = VmOf(st, fr, op, ou)
    BY <2>2, VmInSet
  <2> QED
    BY <2>1, <2>3
<1>5. Len(values) <= MaxLocals
  OBVIOUS
<1> HIDE DEF fr
<1>6. /\ Fine(u, clos) /\ RelocateOuters(Moved(u)) = u
      /\ \E new : NewLocals(st, new, values) /\ u = VmOf(st \o new, fr, op, ou)
  <2> HIDE DEF st, op, ou
  <2>1. Extended(st, fr, op, ou, values)
    <3>1. Good(st, op, ou, clos) /\ Len(st) + Len(values) <= MaxStack
      BY <1>1 DEF st
    <3> QED
      BY <1>3, <1>5, <3>1, ExtendFine
  <2> QED
    BY <1>4, <2>1 DEF st, op, ou, Extended
<1>7. EnterFrame(w, f, values, moves) = u
  BY <1>6 DEF EnterFrame
<1>8. Entered(w, f, values, u)
  <2> HIDE DEF u
  <2> QED
    BY <1>6 DEF Entered, fr
<1> HIDE DEF u, f
<1> QED
  BY <1>6, <1>7, <1>8 DEF f

(* A generator that is dead, or kept as it is.                             *)
LEMMA KilledIs ==
  ASSUME gen \in GenT, NEW d
  PROVE  Killed(d) \in GenT
<1>1. [NoGen EXCEPT !.state = "dead"] \in GenT
  BY DEF NoGen, GenT
<1> QED
  BY <1>1 DEF Killed

-----------------------------------------------------------------------------
(* The actions.                                                            *)

LEMMA OneValue ==
  ASSUME NEW x \in Value
  PROVE  <<x>> \in Seq(Value) /\ Len(<<x>>) = 1 /\ <<x>>[1] = x /\ Len(<<x>>) \in 1 .. MaxLocals
BY Constants

LEMMA CallStep ==
  ASSUME IInv, NEW k \in Closure \cup {None}, NEW x \in Value, Call(k, x)
  PROVE  IInv'
<1>1. PICK moves \in BOOLEAN : v' = EnterFrame(v, Frame(k, Len(v.stack), FALSE), <<x>>, moves)
  BY DEF Call
<1>2. clos' = clos /\ gen' = gen /\ Len(v.stack) + 1 <= MaxStack
  BY DEF Call, Room
<1>3. Fine(v', clos)
  BY <1>1, <1>2, OneValue, EnterFine DEF IInv
<1> QED
  BY <1>2, <1>3 DEF IInv

LEMMA ResumeStep ==
  ASSUME IInv, Resume
  PROVE  IInv'
<1>1. PICK moves \in BOOLEAN : v' = EnterFrame(v, Frame(None, Len(v.stack), TRUE), gen.vals, moves)
  BY DEF Resume
<1>2. clos' = clos /\ gen' = [NoGen EXCEPT !.state = "running"] /\ Len(v.stack) + Len(gen.vals) <= MaxStack
      /\ gen.state = "suspended"
  BY DEF Resume, Room
<1>3. gen.vals \in Seq(Value) /\ Len(gen.vals) \in 1 .. MaxLocals
  BY <1>2 DEF IInv, GenT
<1>4. Fine(v', clos)
  BY <1>1, <1>2, <1>3, EnterFine DEF IInv
<1>5. gen' \in GenT
  BY <1>2 DEF NoGen, GenT
<1> QED
  BY <1>2, <1>4, <1>5 DEF IInv

LEMMA ReturnStep ==
  ASSUME IInv, Return
  PROVE  IInv'
<1>1. v' = LeaveFrames(v, Len(v.frames) - 1) /\ gen' = Killed(Len(v.frames) - 1) /\ clos' = clos
      /\ v.frames # <<>>
  BY DEF Return, Running
<1>2. Len(v.frames) - 1 \in 0 .. Len(v.frames)
  <2>1. v.frames \in Seq(FrameT)
    BY FineIs DEF IInv
  <2> QED
    BY <1>1, <2>1, EmptySeq
<1>3. Fine(v', clos)
  BY <1>1, <1>2, LeaveFine DEF IInv
<1> QED
  BY <1>1, <1>3, KilledIs DEF IInv

LEMMA FinalizeStep ==
  ASSUME IInv, Finalize
  PROVE  IInv'
<1> DEFINE st == v.stack
           fr == v.frames
<1>1. /\ v = VmOf(st, fr, v.open, v.outers) /\ Good(st, v.open, v.outers, clos)
      /\ st \in Seq(SlotT) /\ Len(st) \in Nat /\ gen \in GenT
  BY FineIs DEF IInv
<1>2. ClosedTo(CloseOuters(v, 0 + 1), st, fr, 0, clos)
  <2>1. 0 \in 0 .. Len(st)
    BY <1>1
  <2> HIDE DEF st, fr
  <2> QED
    BY <1>1, <2>1, CutAt
<1>3. PICK op, ou : CloseOuters(v, 1) = VmOf(st, fr, op, ou) /\ Good(SubSeq(st, 1, 0), op, ou, clos)
  BY <1>2 DEF ClosedTo
<1>4. SubSeq(st, 1, 0) = <<>>
  BY <1>1
<1>5. v' = VmOf(<<>>, <<>>, op, ou)
  <2>1. v' = [VmOf(st, fr, op, ou) EXCEPT !.frames = <<>>, !.stack = <<>>]
    BY <1>3 DEF Finalize
  <2>2. v' \in VmSet(<<>>, <<>>, op, ou)
    BY <2>1 DEF VmOf, VmSet
  <2> QED
    BY <2>2, VmInSet
<1>6. Shape(<<>>, Len(<<>>))
  <2>1. <<>> \in Seq(FrameT) /\ Len(<<>>) = 0
    OBVIOUS
  <2> QED
    BY <2>1 DEF Shape, End
<1>7. Fine(v', clos)
  BY <1>3, <1>4, <1>5, <1>6, FineOf
<1>8. clos' = clos /\ gen' = Killed(0)
  BY DEF Finalize
<1> QED
  BY <1>1, <1>7, <1>8, KilledIs DEF IInv

LEMMA YieldStep ==
  ASSUME IInv, Yield
  PROVE  IInv'
<1> DEFINE d == Len(v.frames)
           n == Locals(v)
           s(i) == v.stack[Top(v).base + i].val
<1>1. /\ v' = LeaveFrames(v, d - 1) /\ clos' = clos /\ v.frames # <<>>
      /\ gen' = [state |-> "suspended", vals |-> [i \in 1 .. n |-> s(i)]]
  BY DEF Yield, Running
<1>2. /\ Shape(v.frames, Len(v.stack)) /\ Len(v.stack) \in Nat /\ d \in Nat
      /\ \A i \in 1 .. Len(v.stack) : v.stack[i].val \in Value
  BY FineIs, GoodOuters DEF IInv
<1>3. d >= 1 /\ Last(v.frames) \in FrameT /\ FrameOK(Last(v.frames), Len(v.stack))
  BY <1>1, <1>2, TopIs
<1>4. Top(v).base \in Nat /\ n \in 1 .. MaxLocals /\ n = Len(v.stack) - Top(v).base
  BY <1>2, <1>3, FrameParts DEF Top, Locals
<1> HIDE DEF n
<1>5. Fine(v', clos)
  <2>1. d - 1 \in 0 .. d
    BY <1>2, <1>3
  <2> QED
    BY <1>1, <2>1, LeaveFine DEF IInv
<1>6. [i \in 1 .. n |-> s(i)] \in Seq(Value) /\ Len([i \in 1 .. n |-> s(i)]) = n
  <2>1. \A i \in 1 .. n : s(i) \in Value
    <3>1. \A i \in 1 .. n : Top(v).base + i \in 1 .. Len(v.stack)
      BY <1>2, <1>4
    <3> QED
      BY <1>2, <3>1
  <2>2. n \in Nat
    BY <1>4, Constants
  <2> HIDE DEF s
  <2> QED
    BY <2>1, <2>2
<1>7. gen' \in GenT
  <2> DEFINE vs == [i \in 1 .. n |-> s(i)]
  <2>1. vs \in Seq(Value) /\ Len(vs) \in 1 .. MaxLocals
    BY <1>4, <1>6
  <2> HIDE DEF vs
  <2>2. [state |-> "suspended", vals |-> vs] \in GenT
    BY <2>1 DEF GenT
  <2> QED
    BY <1>1, <2>2 DEF vs
<1> QED
  BY <1>1, <1>5, <1>7 DEF IInv

LEMMA PutFrames ==
  ASSUME NEW st, NEW fr, NEW op, NEW ou, NEW fr2
  PROVE  [VmOf(st, fr, op, ou) EXCEPT !.frames = fr2] = VmOf(st, fr2, op, ou)
<1>1. [VmOf(st, fr, op, ou) EXCEPT !.frames = fr2] \in VmSet(st, fr2, op, ou)
  BY DEF VmOf, VmSet
<1> QED
  BY <1>1, VmInSet

LEMMA TopFine ==
  ASSUME IInv, Running
  PROVE  /\ v = VmOf(v.stack, v.frames, v.open, v.outers)
         /\ Good(v.stack, v.open, v.outers, clos) /\ Shape(v.frames, Len(v.stack))
         /\ v.stack \in Seq(SlotT) /\ Len(v.stack) \in Nat
         /\ v.frames # <<>> /\ v.frames \in Seq(FrameT) /\ Len(v.frames) \in Nat /\ Len(v.frames) >= 1
         /\ Top(v) = Last(v.frames) /\ Top(v) = v.frames[Len(v.frames)] /\ Top(v) \in FrameT
         /\ FrameOK(Top(v), Len(v.stack))
         /\ Locals(v) = Len(v.stack) - Top(v).base
         /\ Top(v).base \in Nat /\ Locals(v) \in 1 .. MaxLocals
<1>1. /\ v = VmOf(v.stack, v.frames, v.open, v.outers)
      /\ Good(v.stack, v.open, v.outers, clos) /\ Shape(v.frames, Len(v.stack))
      /\ v.stack \in Seq(SlotT) /\ Len(v.stack) \in Nat /\ v.frames # <<>>
  BY FineIs DEF IInv, Running
<1>2. /\ v.frames \in Seq(FrameT) /\ Len(v.frames) \in Nat /\ Len(v.frames) >= 1
      /\ Last(v.frames) = v.frames[Len(v.frames)] /\ Last(v.frames) \in FrameT
      /\ FrameOK(Last(v.frames), Len(v.stack))
  BY <1>1, TopIs
<1>3. Last(v.frames).base \in Nat /\ Len(v.stack) - Last(v.frames).base \in 1 .. MaxLocals
  BY <1>1, <1>2, FrameParts
<1> QED
  BY <1>1, <1>2, <1>3 DEF Top, Locals

(* A VM where the call on top is one of another function.                  *)
Recalled(fr, k) == [TopBlocks(fr, 1) EXCEPT ![Len(TopBlocks(fr, 1))].fn = k]

Replaced(w, k, values, u) ==
    \E new, op, ou :
        /\ NewLocals(SubSeq(w.stack, 1, Top(w).base), new, values)
        /\ CloseOuters(w, Top(w).base + 1) = VmOf(w.stack, w.frames, op, ou)
        /\ u = VmOf(SubSeq(w.stack, 1, Top(w).base) \o new, Recalled(w.frames, k), op, ou)

LEMMA TailCallStep ==
  ASSUME IInv, NEW k \in Closure \cup {None}, NEW x \in Value, TailCall(k, x)
  PROVE  IInv' /\ Replaced(v, k, <<x>>, v')
<1> DEFINE st == v.stack
           fr == v.frames
           f == Last(fr)
           B == f.base
           st2 == SubSeq(st, 1, B)
           fr2 == TopBlocks(fr, 1)
           w == Truncate(CloseOuters(v, Top(v).base + 1), 1, 0)
           u == WithLocals([w EXCEPT !.frames[Len(w.frames)].fn = k], <<x>>)
<1>1. /\ Running /\ clos' = clos /\ gen' = gen
      /\ \E moves \in BOOLEAN : v' = IF moves THEN RelocateOuters(Moved(u)) ELSE u
  BY DEF TailCall
<1>2. /\ v = VmOf(st, fr, v.open, v.outers)
      /\ Good(st, v.open, v.outers, clos) /\ Shape(fr, Len(st))
      /\ st \in Seq(SlotT) /\ Len(st) \in Nat /\ Len(st) <= MaxStack
      /\ fr # <<>> /\ fr \in Seq(FrameT) /\ Len(fr) \in Nat /\ Len(fr) >= 1
      /\ Top(v) = f /\ f = fr[Len(fr)] /\ f \in FrameT
      /\ FrameOK(f, Len(st)) /\ B \in Nat /\ Len(st) - B \in 1 .. MaxLocals
  BY <1>1, TopFine, GoodTypes
<1>3. Len(f.scopes) >= 1 /\ Len(f.scopes) \in Nat /\ f.scopes[1].size = 1 /\ f.scopes \in Seq(ScopeT)
  BY <1>2, FrameParts
<1>4. B \in 0 .. Len(st) /\ B + 1 <= MaxStack
  BY <1>2, Constants, SMTT(30)
<1>5. Len(st2) = B
  BY <1>2, <1>4, FirstOf
<1>6. ClosedTo(CloseOuters(v, B + 1), st, fr, B, clos)
  <2> HIDE DEF st, fr, B
  <2> QED
    BY <1>2, <1>4, CutAt
<1>7. PICK op, ou : CloseOuters(v, B + 1) = VmOf(st, fr, op, ou) /\ Good(st2, op, ou, clos)
  BY <1>6 DEF ClosedTo
<1>8. w = VmOf(st2, fr2, op, ou)
  <2>1. Truncate(VmOf(st, fr, op, ou), 1, 0) = VmOf(SubSeq(st, 1, B + 0), fr2, op, ou)
    BY TruncateIs
  <2>2. B + 0 = B
    BY <1>2
  <2>3. w = Truncate(VmOf(st, fr, op, ou), 1, 0)
    BY <1>2, <1>7
  <2> HIDE DEF fr2, w, B
  <2> QED
    BY <2>1, <2>2, <2>3
<1>9. fr2 = [fr EXCEPT ![Len(fr)] = [f EXCEPT !.scopes = SubSeq(@, 1, 1)]] /\ Shape(fr2, B + 1)
  <2>1. 1 \in 1 .. Len(f.scopes) /\ 1 \in f.scopes[1].size .. Len(st) - f.base
    BY <1>2, <1>3
  <2> HIDE DEF st, fr
  <2> QED
    BY <1>2, <2>1, CutFrame
<1> DEFINE f2 == [f EXCEPT !.scopes = SubSeq(@, 1, 1)]
           fr3 == [fr2 EXCEPT ![Len(fr2)].fn = k]
<1>10. Len(fr2) = Len(fr) /\ fr2 # <<>> /\ Last(fr2) = f2 /\ Last(fr2) \in FrameT /\ FrameOK(Last(fr2), B + 1)
  <2>1. Len(fr) \in 1 .. Len(fr) /\ B + 1 \in Nat
    BY <1>2
  <2> HIDE DEF fr, f2, B
  <2>2. Len(fr2) = Len(fr) /\ fr2[Len(fr)] = f2
    BY <1>2, <1>9, <2>1 DEF f2
  <2> HIDE DEF fr2
  <2>3. fr2 # <<>>
    BY <1>2, <2>2
  <2> QED
    BY <1>9, <2>1, <2>2, <2>3, TopIs
<1> DEFINE f3 == [Last(fr2) EXCEPT !.fn = k]
<1>11. f3 \in FrameT /\ f3.base = Last(fr2).base /\ f3.scopes = Last(fr2).scopes
  <2> HIDE DEF fr2
  <2> QED
    BY <1>10 DEF FrameT
<1>12. FrameOK(f3, B + 1)
  <2> HIDE DEF f3, fr2, B
  <2> QED
    BY <1>10, <1>11 DEF FrameOK
<1>13. fr3 = [fr2 EXCEPT ![Len(fr2)] = f3]
  BY <1>10 DEF Last
<1>14. Shape(fr3, B + 1)
  <2> HIDE DEF f3, fr2, B, fr3
  <2>1. B + 1 \in Nat
    BY <1>2
  <2> QED
    BY <1>9, <1>10, <1>11, <1>12, <1>13, <2>1, ShapeTop
<1>15. [w EXCEPT !.frames[Len(w.frames)].fn = k] = VmOf(st2, fr3, op, ou)
  <2>1. w.frames = fr2
    BY <1>8, VmParts
  <2>2. [w EXCEPT !.frames[Len(w.frames)].fn = k] = [w EXCEPT !.frames = fr3]
    <3> HIDE DEF w, fr2
    <3> QED
      BY <2>1
  <2> HIDE DEF fr3, fr2, w, st2
  <2> QED
    BY <1>8, <2>2, PutFrames
<1> HIDE DEF fr3, st2, B, w, fr2
<1>16. Extended(st2, fr3, op, ou, <<x>>)
  <2> DEFINE values == <<x>>
  <2>1. values \in Seq(Value) /\ Len(values) <= MaxLocals /\ Len(values) = 1
    BY OneValue, Constants
  <2> HIDE DEF values
  <2>2. Len(st2) + Len(values) <= MaxStack /\ Shape(fr3, Len(st2) + Len(values))
    BY <1>4, <1>5, <1>14, <2>1
  <2>3. Extended(st2, fr3, op, ou, values)
    BY <1>7, <2>1, <2>2, ExtendFine
  <2> QED
    BY <2>3 DEF values
<1>17. Fine(u, clos) /\ RelocateOuters(Moved(u)) = u
  BY <1>15, <1>16 DEF Extended
<1>18. v' = u
  BY <1>1, <1>17
<1>19. Replaced(v, k, <<x>>, v')
  <2> DEFINE values == <<x>>
  <2> HIDE DEF values, u
  <2>1. PICK new : NewLocals(st2, new, values) /\ u = VmOf(st2 \o new, fr3, op, ou)
    BY <1>15, <1>16 DEF Extended, u, values
  <2>2. /\ NewLocals(SubSeq(v.stack, 1, Top(v).base), new, values)
        /\ CloseOuters(v, Top(v).base + 1) = VmOf(v.stack, v.frames, op, ou)
        /\ v' = VmOf(SubSeq(v.stack, 1, Top(v).base) \o new, Recalled(v.frames, k), op, ou)
    <3>1. st2 = SubSeq(v.stack, 1, Top(v).base) /\ B = Top(v).base
      BY <1>2 DEF st2, B
    <3>2. fr3 = Recalled(v.frames, k)
      BY DEF fr3, fr2, Recalled
    <3> QED
      BY <1>7, <1>18, <2>1, <3>1, <3>2
  <2> QED
    BY <2>2 DEF Replaced, values
<1> HIDE DEF u
<1> QED
  BY <1>1, <1>17, <1>18, <1>19 DEF IInv

LEMMA ReserveStackSame ==
  ASSUME IInv, Stray = {}, ReserveStack
  PROVE  v' = v /\ clos' = clos /\ gen' = gen
<1>1. v' = Moved(v) /\ clos' = clos /\ gen' = gen /\ v.open = <<>>
  BY DEF ReserveStack
<1>2. /\ v = VmOf(v.stack, v.frames, v.open, v.outers) /\ Good(v.stack, v.open, v.outers, clos)
  BY FineIs DEF IInv
<1>3. v.outers \in [Outer -> OuterT] /\ OpenOK(v.stack, v.open, v.outers)
  BY <1>2, GoodTypes
<1>4. \A o \in Outer : v.outers[o].at # "stack"
  <2>1. Len(v.open) = 0
    BY <1>1
  <2>2. \A j : ~(j \in 1 .. Len(v.open))
    BY <2>1
  <2> QED
    BY <1>3, <2>2 DEF OpenOK
<1>5. Moved(v) = v
  <2> DEFINE ou == v.outers
             os == {o \in Outer : ou[o].at = "stack"}
             ou2 == [o \in Outer |-> IF o \in os THEN [ou[o] EXCEPT !.at = "gone"] ELSE ou[o]]
  <2>1. os = {}
    BY <1>4
  <2>2. Moved(v) = [v EXCEPT !.outers = ou2]
    BY DEF Moved, Repoint
  <2>3. ou2 = ou
    BY <1>3, <2>1
  <2> HIDE DEF ou2
  <2>4. [v EXCEPT !.outers = ou] = v
    BY <1>2 DEF IInv, Fine, VmT
  <2> QED
    BY <2>2, <2>3, <2>4
<1> QED
  BY <1>1, <1>5

LEMMA ReserveStackStep ==
  ASSUME IInv, Stray = {}, ReserveStack
  PROVE  IInv'
BY ReserveStackSame DEF IInv

LEMMA DeclareExtended ==
  ASSUME IInv, Declare
  PROVE  Extended(v.stack, v.frames, v.open, v.outers, <<Null>>)
<1> DEFINE st == v.stack
           fr == v.frames
           op == v.open
           ou == v.outers
           values == <<Null>>
<1>1. Running /\ Locals(v) < MaxLocals /\ Len(st) < MaxStack
  BY DEF Declare, RoomForLocal
<1>2. /\ v = VmOf(st, fr, op, ou) /\ Good(st, op, ou, clos) /\ Shape(fr, Len(st)) /\ fr # <<>>
      /\ Len(st) \in Nat /\ Locals(v) = Len(st) - Last(fr).base /\ Last(fr).base \in Nat
  BY <1>1, TopFine
<1>3. values \in Seq(Value) /\ Len(values) = 1
  BY NullIsAValue
<1> HIDE DEF st, fr, op, ou, values
<1>4. Shape(fr, Len(st) + 1)
  <2>1. Len(st) + 1 \in Nat /\ Len(st) <= Len(st) + 1 /\ (Len(st) + 1) - Last(fr).base <= MaxLocals
    BY <1>1, <1>2, Constants
  <2> QED
    BY <1>2, <2>1, ShapeMore
<1>5. Extended(st, fr, op, ou, values)
  <2>1. Len(st) + Len(values) <= MaxStack /\ Len(values) <= MaxLocals /\ Shape(fr, Len(st) + Len(values))
    BY <1>1, <1>2, <1>3, <1>4, Constants
  <2> QED
    BY <1>2, <1>3, <2>1, ExtendFine
<1> QED
  BY <1>5 DEF st, fr, op, ou, values

LEMMA DeclareStep ==
  ASSUME IInv, Declare
  PROVE  IInv'
<1> DEFINE values == <<Null>>
<1>1. v' = WithLocals(v, values) /\ clos' = clos /\ gen' = gen
  BY DEF Declare
<1>2. v = VmOf(v.stack, v.frames, v.open, v.outers)
  BY FineIs DEF IInv
<1>3. Extended(v.stack, v.frames, v.open, v.outers, values)
  BY DeclareExtended
<1> HIDE DEF values
<1>4. Fine(v', clos)
  BY <1>1, <1>2, <1>3 DEF Extended
<1> QED
  BY <1>1, <1>4 DEF IInv

LEMMA BeginScopeStep ==
  ASSUME IInv, NEW try \in BOOLEAN, BeginScope(try)
  PROVE  IInv'
<1> DEFINE st == v.stack
           fr == v.frames
           f == Top(v)
           n == Len(f.scopes)
           s == [size |-> Locals(v), try |-> try]
           sc2 == Append(f.scopes, s)
           f2 == [f EXCEPT !.scopes = sc2]
           fr2 == [fr EXCEPT ![Len(fr)] = f2]
<1>1. /\ v' = [v EXCEPT !.frames[Len(v.frames)].scopes = Append(@, s)] /\ clos' = clos /\ gen' = gen
      /\ Running /\ (try => Locals(v) < MaxLocals /\ Len(st) < MaxStack)
  BY DEF BeginScope, RoomForLocal
<1>2. /\ v = VmOf(st, fr, v.open, v.outers) /\ Good(st, v.open, v.outers, clos)
      /\ Shape(fr, Len(st)) /\ Len(st) \in Nat /\ fr # <<>> /\ fr \in Seq(FrameT)
      /\ Len(fr) \in Nat /\ Len(fr) >= 1 /\ f = Last(fr) /\ f = fr[Len(fr)] /\ f \in FrameT
      /\ FrameOK(f, Len(st)) /\ Locals(v) = Len(st) - f.base /\ f.base \in Nat /\ Locals(v) \in 1 .. MaxLocals
  BY <1>1, TopFine
<1>3. /\ f.scopes \in Seq(ScopeT) /\ n \in Nat /\ n >= 1 /\ f.scopes[1].size = 1
      /\ \A b \in 1 .. n : f.scopes[b].size \in Nat /\ f.base + f.scopes[b].size <= Len(st)
      /\ \A a, b \in 1 .. n : a <= b => f.scopes[a].size <= f.scopes[b].size
      /\ MaxLocals \in Nat
  BY <1>2, FrameParts, Constants
<1>4. s \in ScopeT /\ s.size = Locals(v) /\ s.try = try
  BY <1>2, <1>3 DEF ScopeT
<1>5. v' = [v EXCEPT !.frames = fr2]
  BY <1>1, <1>2
<1> HIDE DEF s, f
<1>6. sc2 \in Seq(ScopeT) /\ Len(sc2) = n + 1 /\ sc2[n + 1] = s /\ \A b \in 1 .. n : sc2[b] = f.scopes[b]
  BY <1>3, <1>4, AppendProperties
<1> HIDE DEF sc2, n
<1>7. f2 \in FrameT /\ f2.base = f.base /\ f2.scopes = sc2
  BY <1>2, <1>6 DEF FrameT
<1> HIDE DEF f2
<1>8. FrameOK(f2, Len(st))
  <2>1. \A b \in 1 .. n + 1 : b \in 1 .. n \/ b = n + 1
    BY <1>3
  <2>2. f2.base <= Len(st) /\ Len(st) - f2.base <= MaxLocals
    BY <1>2, <1>3, <1>7
  <2>3. f2.scopes # <<>> /\ f2.scopes[1].size = 1
    BY <1>3, <1>6, <1>7
  <2>4. ASSUME NEW b \in 1 .. n + 1
        PROVE  /\ f2.base + f2.scopes[b].size <= Len(st)
               /\ f2.scopes[b].try => f2.scopes[b].size < MaxLocals /\ f2.base + f2.scopes[b].size < MaxStack
    <3>1. CASE b = n + 1
      <4>1. f2.base + Locals(v) = Len(st)
        BY <1>2, <1>7, SMTT(30)
      <4> QED
        BY <1>1, <1>4, <1>6, <1>7, <3>1, <4>1, <1>2
    <3>2. CASE b \in 1 .. n
      BY <1>2, <1>3, <1>6, <1>7, <3>2 DEF FrameOK, n
    <3> QED
      BY <2>1, <3>1, <3>2
  <2>5. ASSUME NEW a \in 1 .. n + 1, NEW b \in 1 .. n + 1, a <= b
        PROVE  f2.scopes[a].size <= f2.scopes[b].size
    <3>1. CASE b = n + 1
      <4>1. f2.base + f2.scopes[a].size <= Len(st) /\ f2.scopes[a].size \in Nat
        <5>1. CASE a = n + 1
          BY <1>2, <1>4, <1>6, <1>7, <2>4, <5>1
        <5>2. CASE a \in 1 .. n
          BY <1>3, <1>6, <1>7, <5>2
        <5> QED
          BY <2>1, <5>1, <5>2
      <4> QED
        BY <1>2, <1>4, <1>6, <1>7, <3>1, <4>1
    <3>2. CASE b \in 1 .. n
      <4>1. a \in 1 .. n
        BY <1>3, <2>5, <3>2
      <4> QED
        BY <1>3, <1>6, <1>7, <2>5, <3>2, <4>1
    <3> QED
      BY <2>1, <3>1, <3>2
  <2> QED
    BY <1>6, <1>7, <2>2, <2>3, <2>4, <2>5 DEF FrameOK
<1> HIDE DEF fr2
<1>9. Shape(fr2, Len(st))
  BY <1>2, <1>7, <1>8, ShapeTop DEF fr2
<1>10. v' = VmOf(st, fr2, v.open, v.outers)
  <2> HIDE DEF st, fr
  <2> QED
    BY <1>2, <1>5, PutFrames
<1>11. Fine(v', clos)
  BY <1>2, <1>9, <1>10, FineOf
<1> QED
  BY <1>1, <1>11 DEF IInv

LEMMA EndScopeWithin ==
  ASSUME IInv, EndScope
  PROVE  /\ Within(v, Len(Top(v).scopes) - 1, Inner(v).size)
         /\ Top(v).base + Inner(v).size \in 0 .. Len(v.stack)
<1> DEFINE f == Top(v)
           b == Len(f.scopes) - 1
           n == Inner(v).size
<1>1. Running /\ b > 0
  BY DEF EndScope
<1>2. /\ v.frames # <<>> /\ f \in FrameT /\ FrameOK(f, Len(v.stack)) /\ Len(v.stack) \in Nat
      /\ Locals(v) = Len(v.stack) - f.base /\ f.base \in Nat
  BY <1>1, TopFine
<1>3. /\ Len(f.scopes) \in Nat /\ Len(f.scopes) >= 1
      /\ \A a \in 1 .. Len(f.scopes) : f.scopes[a].size \in Nat /\ f.base + f.scopes[a].size <= Len(v.stack)
      /\ \A a, z \in 1 .. Len(f.scopes) : a <= z => f.scopes[a].size <= f.scopes[z].size
  BY <1>2, FrameParts
<1>4. n = f.scopes[Len(f.scopes)].size
  BY DEF Inner, Last
<1> HIDE DEF f, n
<1>5. /\ b \in 1 .. Len(f.scopes) /\ n \in Nat /\ f.base + n <= Len(v.stack)
      /\ f.scopes[b].size <= n /\ f.scopes[b].size \in Nat
  BY <1>1, <1>3, <1>4
<1>6. n \in f.scopes[b].size .. Len(v.stack) - f.base /\ f.base + n \in 0 .. Len(v.stack)
  BY <1>2, <1>5
<1> QED
  BY <1>2, <1>5, <1>6 DEF Within, f, n

LEMMA EndScopeStep ==
  ASSUME IInv, EndScope
  PROVE  IInv'
<1> DEFINE B == Top(v).base
           b == Len(Top(v).scopes) - 1
           n == Inner(v).size
           u == CloseAbove(v, n)
<1>1. v' = Truncate(u, b, n) /\ clos' = clos /\ gen' = gen
  BY DEF EndScope
<1>2. Within(v, b, n) /\ B + n \in 0 .. Len(v.stack)
  BY EndScopeWithin
<1>3. v = VmOf(v.stack, v.frames, v.open, v.outers) /\ Good(v.stack, v.open, v.outers, clos)
  BY FineIs DEF IInv
<1> HIDE DEF n, b, B
<1>4. ClosedTo(u, v.stack, v.frames, B + n, clos)
  <2>1. ClosedTo(CloseOuters(v, (B + n) + 1), v.stack, v.frames, B + n, clos)
    BY <1>2, <1>3, CutAt
  <2> QED
    BY <2>1 DEF CloseAbove, B
<1> HIDE DEF u
<1>5. Fine(Truncate(u, b, n), clos)
  BY <1>2, <1>4, TruncateFine DEF IInv, B
<1> QED
  BY <1>1, <1>5 DEF IInv

LEMMA JumpStep ==
  ASSUME IInv, Stray = {}, NEW kind, NEW b, NEW n, Within(v, b, n), Jump(kind, b, n)
  PROVE  Fine(v', clos)
<1> DEFINE i == Top(v).base + Inner(v).size + 1
           C == CloseOuters(v, i)
           u == Truncate(C, b, n)
           m == Top(v).base + n
<1>1. v' = u /\ Exactly(v, u)
  BY DEF Jump, CloseAbove
<1>2. Running
  BY DEF Within, Running
<1>3. /\ v = VmOf(v.stack, v.frames, v.open, v.outers) /\ Good(v.stack, v.open, v.outers, clos)
      /\ v.stack \in Seq(SlotT) /\ Len(v.stack) \in Nat /\ Top(v) = Last(v.frames)
      /\ Top(v) \in FrameT /\ FrameOK(Top(v), Len(v.stack))
      /\ Locals(v) = Len(v.stack) - Top(v).base /\ Top(v).base \in Nat
      /\ DOMAIN v.open = 1 .. Len(v.open)
  BY <1>2, TopFine, GoodTypes
<1>4. /\ Len(Top(v).scopes) \in Nat /\ Len(Top(v).scopes) >= 1
      /\ \A a \in 1 .. Len(Top(v).scopes) : Top(v).scopes[a].size \in Nat
  BY <1>3, FrameParts
<1>5. i \in Int
  <2>1. Len(Top(v).scopes) \in 1 .. Len(Top(v).scopes)
    BY <1>4
  <2>2. Inner(v).size \in Nat
    BY <1>4, <2>1 DEF Inner, Last
  <2> QED
    BY <1>3, <2>2
<1>6. m \in 0 .. Len(v.stack)
  <2>1. n \in Top(v).scopes[b].size .. Locals(v) /\ Top(v).scopes[b].size \in Nat
    BY <1>4 DEF Within
  <2> QED
    BY <1>3, <2>1
<1>7. \E op2, ou2 : C = VmOf(v.stack, v.frames, op2, ou2)
  BY <1>3, ClosedIs
<1>8. u.stack = SubSeq(v.stack, 1, m) /\ u.open = C.open
  <2>1. PICK op2, ou2 : C = VmOf(v.stack, v.frames, op2, ou2)
    BY <1>7
  <2>2. u = VmOf(SubSeq(v.stack, 1, Last(v.frames).base + n), TopBlocks(v.frames, b), op2, ou2)
    <3> HIDE DEF C
    <3> QED
      BY <2>1, TruncateIs
  <2> HIDE DEF u, C
  <2> DEFINE st2 == SubSeq(v.stack, 1, Last(v.frames).base + n)
             fr2 == TopBlocks(v.frames, b)
  <2>3. u.stack = st2 /\ u.open = op2
    <3> HIDE DEF st2, fr2
    <3>1. u = VmOf(st2, fr2, op2, ou2)
      BY <2>2 DEF st2, fr2
    <3> QED
      BY <3>1, VmParts
  <2>4. C.open = op2
    BY <2>1, VmParts
  <2> QED
    BY <1>3, <2>3, <2>4
<1> HIDE DEF u, C, i, m
<1>9. Len(u.stack) = m
  BY <1>3, <1>6, <1>8, FirstOf
<1>10. ShutsAbove(v, m, C)
  BY <1>1, <1>3, <1>8, <1>9 DEF Exactly, ShutsAbove
<1>11. ClosedTo(C, v.stack, v.frames, m, clos)
  BY <1>3, <1>5, <1>6, <1>10, CutExactly DEF C
<1>12. Fine(Truncate(C, b, n), clos)
  BY <1>11, TruncateFine DEF IInv, m
<1> QED
  BY <1>1, <1>12 DEF u

LEMMA BreakWithin ==
  ASSUME IInv, NEW b, Break(b)
  PROVE  /\ Within(v, b, Top(v).scopes[b + 1].size)
         /\ Jump("break", b, Top(v).scopes[b + 1].size)
<1> DEFINE f == Top(v)
           n == f.scopes[b + 1].size
<1>1. Running /\ b \in 1 .. Len(f.scopes) - 1 /\ Jump("break", b, n)
  BY DEF Break
<1>2. /\ v.frames # <<>> /\ f \in FrameT /\ FrameOK(f, Len(v.stack)) /\ Len(v.stack) \in Nat
      /\ Locals(v) = Len(v.stack) - f.base /\ f.base \in Nat
  BY <1>1, TopFine
<1>3. /\ Len(f.scopes) \in Nat
      /\ \A a \in 1 .. Len(f.scopes) : f.scopes[a].size \in Nat /\ f.base + f.scopes[a].size <= Len(v.stack)
      /\ \A a, z \in 1 .. Len(f.scopes) : a <= z => f.scopes[a].size <= f.scopes[z].size
  BY <1>2, FrameParts
<1> HIDE DEF f
<1>4. b \in 1 .. Len(f.scopes) /\ b + 1 \in 1 .. Len(f.scopes) /\ b <= b + 1
  BY <1>1, <1>3
<1>5. n \in f.scopes[b].size .. Locals(v)
  <2>1. f.scopes[b].size <= n /\ n \in Nat /\ f.scopes[b].size \in Nat /\ f.base + n <= Len(v.stack)
    BY <1>3, <1>4
  <2> HIDE DEF n
  <2> QED
    BY <1>2, <2>1
<1>6. Within(v, b, n)
  BY <1>2, <1>4, <1>5 DEF Within, f
<1> QED
  BY <1>1, <1>6 DEF f

LEMMA BreakStep ==
  ASSUME IInv, Stray = {}, NEW b, Break(b)
  PROVE  IInv'
<1> DEFINE n == Top(v).scopes[b + 1].size
<1>1. Within(v, b, n) /\ Jump("break", b, n)
  BY BreakWithin
<1> HIDE DEF n
<1>2. Fine(v', clos)
  BY <1>1, JumpStep
<1> QED
  BY <1>1, <1>2 DEF IInv, Jump

LEMMA GotoWithin ==
  ASSUME IInv, NEW b, NEW n, Goto(b, n)
  PROVE  Within(v, b, n) /\ Jump("goto", b, n)
<1>1. /\ Running /\ b \in DOMAIN Top(v).scopes /\ n \in Top(v).scopes[b].size .. Locals(v)
      /\ Jump("goto", b, n)
  BY DEF Goto
<1>2. v.frames # <<>> /\ Top(v) \in FrameT /\ FrameOK(Top(v), Len(v.stack)) /\ Len(v.stack) \in Nat
  BY <1>1, TopFine
<1>3. DOMAIN Top(v).scopes = 1 .. Len(Top(v).scopes)
  BY <1>2, FrameParts
<1> QED
  BY <1>1, <1>2, <1>3 DEF Within

LEMMA GotoStep ==
  ASSUME IInv, Stray = {}, NEW b, NEW n, Goto(b, n)
  PROVE  IInv'
<1>1. Within(v, b, n) /\ Jump("goto", b, n)
  BY GotoWithin
<1>2. Fine(v', clos)
  BY <1>1, JumpStep
<1> QED
  BY <1>1, <1>2 DEF IInv, Jump

(* The frames once the error is on top and its block is that of the catch. *)
LEMMA CatchFrame ==
  ASSUME NEW fr, NEW e \in Nat, Shape(fr, e), fr # <<>>, NEW d, d = Len(fr),
         NEW b \in 1 .. Len(Last(fr).scopes)
  PROVE  Shape([fr EXCEPT ![d].scopes[b].try = FALSE], e)
<1> DEFINE f == Last(fr)
           sc == f.scopes
           s2 == [sc[b] EXCEPT !.try = FALSE]
           sc2 == [sc EXCEPT ![b] = s2]
           f2 == [f EXCEPT !.scopes = sc2]
<1>1. fr \in Seq(FrameT) /\ Len(fr) \in Nat /\ Len(fr) >= 1 /\ f = fr[Len(fr)] /\ f \in FrameT /\ FrameOK(f, e)
  BY TopIs
<1>2. /\ f.base \in Nat /\ sc \in Seq(ScopeT) /\ Len(sc) \in Nat /\ Len(sc) >= 1 /\ sc[1].size = 1
      /\ b \in 1 .. Len(sc) /\ \A a \in 1 .. Len(sc) : sc[a] \in ScopeT
  BY <1>1, FrameParts
<1>3. [fr EXCEPT ![d].scopes[b].try = FALSE] = [fr EXCEPT ![Len(fr)] = f2]
  BY <1>1
<1> HIDE DEF f
<1>4. s2 \in ScopeT /\ s2.size = sc[b].size /\ s2.try = FALSE
  BY <1>2 DEF ScopeT
<1> HIDE DEF s2
<1>5. /\ sc2 \in Seq(ScopeT) /\ Len(sc2) = Len(sc) /\ sc2[b] = s2
      /\ \A a \in 1 .. Len(sc) : a # b => sc2[a] = sc[a]
  BY <1>2, <1>4, ExceptSeq
<1> HIDE DEF sc2
<1>6. f2 \in FrameT /\ f2.base = f.base /\ f2.scopes = sc2
  BY <1>1, <1>5 DEF FrameT
<1> HIDE DEF f2
<1>7. FrameOK(f2, e)
  <2>1. \A a \in 1 .. Len(sc) : sc2[a].size = sc[a].size /\ (sc2[a].try => sc[a].try)
    BY <1>4, <1>5
  <2>2. f2.scopes # <<>> /\ f2.scopes[1].size = 1
    <3>1. 1 \in 1 .. Len(sc) /\ Len(<<>>) = 0
      BY <1>2
    <3> QED
      BY <1>2, <1>5, <1>6, <2>1, <3>1
  <2> HIDE DEF sc
  <2> QED
    BY <1>1, <1>5, <1>6, <2>1, <2>2 DEF FrameOK, sc
<1>8. Shape([fr EXCEPT ![Len(fr)] = f2], e)
  BY <1>6, <1>7, ShapeTop DEF f
<1> QED
  BY <1>3, <1>8 DEF f2

(* A VM where the block of the catch has the error.                        *)
CatchBlocks(fr, b) == [TopBlocks(fr, b) EXCEPT ![Len(fr)].scopes[b].try = FALSE]

Caught(w, b, n, values, u) ==
    \E new : /\ NewLocals(SubSeq(w.stack, 1, Top(w).base + n), new, values)
             /\ u = VmOf(SubSeq(w.stack, 1, Top(w).base + n) \o new, CatchBlocks(w.frames, b),
                         w.open, w.outers)

LEMMA CatchStep ==
  ASSUME IInv, NEW w, Fine(w, clos), NEW d, d = Len(w.frames), NEW b, NEW n, Within(w, b, n),
         n = Top(w).scopes[b].size, Top(w).scopes[b].try,
         Exactly(w, Truncate(w, b, n)), NEW x \in Value
  PROVE  /\ Fine([WithLocals(Truncate(w, b, n), <<x>>) EXCEPT !.frames[d].scopes[b].try = FALSE], clos)
         /\ Caught(w, b, n, <<x>>,
                   [WithLocals(Truncate(w, b, n), <<x>>) EXCEPT !.frames[d].scopes[b].try = FALSE])
<1> DEFINE st == w.stack
           fr == w.frames
           op == w.open
           ou == w.outers
           f == Top(w)
           m == f.base + n
           st2 == SubSeq(st, 1, m)
           fr2 == TopBlocks(fr, b)
           fr3 == [fr2 EXCEPT ![d].scopes[b].try = FALSE]
           u == Truncate(w, b, n)
           values == <<x>>
<1>1. /\ w = VmOf(st, fr, op, ou) /\ Good(st, op, ou, clos) /\ Shape(fr, Len(st))
      /\ st \in Seq(SlotT) /\ Len(st) \in Nat /\ fr # <<>> /\ DOMAIN op = 1 .. Len(op)
      /\ f = Last(fr) /\ fr \in Seq(FrameT)
  BY FineIs, GoodTypes DEF Within, Top
<1>2. f \in FrameT /\ FrameOK(f, Len(st)) /\ Len(fr) \in Nat /\ Len(fr) >= 1
  BY <1>1, TopIs
<1>3. b \in 1 .. Len(f.scopes) /\ n \in f.scopes[b].size .. Len(st) - f.base
  BY DEF Within, Locals
<1>4. f.base \in Nat /\ f.scopes[b].size \in Nat /\ f.scopes \in Seq(ScopeT)
  BY <1>1, <1>2, <1>3, FrameParts
<1>5. n \in Nat /\ m \in 0 .. Len(st) /\ m \in Nat
  BY <1>1, <1>3, <1>4
<1>6. n < MaxLocals /\ m < MaxStack
  BY <1>2, <1>3 DEF FrameOK
<1>7. u = VmOf(st2, fr2, op, ou)
  <2>1. Truncate(VmOf(st, fr, op, ou), b, n) = VmOf(SubSeq(st, 1, Last(fr).base + n), fr2, op, ou)
    BY TruncateIs
  <2> HIDE DEF st, fr, op, ou, fr2
  <2> QED
    BY <1>1, <2>1
<1> HIDE DEF u, f, fr2, st2, m
<1>8. Len(st2) = m
  BY <1>1, <1>5, FirstOf DEF st2
<1>9. \A j \in 1 .. Len(op) : ~(ou[op[j]].idx > m)
  <2>1. u.open = op /\ u.stack = st2
    BY <1>7, VmParts
  <2>2. \A j \in 1 .. Len(op) : op[j] \in ToSet(op)
    BY <1>1 DEF ToSet
  <2> QED
    BY <1>1, <1>8, <2>1, <2>2 DEF Exactly, u
<1>10. Good(st2, op, ou, clos)
  BY <1>1, <1>5, <1>9, CutNone DEF st2
<1>11. Shape(fr2, m) /\ fr2 = [fr EXCEPT ![Len(fr)] = [f EXCEPT !.scopes = SubSeq(@, 1, b)]]
  <2>1. /\ b \in 1 .. Len(Last(fr).scopes)
        /\ n \in Last(fr).scopes[b].size .. Len(st) - Last(fr).base
    BY <1>1, <1>3
  <2> HIDE DEF st, fr
  <2>2. /\ Shape(TopBlocks(fr, b), Last(fr).base + n)
        /\ TopBlocks(fr, b) = [fr EXCEPT ![Len(fr)] = [Last(fr) EXCEPT !.scopes = SubSeq(@, 1, b)]]
    BY <1>1, <2>1, CutFrame
  <2> QED
    BY <1>1, <2>2 DEF fr2, m
<1>12. /\ Len(fr2) = d /\ fr2 # <<>> /\ Last(fr2).base = f.base
       /\ b \in 1 .. Len(Last(fr2).scopes)
  <2> DEFINE f2 == [f EXCEPT !.scopes = SubSeq(@, 1, b)]
  <2>1. f2.base = f.base /\ f2.scopes = SubSeq(f.scopes, 1, b)
    BY <1>2 DEF FrameT
  <2>2. Len(SubSeq(f.scopes, 1, b)) = b /\ b \in Nat /\ b >= 1
    <3>1. b \in 0 .. Len(f.scopes)
      BY <1>3, <1>4
    <3> QED
      BY <1>3, <1>4, <3>1, FirstOf
  <2> HIDE DEF f2
  <2>3. Len(fr2) = Len(fr) /\ fr2[Len(fr)] = f2
    BY <1>1, <1>2, <1>11 DEF f2
  <2>4. fr2 # <<>> /\ Last(fr2) = f2
    BY <1>2, <2>3 DEF Last
  <2> QED
    BY <2>1, <2>2, <2>3, <2>4
<1>13. Shape(fr2, m + 1)
  <2>0. m = f.base + n /\ f.base \in Nat /\ n \in Nat /\ Last(fr2).base = f.base
    BY <1>4, <1>5, <1>12 DEF m
  <2> HIDE DEF fr2
  <2>1. m + 1 \in Nat /\ m <= m + 1 /\ (m + 1) - Last(fr2).base <= MaxLocals
    BY <1>6, <2>0, Constants, SMTT(30)
  <2> QED
    BY <1>5, <1>11, <1>12, <2>1, ShapeMore
<1>14. values \in Seq(Value) /\ Len(values) = 1
  BY OneValue
<1> HIDE DEF values, st, fr, op, ou
<1>15. Extended(st2, fr2, op, ou, values)
  <2>1. Len(st2) + Len(values) <= MaxStack /\ Len(values) <= MaxLocals /\ Shape(fr2, Len(st2) + Len(values))
    BY <1>5, <1>6, <1>8, <1>13, <1>14, Constants
  <2> QED
    BY <1>10, <1>14, <2>1, ExtendFine
<1>16. PICK new : /\ NewLocals(st2, new, values)
                  /\ WithLocals(u, values) = VmOf(st2 \o new, fr2, op, ou)
                  /\ Fine(VmOf(st2 \o new, fr2, op, ou), clos)
  BY <1>7, <1>15 DEF Extended
<1> DEFINE st3 == st2 \o new
<1>17. Good(st3, op, ou, clos) /\ Shape(fr2, Len(st3)) /\ Len(st3) \in Nat
  <2> HIDE DEF st3
  <2>1. VmOf(st3, fr2, op, ou).stack = st3 /\ VmOf(st3, fr2, op, ou).frames = fr2
        /\ VmOf(st3, fr2, op, ou).open = op /\ VmOf(st3, fr2, op, ou).outers = ou
    BY VmParts
  <2>2. Fine(VmOf(st3, fr2, op, ou), clos)
    BY <1>16 DEF st3
  <2>3. Good(st3, op, ou, clos) /\ Shape(fr2, Len(st3))
    BY <2>1, <2>2 DEF Fine
  <2> QED
    BY <2>3, GoodTypes
<1> HIDE DEF st3
<1>18. Shape(fr3, Len(st3))
  BY <1>12, <1>17, CatchFrame
<1>19. [WithLocals(u, values) EXCEPT !.frames[d].scopes[b].try = FALSE] = VmOf(st3, fr3, op, ou)
  <2> DEFINE y == VmOf(st3, fr2, op, ou)
  <2>1. y.frames = fr2
    BY VmParts
  <2>2. WithLocals(u, values) = y
    BY <1>16 DEF st3
  <2> HIDE DEF y, fr3
  <2>3. [WithLocals(u, values) EXCEPT !.frames[d].scopes[b].try = FALSE] = [y EXCEPT !.frames = fr3]
    BY <2>1, <2>2 DEF fr3
  <2>4. [VmOf(st3, fr2, op, ou) EXCEPT !.frames = fr3] = VmOf(st3, fr3, op, ou)
    BY PutFrames
  <2> QED
    BY <2>3, <2>4 DEF y
<1> HIDE DEF fr3
<1>20. Fine(VmOf(st3, fr3, op, ou), clos)
  BY <1>17, <1>18, FineOf
<1>21. Caught(w, b, n, values, VmOf(st3, fr3, op, ou))
  <2>1. fr3 = CatchBlocks(w.frames, b)
    BY DEF fr3, fr2, fr, CatchBlocks
  <2>2. st2 = SubSeq(w.stack, 1, Top(w).base + n)
    BY DEF st2, st, m, f
  <2>3. op = w.open /\ ou = w.outers
    BY DEF op, ou
  <2> QED
    BY <1>16, <2>1, <2>2, <2>3 DEF st3, Caught
<1> QED
  BY <1>19, <1>20, <1>21 DEF u, values

LEMMA RoomAbove ==
  ASSUME NEW n \in Nat, NEW B \in Nat, NEW e \in Nat, B + n <= e
  PROVE  n \in n .. e - B
OBVIOUS

(* A step that leaves the calls above the first d for their handler.       *)
Handles(d, x) ==
    \E b, n : /\ Within(LeaveFrames(v, d), b, n)
              /\ Caught(LeaveFrames(v, d), b, n, <<x>>, v')
              /\ gen' = Killed(d)

LEMMA ThrowStep ==
  ASSUME IInv, Stray = {}, NEW x \in Value, Throw(x)
  PROVE  /\ IInv'
         /\ \/ v' = LeaveFrames(v, 0) /\ gen' = Killed(0)
            \/ \E d \in 1 .. Len(v.frames) : Handles(d, x)
<1> DEFINE D == {t[1] : t \in Tries}
           d == Max(D)
           T == {t[2] : t \in {s \in Tries : s[1] = d}}
           b == Max(T)
           w == LeaveFrames(v, d)
           n == Top(w).scopes[b].size
           u == Truncate(w, b, n)
<1>1. /\ Fine(v, clos) /\ gen \in GenT /\ clos' = clos
      /\ v.frames \in Seq(FrameT) /\ Len(v.frames) \in Nat /\ DOMAIN v.frames = 1 .. Len(v.frames)
      /\ Shape(v.frames, Len(v.stack)) /\ Len(v.stack) \in Nat
  BY FineIs DEF IInv, Throw
<1>2. CASE Tries = {}
  <2>1. v' = LeaveFrames(v, 0) /\ gen' = Killed(0)
    BY <1>2 DEF Throw
  <2>2. Fine(v', clos)
    BY <1>1, <2>1, LeaveFine
  <2>3. IInv'
    BY <1>1, <2>1, <2>2, KilledIs DEF IInv
  <2> QED
    BY <2>1, <2>3
<1>3. CASE Tries # {}
  <2>1. /\ Exactly(w, u) /\ gen' = Killed(d)
        /\ v' = [WithLocals(u, <<x>>) EXCEPT !.frames[d].scopes[b].try = FALSE]
    BY <1>3 DEF Throw
  <2>2. \A t \in Tries : /\ t[1] \in 1 .. Len(v.frames) /\ t[2] \in Nat /\ t[2] <= MaxScopes
                         /\ t[2] \in DOMAIN v.frames[t[1]].scopes
                         /\ v.frames[t[1]].scopes[t[2]].try
    BY <1>1 DEF Tries
  <2>3. d \in D
    <3>1. D \in SUBSET Nat /\ D # {} /\ \A y \in D : y <= Len(v.frames)
      BY <1>1, <1>3, <2>2
    <3> HIDE DEF D
    <3> QED
      BY <1>1, <3>1, GreatestNumber
  <2> HIDE DEF d
  <2>4. b \in T
    <3>1. T \in SUBSET Nat /\ \A y \in T : y <= MaxScopes
      BY <2>2
    <3>2. T # {}
      BY <2>3
    <3> HIDE DEF T
    <3> QED
      BY <3>1, <3>2, Bounds, GreatestNumber
  <2> HIDE DEF b
  <2>5. PICK t \in Tries : t[1] = d /\ t[2] = b
    BY <2>4
  <2>6. /\ d \in 1 .. Len(v.frames) /\ b \in Nat /\ b \in DOMAIN v.frames[d].scopes
        /\ v.frames[d].scopes[b].try
    BY <2>2, <2>5
  <2>7. d \in 0 .. Len(v.frames) /\ d >= 1 /\ d \in Nat
    BY <1>1, <2>6
  <2>8. Fine(w, clos) /\ w.frames = SubSeq(v.frames, 1, d)
    BY <1>1, <2>7, LeaveFine
  <2>9. Len(w.frames) = d /\ w.frames[d] = v.frames[d]
    <3>1. Len(SubSeq(v.frames, 1, d)) = d /\ \A i \in 1 .. d : SubSeq(v.frames, 1, d)[i] = v.frames[i]
      BY <1>1, <2>7, FirstOf
    <3>2. d \in 1 .. d
      BY <2>7
    <3> QED
      BY <2>8, <3>1, <3>2
  <2> HIDE DEF w
  <2>10. /\ Shape(w.frames, Len(w.stack)) /\ Len(w.stack) \in Nat /\ w.frames # <<>>
    <3>1. Len(<<>>) = 0
      OBVIOUS
    <3>2. w.frames # <<>>
      BY <2>7, <2>9, <3>1
    <3>3. Shape(w.frames, Len(w.stack)) /\ Len(w.stack) \in Nat
      BY <2>8, FineIs
    <3> QED
      BY <3>2, <3>3
  <2>11. Top(w) = v.frames[d] /\ Top(w) \in FrameT /\ FrameOK(Top(w), Len(w.stack))
    BY <2>9, <2>10, TopIs DEF Top
  <2>12. /\ Top(w).base \in Nat /\ DOMAIN Top(w).scopes = 1 .. Len(Top(w).scopes)
         /\ \A a \in 1 .. Len(Top(w).scopes) :
                Top(w).scopes[a].size \in Nat /\ Top(w).base + Top(w).scopes[a].size <= Len(w.stack)
    BY <2>10, <2>11, FrameParts
  <2>13. b \in 1 .. Len(Top(w).scopes) /\ Top(w).scopes[b].try
    BY <2>6, <2>11, <2>12
  <2>14. Within(w, b, n)
    <3>1. n \in Nat /\ Top(w).base + n <= Len(w.stack)
      BY <2>12, <2>13
    <3>2. n \in n .. Locals(w)
      <4>1. Locals(w) = Len(w.stack) - Top(w).base
        BY DEF Locals
      <4>2. n \in n .. Len(w.stack) - Top(w).base
        BY <2>10, <2>12, <3>1, RoomAbove
      <4> QED
        BY <4>1, <4>2, Zenon
    <3> QED
      BY <2>10, <2>13, <3>2 DEF Within
  <2> HIDE DEF n
  <2>15. /\ Fine([WithLocals(u, <<x>>) EXCEPT !.frames[d].scopes[b].try = FALSE], clos)
         /\ Caught(w, b, n, <<x>>, [WithLocals(u, <<x>>) EXCEPT !.frames[d].scopes[b].try = FALSE])
    <3>1. n = Top(w).scopes[b].size
      BY DEF n
    <3> QED
      BY <2>1, <2>8, <2>9, <2>13, <2>14, <3>1, CatchStep
  <2> HIDE DEF u
  <2>16. Fine(v', clos) /\ Caught(w, b, n, <<x>>, v')
    BY <2>1, <2>15
  <2>17. Handles(d, x)
    BY <2>1, <2>14, <2>16 DEF Handles, w
  <2>18. IInv'
    BY <1>1, <2>1, <2>16, KilledIs DEF IInv
  <2> QED
    BY <2>6, <2>17, <2>18, Zenon
<1> QED
  BY <1>2, <1>3, Zenon

(* The outers that are in use are as they were.                            *)
UsedSame(ou, ou2) == \A o \in Outer : ou[o].at # "free" => ou2[o] = ou[o]

LEMMA CaptureLocalStep ==
  ASSUME IInv, NEW k \in Closure, NEW i, CaptureLocal(k, i)
  PROVE  IInv' /\ v'.stack = v.stack /\ v'.frames = v.frames /\ UsedSame(v.outers, v'.outers)
<1> DEFINE st == v.stack
           fr == v.frames
           op == v.open
           ou == v.outers
           s == Top(v).base + i
           n == Passed(v, s)
           there == {j \in 1 .. n : ou[op[j]].idx = s}
           free == {x \in Outer : ou[x].at = "free"}
           o == Min(free)
           found == FindOuter(v, s)
<1>1. /\ Running /\ clos[k] = NoClosure /\ i \in 1 .. Locals(v) /\ gen' = gen
      /\ clos' = [clos EXCEPT ![k] = [outer |-> found.outer, var |-> st[s].var]]
      /\ v' = found.vm
  BY DEF CaptureLocal, Unborn
<1>2. /\ v = VmOf(st, fr, op, ou) /\ Good(st, op, ou, clos) /\ Shape(fr, Len(st))
      /\ Len(st) \in Nat /\ Locals(v) = Len(st) - Top(v).base /\ Top(v).base \in Nat
      /\ op \in Seq(Outer) /\ ou \in [Outer -> OuterT] /\ OpenOK(st, op, ou)
      /\ Fine(v, clos) /\ gen \in GenT /\ Len(op) \in Nat
  BY <1>1, TopFine, GoodTypes DEF IInv
<1>3. s \in 1 .. Len(st) /\ s \in Nat
  BY <1>1, <1>2
<1> HIDE DEF s
<1>4. /\ n \in 0 .. Len(op) /\ n \in Nat /\ n <= Len(op)
      /\ \A j \in 1 .. Len(op) : ou[op[j]].idx >= s <=> j <= n
  <2>1. /\ OpenOK(st, v.open, v.outers) /\ v.open \in Seq(Outer)
        /\ v.outers \in [Outer -> OuterT] /\ s \in Int
    BY <1>2, <1>3
  <2>2. /\ Passed(v, s) \in 0 .. Len(v.open)
        /\ \A j \in 1 .. Len(v.open) : v.outers[v.open[j]].idx >= s <=> j <= Passed(v, s)
    BY <2>1, PassedIs
  <2> QED
    BY <1>2, <2>2
<1>5. found = IF there # {} THEN [vm |-> v, outer |-> op[Min(there)]]
              ELSE [vm |-> [v EXCEPT !.open = InsertAt(@, n + 1, o),
                                     !.outers[o] = [at |-> "stack", idx |-> s, value |-> NoVal]],
                    outer |-> o]
  BY DEF FindOuter
<1> HIDE DEF found, n
<1>6. CASE there # {}
  <2> DEFINE j == Min(there)
  <2>1. j \in there
    <3>1. there \in SUBSET Nat
      BY <1>4
    <3> HIDE DEF there
    <3> QED
      BY <1>6, <3>1, LeastNumber
  <2> HIDE DEF j
  <2>2. j \in 1 .. Len(op) /\ s = ou[op[j]].idx
    BY <1>2, <1>4, <2>1
  <2> HIDE DEF there
  <2>3. found.vm = v /\ found.outer = op[j]
    BY <1>5, <1>6 DEF j
  <2>4. v' = v /\ clos' = Captures(clos, k, op[j], st, s)
    BY <1>1, <2>3 DEF Captures
  <2>5. Good(st, op, ou, Captures(clos, k, op[j], st, s))
    <3> HIDE DEF st, op, ou
    <3> QED
      BY <1>1, <1>2, <2>2, FoundGood
  <2>6. Fine(v', clos')
    BY <1>2, <2>4, <2>5 DEF Fine
  <2>7. UsedSame(v.outers, v'.outers)
    BY <2>4 DEF UsedSame
  <2> QED
    BY <1>1, <1>2, <2>4, <2>6, <2>7 DEF IInv
<1>7. CASE there = {}
  <2>1. o \in Outer /\ ou[o].at = "free"
    <3>0. \E x \in Outer : ou[x].at = "free"
      <4> HIDE DEF st, op, ou
      <4> QED
        BY <1>1, <1>2, FreeOuter
    <3>1. free \in SUBSET Nat /\ free # {}
      BY <3>0, Constants
    <3>2. o \in free
      <4> HIDE DEF free
      <4> QED
        BY <3>1, LeastNumber
    <3> QED
      BY <3>2
  <2>2. WalkTo(op, ou, s, n)
    <3>1. ASSUME NEW j \in 1 .. Len(op), ou[op[j]].idx = s PROVE FALSE
      <4>1. j <= n
        BY <1>3, <1>4, <3>1
      <4>2. j \in 1 .. n
        BY <1>2, <1>4, <4>1
      <4> QED
        BY <1>7, <3>1, <4>2
    <3> QED
      BY <1>4, <3>1 DEF WalkTo
  <2> HIDE DEF o, there
  <2> DEFINE op2 == InsertAt(op, n + 1, o)
             ou2 == [ou EXCEPT ![o] = AtSlot(s)]
             c2 == Captures(clos, k, o, st, s)
             v2 == [v EXCEPT !.open = op2, !.outers = ou2]
  <2>3. found.vm = v2 /\ found.outer = o
    BY <1>5, <1>7 DEF AtSlot
  <2>4. Good(st, op2, ou2, c2)
    <3> HIDE DEF st, op, ou
    <3> QED
      BY <1>1, <1>2, <1>3, <1>4, <2>1, <2>2, InsertGood
  <2>5. clos' = c2
    BY <1>1, <2>3 DEF Captures
  <2> HIDE DEF op2, ou2, c2
  <2>6. v' = VmOf(st, fr, op2, ou2)
    <3>1. v' = [VmOf(st, fr, op, ou) EXCEPT !.open = op2, !.outers = ou2]
      BY <1>1, <1>2, <2>3
    <3> HIDE DEF st, fr
    <3>2. v' \in VmSet(st, fr, op2, ou2)
      BY <3>1 DEF VmOf, VmSet
    <3> QED
      BY <3>2, VmInSet
  <2>7. Fine(v', clos')
    BY <1>2, <2>4, <2>5, <2>6, FineOf
  <2>8. v'.stack = v.stack /\ v'.frames = v.frames /\ v'.outers = ou2
    BY <2>6, VmParts
  <2>9. UsedSame(v.outers, ou2)
    BY <1>2, <2>1 DEF UsedSame, ou2
  <2>10. gen' \in GenT
    BY <1>1, <1>2
  <2> HIDE DEF found, s
  <2> QED
    BY <2>7, <2>8, <2>9, <2>10 DEF IInv
<1> QED
  BY <1>6, <1>7

LEMMA CopyStep ==
  ASSUME IInv, NEW k \in Closure, NEW l \in Closure, clos[k] = NoClosure,
         clos' = [clos EXCEPT ![k] = clos[l]], v' = v, gen' = gen
  PROVE  IInv'
<1>1. Good(v.stack, v.open, v.outers, [clos EXCEPT ![k] = clos[l]])
  BY CloneGood DEF IInv, Fine
<1>2. Fine(v', clos')
  BY <1>1 DEF IInv, Fine
<1> QED
  BY <1>2 DEF IInv

LEMMA CaptureOuterStep ==
  ASSUME IInv, NEW k \in Closure, CaptureOuter(k)
  PROVE  IInv'
<1>1. /\ Running /\ clos[k] = NoClosure /\ Top(v).fn # None /\ v' = v /\ gen' = gen
      /\ clos' = [clos EXCEPT ![k] = clos[Top(v).fn]]
  BY DEF CaptureOuter, Unborn
<1>2. Top(v).fn \in Closure
  <2>1. Top(v) \in FrameT
    BY <1>1, TopFine
  <2> QED
    BY <1>1, <2>1 DEF FrameT
<1> QED
  BY <1>1, <1>2, CopyStep

LEMMA CloneClosureStep ==
  ASSUME IInv, NEW k \in Closure, NEW l \in Closure, CloneClosure(k, l)
  PROVE  IInv'
BY CopyStep DEF CloneClosure, Unborn

(* A value in a slot changes.                                              *)
LEMMA PutSlot ==
  ASSUME IInv, NEW i \in 1 .. Len(v.stack), NEW x \in Value
  PROVE  Fine([v EXCEPT !.stack[i].val = x], clos)
<1> DEFINE st == v.stack
           s2 == [st[i] EXCEPT !.val = x]
           st2 == [st EXCEPT ![i] = s2]
<1>1. /\ v = VmOf(st, v.frames, v.open, v.outers) /\ Good(st, v.open, v.outers, clos)
      /\ Shape(v.frames, Len(st)) /\ st \in Seq(SlotT) /\ Len(st) \in Nat /\ v \in VmT
  BY FineIs DEF IInv, Fine
<1>2. st[i] \in SlotT
  BY <1>1, GoodOuters
<1>3. s2 \in SlotT /\ s2.var = st[i].var
  BY <1>2 DEF SlotT
<1>4. [v EXCEPT !.stack[i].val = x] = [v EXCEPT !.stack = st2]
  OBVIOUS
<1> HIDE DEF s2
<1>5. SameVars(st, st2) /\ Len(st2) = Len(st)
  <2>1. /\ st2 \in Seq(SlotT) /\ Len(st2) = Len(st) /\ st2[i] = s2
        /\ \A j \in 1 .. Len(st) : j # i => st2[j] = st[j]
    BY <1>1, <1>3, ExceptSeq
  <2> HIDE DEF st2
  <2> QED
    BY <1>3, <2>1 DEF SameVars
<1> HIDE DEF st2
<1>6. Good(st2, v.open, v.outers, clos)
  BY <1>1, <1>5, ValueGood
<1>7. [v EXCEPT !.stack = st2] = VmOf(st2, v.frames, v.open, v.outers)
  <2>1. [v EXCEPT !.stack = st2] \in VmSet(st2, v.frames, v.open, v.outers)
    BY <1>1 DEF VmT, VmSet
  <2> QED
    BY <2>1, VmInSet
<1>8. Fine(VmOf(st2, v.frames, v.open, v.outers), clos)
  BY <1>1, <1>5, <1>6, FineOf
<1> QED
  BY <1>4, <1>7, <1>8, Zenon

LEMMA SetLocalStep ==
  ASSUME IInv, NEW i, NEW x \in Value, SetLocal(i, x)
  PROVE  IInv'
<1>1. /\ Running /\ i \in 1 .. Locals(v) /\ clos' = clos /\ gen' = gen
      /\ v' = [v EXCEPT !.stack[Top(v).base + i].val = x]
  BY DEF SetLocal
<1>2. Top(v).base + i \in 1 .. Len(v.stack)
  <2>1. Locals(v) = Len(v.stack) - Top(v).base /\ Top(v).base \in Nat /\ Len(v.stack) \in Nat
    BY <1>1, TopFine
  <2> QED
    BY <1>1, <2>1
<1>3. Fine(v', clos)
  BY <1>1, <1>2, PutSlot
<1> QED
  BY <1>1, <1>3 DEF IInv

LEMMA SetOuterStep ==
  ASSUME IInv, NEW k \in Closure, NEW x \in Value, SetOuter(k, x)
  PROVE  IInv'
<1> DEFINE o == clos[k].outer
           p == v.outers[o]
<1>1. /\ clos[k] # NoClosure /\ clos' = clos /\ gen' = gen
      /\ v' = CASE p.at = "own" -> [v EXCEPT !.outers[o].value = x]
                [] p.at = "stack" -> [v EXCEPT !.stack[p.idx].val = x]
                [] OTHER -> v
  BY DEF SetOuter, Unborn
<1>2. /\ v = VmOf(v.stack, v.frames, v.open, v.outers) /\ Good(v.stack, v.open, v.outers, clos)
      /\ Shape(v.frames, Len(v.stack)) /\ v.outers \in [Outer -> OuterT]
      /\ OpenOK(v.stack, v.open, v.outers) /\ v \in VmT
  BY FineIs, GoodTypes DEF IInv, Fine
<1>3. /\ o \in Outer /\ (p.at = "own" \/ \E j \in 1 .. Len(v.open) : v.open[j] = o)
  <2>1. /\ clos[k].outer \in Outer
        /\ \/ v.outers[clos[k].outer].at = "own"
           \/ \E j \in 1 .. Len(v.open) : v.open[j] = clos[k].outer
    <3>1. clos[k] # NoClosure /\ Good(v.stack, v.open, v.outers, clos)
      BY <1>1, <1>2
    <3> QED
      BY <3>1, ClosureOuter
  <2> QED
    BY <2>1
<1> HIDE DEF o
<1>4. CASE p.at = "own"
  <2> DEFINE p2 == [p EXCEPT !.value = x]
             ou2 == [v.outers EXCEPT ![o] = p2]
  <2>1. v' = [v EXCEPT !.outers = ou2]
    BY <1>1, <1>4
  <2>2. p2 \in OuterT /\ p2.at = p.at /\ p2.idx = p.idx
    BY <1>2, <1>3 DEF OuterT
  <2> HIDE DEF p2
  <2>3. SamePlaces(v.outers, ou2)
    BY <1>2, <1>3, <2>2 DEF SamePlaces
  <2> HIDE DEF ou2
  <2>4. Good(v.stack, v.open, ou2, clos)
    BY <1>2, <2>3, OwnGood
  <2>5. v' = VmOf(v.stack, v.frames, v.open, ou2)
    <3>1. v' \in VmSet(v.stack, v.frames, v.open, ou2)
      BY <1>2, <2>1 DEF VmT, VmSet
    <3> QED
      BY <3>1, VmInSet
  <2>6. Fine(v', clos)
    BY <1>2, <2>4, <2>5, FineOf
  <2> QED
    BY <1>1, <2>6 DEF IInv
<1>5. CASE p.at # "own"
  <2>1. p.at = "stack" /\ p.idx \in 1 .. Len(v.stack)
    BY <1>2, <1>3, <1>5 DEF OpenOK
  <2>2. v' = [v EXCEPT !.stack[p.idx].val = x]
    BY <1>1, <2>1
  <2>3. Fine(v', clos)
    BY <2>1, <2>2, PutSlot
  <2> QED
    BY <1>1, <2>3 DEF IInv
<1> QED
  BY <1>4, <1>5

LEMMA NewGeneratorStep ==
  ASSUME IInv, NEW x \in Value, NewGenerator(x)
  PROVE  IInv'
<1>1. gen' = [state |-> "suspended", vals |-> <<x>>] /\ v' = v /\ clos' = clos
  BY DEF NewGenerator
<1>2. gen' \in GenT
  <2> DEFINE vs == <<x>>
  <2>1. vs \in Seq(Value) /\ Len(vs) \in 1 .. MaxLocals
    BY OneValue
  <2> HIDE DEF vs
  <2>2. [state |-> "suspended", vals |-> vs] \in GenT
    BY <2>1 DEF GenT
  <2> QED
    BY <1>1, <2>2 DEF vs
<1> QED
  BY <1>1, <1>2 DEF IInv

LEMMA InitStep ==
  ASSUME Init
  PROVE  IInv
<1> DEFINE ou == [o \in Outer |-> Free]
           c == [k \in Closure |-> NoClosure]
<1>1. v = VmOf(<<>>, <<>>, <<>>, ou) /\ clos = c /\ gen = NoGen
  BY DEF Init, VmOf
<1>2. <<>> \in Seq(SlotT) /\ <<>> \in Seq(Outer) /\ <<>> \in Seq(FrameT) /\ Len(<<>>) = 0
      /\ MaxStack \in Nat
  BY Constants
<1>3. Types(<<>>, <<>>, ou, c)
  <2>1. Free \in OuterT /\ NoClosure \in ClosT
    BY DEF Free, OuterT, ClosT
  <2> QED
    BY <1>2, <2>1 DEF Types
<1>4. \A j : ~(j \in 1 .. Len(<<>>))
  BY <1>2
<1>5. OpenOK(<<>>, <<>>, ou) /\ Owned(ou, c)
  <2>1. \A o \in Outer : ou[o].at = "free"
    BY DEF Free
  <2> HIDE DEF ou
  <2> QED
    BY <1>4, <2>1 DEF OpenOK, Owned
<1>6. Numbered(<<>>, c) /\ Distinct(<<>>)
  BY <1>4 DEF Numbered, Distinct
<1>7. Lexical(<<>>, ou, c) /\ Shared(c)
  BY DEF Lexical, Shared
<1>8. Good(<<>>, <<>>, ou, c)
  BY <1>3, <1>5, <1>6, <1>7 DEF Good
<1>9. Shape(<<>>, Len(<<>>))
  BY <1>2 DEF Shape, End
<1>10. Fine(v, clos)
  <2> HIDE DEF ou, c
  <2> QED
    BY <1>1, <1>8, <1>9, FineOf
<1>11. gen \in GenT
  BY <1>1 DEF NoGen, GenT
<1> QED
  BY <1>10, <1>11 DEF IInv

LEMMA NextStep ==
  ASSUME Stray = {}, IInv, [Next]_vars
  PROVE  IInv'
<1>1. CASE UNCHANGED vars
  BY <1>1 DEF vars, IInv
<1>2. ASSUME NEW k \in Closure \cup {None}, NEW x \in Value, Call(k, x) \/ TailCall(k, x)
      PROVE  IInv'
  BY <1>2, CallStep, TailCallStep
<1>3. ASSUME NEW x \in Value, Throw(x) \/ NewGenerator(x)
      PROVE  IInv'
  BY <1>3, ThrowStep, NewGeneratorStep
<1>4. ASSUME NEW try \in BOOLEAN, BeginScope(try)
      PROVE  IInv'
  BY <1>4, BeginScopeStep
<1>5. ASSUME NEW b, Break(b) \/ \E n \in 0 .. MaxLocals : Goto(b, n)
      PROVE  IInv'
  BY <1>5, BreakStep, GotoStep
<1>6. ASSUME NEW k \in Closure, NEW i, CaptureLocal(k, i)
      PROVE  IInv'
  BY <1>6, CaptureLocalStep
<1>7. ASSUME NEW i, NEW x \in Value, SetLocal(i, x)
      PROVE  IInv'
  BY <1>7, SetLocalStep
<1>8. ASSUME NEW k \in Closure, NEW x \in Value, SetOuter(k, x)
      PROVE  IInv'
  BY <1>8, SetOuterStep
<1>9. ASSUME NEW k \in Closure, CaptureOuter(k) \/ \E l \in Closure : CloneClosure(k, l)
      PROVE  IInv'
  BY <1>9, CaptureOuterStep, CloneClosureStep
<1>10. CASE Declare \/ Return \/ EndScope \/ Finalize \/ ReserveStack \/ Yield \/ Resume
  BY <1>10, DeclareStep, ReturnStep, EndScopeStep, FinalizeStep, ReserveStackStep, YieldStep, ResumeStep
<1> QED
  BY <1>1, <1>2, <1>3, <1>4, <1>5, <1>6, <1>7, <1>8, <1>9, <1>10 DEF Next

-----------------------------------------------------------------------------
(* The invariants of the runs follow.                                      *)

(* Every reachable state is one of those the proofs above are about.       *)
THEOREM Invariance == Stray = {} => (Spec => []IInv)
<1> SUFFICES ASSUME Stray = {} PROVE Spec => []IInv
  OBVIOUS
<1>1. Init => IInv
  BY InitStep
<1>2. IInv /\ [Next]_vars => IInv'
  BY NextStep
<1> QED
  BY <1>1, <1>2, PTL DEF Spec

(* The values of the VM, the closures and the generator are of their types.*)
THEOREM TypeCorrect == Stray = {} => (Spec => []TypeOK)
<1> SUFFICES ASSUME Stray = {} PROVE Spec => []TypeOK
  OBVIOUS
<1>1. IInv => TypeOK
  <2> SUFFICES ASSUME IInv PROVE TypeOK
    OBVIOUS
  <2>1. /\ v.stack \in Seq(SlotT) /\ v.open \in Seq(Outer) /\ v.frames \in Seq(FrameT)
        /\ v.outers \in [Outer -> OuterT] /\ clos \in [Closure -> ClosT] /\ gen \in GenT
    BY FineIs, GoodTypes DEF IInv
  <2>2. FrameT = [fn : Closure \cup {None}, base : Nat, scopes : Scopes, gen : BOOLEAN]
    BY DEF FrameT, Scopes, ScopeT
  <2>3. clos \in [Closure -> [outer : Outer \cup {0}, var : Var \cup {0}]]
    <3>1. \A q \in ClosT : q \in [outer : Outer \cup {0}, var : Var \cup {0}]
      BY DEF ClosT, NoClosure
    <3> QED
      BY <2>1, <3>1
  <2>4. gen \in [state : {"suspended"}, vals : Seq(Value)]
              \cup [state : {"none", "running", "dead"}, vals : {<<>>}]
    BY <2>1 DEF GenT
  <2> QED
    BY <2>1, <2>2, <2>3, <2>4 DEF TypeOK, SlotT, OuterT
<1>2. Spec => []IInv
  BY Invariance
<1> QED
  BY <1>1, <1>2, PTL

(* The list of open outers is exact: FindOuter and CloseOuters may stop at *)
(* the first outer below the slot they look for.                           *)
THEOREM OpenListIsExact == Stray = {} => (Spec => []OpenListExact)
<1> SUFFICES ASSUME Stray = {} PROVE Spec => []OpenListExact
  OBVIOUS
<1>1. IInv => OpenListExact
  <2> SUFFICES ASSUME IInv PROVE OpenListExact
    OBVIOUS
  <2>1. /\ OpenOK(v.stack, v.open, v.outers) /\ v.outers \in [Outer -> OuterT]
        /\ DOMAIN v.stack = 1 .. Len(v.stack) /\ DOMAIN v.open = 1 .. Len(v.open)
    BY FineIs, GoodTypes DEF IInv
  <2>2. /\ \A j \in DOMAIN v.open :
              v.outers[v.open[j]].at = "stack" /\ v.outers[v.open[j]].idx \in DOMAIN v.stack
        /\ \A i, j \in DOMAIN v.open :
              i < j => v.outers[v.open[i]].idx > v.outers[v.open[j]].idx
    BY <2>1 DEF OpenOK
  <2>3. ASSUME NEW o \in Outer \ ToSet(v.open) PROVE v.outers[o].at \in {"free", "own"}
    <3>1. \A j \in 1 .. Len(v.open) : v.open[j] # o
      BY <2>1 DEF ToSet
    <3> QED
      BY <2>1, <3>1 DEF OpenOK
  <2> QED
    BY <2>2, <2>3 DEF OpenListExact
<1>2. Spec => []IInv
  BY Invariance
<1> QED
  BY <1>1, <1>2, PTL

(* Scoping is lexical: closures share an outer just when they captured the *)
(* same variable, and it is the slot of that variable while it is in scope.*)
THEOREM ScopingIsLexical == Stray = {} => (Spec => []FreeVariablesAreLexical)
<1> SUFFICES ASSUME Stray = {} PROVE Spec => []FreeVariablesAreLexical
  OBVIOUS
<1>1. IInv => FreeVariablesAreLexical
  <2> SUFFICES ASSUME IInv PROVE FreeVariablesAreLexical
    OBVIOUS
  <2>1. /\ Lexical(v.stack, v.outers, clos) /\ Shared(clos) /\ DOMAIN v.stack = 1 .. Len(v.stack)
    BY FineIs, GoodTypes DEF IInv
  <2>2. ASSUME NEW k \in Closure \ Unborn
        PROVE  LET q == clos[k]  p == v.outers[q.outer]
               IN  IF \E i \in DOMAIN v.stack : v.stack[i].var = q.var
                   THEN /\ p.at = "stack" /\ p.idx \in DOMAIN v.stack
                        /\ v.stack[p.idx].var = q.var
                   ELSE p.at = "own"
    <3>1. LexicalBy(v.stack, v.outers, clos[k])
      BY <2>1 DEF Lexical, Unborn
    <3>2. clos[k].var \in VarsOf(v.stack) <=> \E i \in DOMAIN v.stack : v.stack[i].var = clos[k].var
      BY DEF VarsOf
    <3> QED
      BY <2>1, <3>1, <3>2 DEF LexicalBy
  <2>3. \A k, l \in Closure \ Unborn : clos[k].var = clos[l].var <=> clos[k].outer = clos[l].outer
    BY <2>1 DEF Shared
  <2> QED
    BY <2>2, <2>3 DEF FreeVariablesAreLexical
<1>2. Spec => []IInv
  BY Invariance
<1> QED
  BY <1>1, <1>2, PTL

-----------------------------------------------------------------------------
(* Captured locals are variables: what a step does to the values the outers*)
(* and the stack hold is what Variables does to the variables.             *)

ScopeOf(st) == [i \in DOMAIN st |-> st[i].var]
CallOf(f) == [fn |-> f.fn, below |-> f.base, gen |-> f.gen]
CallsOf(fr) == [d \in DOMAIN fr |-> CallOf(fr[d])]
HoldsOf(c) == [k \in Closure |-> IF c[k] = NoClosure THEN None ELSE c[k].var]

(* The values of the variables by f, where the VM has them.                *)
Values(st, ou, c, f) ==
    /\ \A i \in 1 .. Len(st) : f[st[i].var] = st[i].val
    /\ \A k \in Closure : c[k] # NoClosure /\ c[k].var \notin VarsOf(st)
                              => f[c[k].var] = ou[c[k].outer].value

(* An outer is as it was, or has taken the value of its slot.              *)
Takes(st, ou, ou2) ==
    \A o \in Outer : \/ ou2[o] = ou[o]
                     \/ ou[o].at = "stack" /\ ou2[o].value = st[ou[o].idx].val

LEMMA TakesNone ==
  ASSUME NEW st, NEW ou
  PROVE  Takes(st, ou, ou)
BY DEF Takes

LEMMA MappingIs ==
  ASSUME IInv
  PROVE  /\ Calls = CallsOf(v.frames) /\ Scope = ScopeOf(v.stack) /\ Holds = HoldsOf(clos)
BY DEF Calls, CallsOf, CallOf, Scope, ScopeOf, Holds, HoldsOf

(* What the closures and the slots reach.                                  *)
Reach(st, c) == VarsOf(st) \cup {HoldsOf(c)[k] : k \in Closure}

LEMMA ReachIs ==
  ASSUME NEW st, NEW c, NEW x \in Var
  PROVE  x \in Reach(st, c) <=> x \in VarsOf(st) \/ \E k \in Closure : c[k] # NoClosure /\ c[k].var = x
<1>1. \A k \in Closure : HoldsOf(c)[k] = IF c[k] = NoClosure THEN None ELSE c[k].var
  BY DEF HoldsOf
<1>2. x # None
  BY NoneIsNoVariable
<1> QED
  BY <1>1, <1>2 DEF Reach

(* The values of the variables in a good state.                            *)
LEMMA CellValues ==
  ASSUME IInv
  PROVE  /\ Values(v.stack, v.outers, clos, Cell)
         /\ \A x \in Var : x \notin Reach(v.stack, clos) => Cell[x] = NoVal
         /\ Cell = [x \in Var |-> Cell[x]]
<1> DEFINE st == v.stack
<1>1. /\ Good(st, v.open, v.outers, clos) /\ DOMAIN st = 1 .. Len(st) /\ Distinct(st)
      /\ Lexical(st, v.outers, clos) /\ Shared(clos)
      /\ \A i \in 1 .. Len(st) : st[i].var \in Var
  BY FineIs, GoodTypes, GoodOuters DEF IInv
<1>2. \A k \in Closure : clos[k] # NoClosure => clos[k].var \in Var
  BY <1>1, ClosureOuter
<1>3. ASSUME NEW i \in 1 .. Len(st) PROVE Cell[st[i].var] = st[i].val
  <2> DEFINE x == st[i].var
             j == CHOOSE z \in DOMAIN st : st[z].var = x
  <2>1. \E z \in DOMAIN st : st[z].var = x
    BY <1>1
  <2>2. j \in 1 .. Len(st) /\ st[j].var = st[i].var
    BY <1>1, <2>1
  <2>3. Cell[x] = st[j].val
    BY <1>1, <2>1 DEF Cell
  <2> HIDE DEF j
  <2>4. j = i
    BY <1>1, <2>2 DEF Distinct
  <2> QED
    BY <2>3, <2>4
<1>4. ASSUME NEW k \in Closure, clos[k] # NoClosure, clos[k].var \notin VarsOf(st)
      PROVE  Cell[clos[k].var] = v.outers[clos[k].outer].value
  <2> DEFINE x == clos[k].var
             l == CHOOSE m \in Closure : clos[m].var = x
  <2>1. ~\E i \in DOMAIN st : st[i].var = x
    BY <1>4 DEF VarsOf
  <2>2. \E m \in Closure : clos[m].var = x
    OBVIOUS
  <2>3. l \in Closure /\ clos[l].var = clos[k].var
    BY <2>2
  <2>4. Cell[x] = Read(clos[l].outer)
    BY <1>2, <1>4, <2>1, <2>2 DEF Cell
  <2> HIDE DEF l
  <2>5. clos[l].outer = clos[k].outer
    BY <1>1, <2>3 DEF Shared
  <2>6. v.outers[clos[k].outer].at = "own"
    BY <1>1, <1>4 DEF Lexical, LexicalBy
  <2> QED
    BY <2>4, <2>5, <2>6 DEF Read
<1>5. ASSUME NEW x \in Var, x \notin Reach(st, clos) PROVE Cell[x] = NoVal
  <2>1. x \notin VarsOf(st) /\ \A k \in Closure : clos[k] # NoClosure => clos[k].var # x
    BY <1>5, ReachIs
  <2>2. ~\E i \in DOMAIN st : st[i].var = x
    BY <2>1 DEF VarsOf
  <2>3. x # 0
    BY Constants, SMTT(30)
  <2>4. ~\E k \in Closure : clos[k].var = x
    BY <2>1, <2>3 DEF NoClosure
  <2> QED
    BY <2>2, <2>4 DEF Cell
<1>6. Cell = [x \in Var |-> Cell[x]]
  BY DEF Cell
<1> QED
  BY <1>3, <1>4, <1>5, <1>6 DEF Values

(* The values after a step are those the slots say and, for variables that *)
(* are out of scope, those from before: they may just have left.           *)
LEMMA ValuesAfter ==
  ASSUME NEW st, NEW op, NEW ou, NEW c, Good(st, op, ou, c),
         NEW st2, NEW op2, NEW ou2, Good(st2, op2, ou2, c), Takes(st, ou, ou2),
         NEW f, Values(st, ou, c, f), NEW f2,
         \A i \in 1 .. Len(st2) : f2[st2[i].var] = st2[i].val,
         \A x \in Var : x \notin VarsOf(st2) => f2[x] = f[x]
  PROVE  Values(st2, ou2, c, f2)
<1> SUFFICES ASSUME NEW k \in Closure, c[k] # NoClosure, c[k].var \notin VarsOf(st2)
             PROVE  f2[c[k].var] = ou2[c[k].outer].value
  BY DEF Values
<1> DEFINE x == c[k].var
           o == c[k].outer
<1>1. x \in Var /\ o \in Outer /\ LexicalBy(st, ou, c[k])
  BY ClosureOuter
<1>2. ou2[o].at = "own"
  <2>1. LexicalBy(st2, ou2, c[k])
    BY ClosureOuter
  <2> QED
    BY <2>1 DEF LexicalBy
<1>3. f2[x] = f[x]
  BY <1>1
<1>4. CASE ou2[o] = ou[o]
  <2>1. x \notin VarsOf(st)
    BY <1>1, <1>2, <1>4 DEF LexicalBy
  <2> QED
    BY <1>3, <1>4, <2>1 DEF Values
<1>5. CASE ou[o].at = "stack" /\ ou2[o].value = st[ou[o].idx].val
  <2>1. ou[o].idx \in 1 .. Len(st) /\ st[ou[o].idx].var = x
    BY <1>1, <1>5 DEF LexicalBy
  <2>2. f[x] = st[ou[o].idx].val
    BY <2>1 DEF Values
  <2> QED
    BY <1>3, <1>5, <2>2
<1> QED
  BY <1>1, <1>4, <1>5 DEF Takes

(* So Variables has the values after a step that the step before it says.  *)
Settled(s, c, f) ==
    /\ Scope' = s /\ Holds' = c
    /\ Cell' = [x \in Var |-> IF x \in {s[i] : i \in DOMAIN s} \cup {c[k] : k \in Closure}
                              THEN f[x] ELSE NoVal]

LEMMA CellLater ==
  (IInv => /\ Values(v.stack, v.outers, clos, Cell)
           /\ \A x \in Var : x \notin Reach(v.stack, clos) => Cell[x] = NoVal
           /\ Cell = [x \in Var |-> Cell[x]])'
<1>1. IInv => /\ Values(v.stack, v.outers, clos, Cell)
              /\ \A x \in Var : x \notin Reach(v.stack, clos) => Cell[x] = NoVal
              /\ Cell = [x \in Var |-> Cell[x]]
  BY CellValues
<1> QED
  BY <1>1, PTL

LEMMA SettledIs ==
  ASSUME IInv', NEW f, Values(v'.stack, v'.outers, clos', f)
  PROVE  Settled(ScopeOf(v'.stack), HoldsOf(clos'), f)
<1> DEFINE st == v'.stack
           R == Reach(st, clos')
<1>1. Scope' = ScopeOf(st) /\ Holds' = HoldsOf(clos')
  BY DEF Scope, ScopeOf, Holds, HoldsOf
<1>2. /\ Values(st, v'.outers, clos', Cell')
      /\ \A x \in Var : x \notin R => Cell'[x] = NoVal
      /\ Cell' = [x \in Var |-> Cell'[x]]
  BY CellLater
<1>3. \A x \in Var : x \in R => Cell'[x] = f[x]
  <2> SUFFICES ASSUME NEW x \in Var, x \in R PROVE Cell'[x] = f[x]
    OBVIOUS
  <2>1. CASE x \in VarsOf(st)
    <3>1. PICK i \in 1 .. Len(st) : st[i].var = x
      <4>1. DOMAIN st = 1 .. Len(st)
        <5>1. Fine(v', clos')
          BY DEF IInv
        <5> QED
          BY <5>1, FineIs
      <4> QED
        BY <2>1, <4>1 DEF VarsOf
    <3> QED
      BY <1>2, <3>1 DEF Values
  <2>2. CASE x \notin VarsOf(st)
    <3>1. PICK k \in Closure : clos'[k] # NoClosure /\ clos'[k].var = x
      BY <2>2, ReachIs
    <3> QED
      BY <1>2, <2>2, <3>1 DEF Values
  <2> QED
    BY <2>1, <2>2
<1>4. R = {ScopeOf(st)[i] : i \in DOMAIN ScopeOf(st)} \cup {HoldsOf(clos')[k] : k \in Closure}
  BY DEF Reach, VarsOf, ScopeOf
<1>5. Cell' = [x \in Var |-> IF x \in R THEN f[x] ELSE NoVal]
  BY <1>2, <1>3
<1> QED
  BY <1>1, <1>4, <1>5 DEF Settled

(* Closing outers.                                                         *)
LEMMA CloseTakes ==
  ASSUME NEW st, NEW fr, NEW op, NEW ou, NEW c, Good(st, op, ou, c), NEW i \in Int
  PROVE  \E op2, ou2 : /\ CloseOuters(VmOf(st, fr, op, ou), i) = VmOf(st, fr, op2, ou2)
                       /\ Takes(st, ou, ou2)
<1> DEFINE w == VmOf(st, fr, op, ou)
           p == Passed(w, i)
           ou2 == Shut(st, op, ou, p)
<1>1. w.open = op /\ w.outers = ou /\ op \in Seq(Outer) /\ ou \in [Outer -> OuterT] /\ OpenOK(st, op, ou)
      /\ Len(op) \in Nat
  BY VmParts, GoodTypes
<1>2. p \in 0 .. Len(op)
  <2> HIDE DEF w
  <2>1. OpenOK(st, w.open, w.outers) /\ w.open \in Seq(Outer) /\ w.outers \in [Outer -> OuterT]
    BY <1>1
  <2> QED
    BY <1>1, <2>1, PassedIs
<1>3. CloseOuters(w, i) = VmOf(st, fr, SubSeq(op, p + 1, Len(op)), ou2)
  BY ClosedIs
<1> HIDE DEF p
<1>4. IsShut(ou2, st, op, ou, p)
  BY <1>1, <1>2, ShutIs
<1> HIDE DEF ou2
<1>5. Takes(st, ou, ou2)
  <2> SUFFICES ASSUME NEW o \in Outer
               PROVE  ou2[o] = ou[o] \/ (ou[o].at = "stack" /\ ou2[o].value = st[ou[o].idx].val)
    BY DEF Takes
  <2>1. CASE \A j \in 1 .. p : op[j] # o
    BY <1>4, <2>1 DEF IsShut
  <2>2. ASSUME NEW j \in 1 .. p, op[j] = o
        PROVE  ou[o].at = "stack" /\ ou2[o].value = st[ou[o].idx].val
    <3>1. ou2[op[j]] = [at |-> "own", idx |-> 0, value |-> st[ou[op[j]].idx].val]
      BY <1>4 DEF IsShut
    <3>2. j \in 1 .. Len(op)
      BY <1>1, <1>2
    <3>3. ou[op[j]].at = "stack"
      BY <1>1, <3>2 DEF OpenOK
    <3> QED
      BY <2>2, <3>1, <3>3
  <2> QED
    BY <2>1, <2>2
<1> QED
  BY <1>3, <1>5 DEF w

(* LeaveFrames closes outers and no more.                                  *)
LEMMA LeaveTakes ==
  ASSUME NEW w, NEW c, Fine(w, c), NEW d \in 0 .. Len(w.frames)
  PROVE  Takes(w.stack, w.outers, LeaveFrames(w, d).outers)
<1> DEFINE st == w.stack
           fr == w.frames
           m == fr[d + 1].base
           st2 == SubSeq(st, 1, m)
           fr2 == SubSeq(fr, 1, d)
<1>1. /\ w = VmOf(st, fr, w.open, w.outers) /\ Good(st, w.open, w.outers, c)
      /\ Len(fr) \in Nat /\ fr \in Seq(FrameT)
  BY FineIs
<1>2. CASE d = Len(fr)
  BY <1>2, TakesNone DEF LeaveFrames
<1>3. CASE d # Len(fr)
  <2>1. m + 1 \in Int
    <3>1. d + 1 \in 1 .. Len(fr)
      BY <1>1, <1>3
    <3>2. fr[d + 1] \in FrameT
      BY <1>1, <3>1, ElementOfSeq
    <3> QED
      BY <3>2 DEF FrameT
  <2> HIDE DEF m
  <2>2. PICK op2, ou2 : CloseOuters(w, m + 1) = VmOf(st, fr, op2, ou2) /\ Takes(st, w.outers, ou2)
    <3> HIDE DEF st, fr
    <3> QED
      BY <1>1, <2>1, CloseTakes
  <2>3. LeaveFrames(w, d) = [VmOf(st, fr, op2, ou2) EXCEPT !.frames = fr2, !.stack = st2]
    <3>1. VmOf(st, fr, op2, ou2).frames = fr /\ VmOf(st, fr, op2, ou2).stack = st
      BY VmParts
    <3> QED
      BY <1>3, <2>2, <3>1 DEF LeaveFrames, m
  <2> HIDE DEF fr2, st2
  <2>4. LeaveFrames(w, d) = VmOf(st2, fr2, op2, ou2)
    <3>1. LeaveFrames(w, d) \in VmSet(st2, fr2, op2, ou2)
      BY <2>3 DEF VmOf, VmSet
    <3> QED
      BY <3>1, VmInSet
  <2>5. LeaveFrames(w, d).outers = ou2
    BY <2>4, VmParts
  <2> QED
    BY <2>2, <2>5
<1> QED
  BY <1>2, <1>3

LEMMA SettleOf ==
  ASSUME NEW s, NEW c, NEW f, Settled(s, c, f)
  PROVE  Captured!Settle(s, c, f)
BY DEF Settled, Captured!Settle, Captured!Reached

LEMMA ScopeParts ==
  ASSUME NEW st \in Seq(SlotT), NEW m \in 0 .. Len(st)
  PROVE  /\ ScopeOf(SubSeq(st, 1, m)) = SubSeq(ScopeOf(st), 1, m)
         /\ ScopeOf(st) \in Seq(Var) /\ Len(ScopeOf(st)) = Len(st) /\ DOMAIN ScopeOf(st) = 1 .. Len(st)
         /\ \A i \in 1 .. Len(st) : ScopeOf(st)[i] = st[i].var
<1> DEFINE s == ScopeOf(st)
           st2 == SubSeq(st, 1, m)
           s2 == ScopeOf(st2)
<1>1. DOMAIN st = 1 .. Len(st) /\ Len(st) \in Nat /\ \A i \in 1 .. Len(st) : st[i].var \in Var
  <2>1. \A i \in 1 .. Len(st) : st[i] \in SlotT
    BY ElementOfSeq
  <2> QED
    BY <2>1 DEF SlotT
<1>2. s = [i \in 1 .. Len(st) |-> st[i].var]
  BY <1>1 DEF ScopeOf
<1>3. /\ s \in Seq(Var) /\ Len(s) = Len(st) /\ DOMAIN s = 1 .. Len(st)
      /\ \A i \in 1 .. Len(st) : s[i] = st[i].var
  BY <1>1, <1>2
<1>4. st2 \in Seq(SlotT) /\ Len(st2) = m /\ (\A i \in 1 .. m : st2[i] = st[i]) /\ DOMAIN st2 = 1 .. m
  BY FirstOf
<1>5. m \in Nat /\ m <= Len(st)
  BY <1>1
<1> HIDE DEF s, st2
<1>6. SubSeq(s, 1, m) = [i \in 1 .. m |-> s[i]]
  <2> DEFINE z == SubSeq(s, 1, m)
  <2>1. m \in 0 .. Len(s)
    BY <1>3
  <2>2. z \in Seq(Var) /\ Len(z) = m /\ \A i \in 1 .. m : z[i] = s[i]
    BY <1>3, <2>1, FirstOf
  <2> HIDE DEF z
  <2>3. z = [i \in 1 .. m |-> s[i]]
    BY <2>2
  <2> QED
    BY <2>3 DEF z
<1>7. s2 = [i \in 1 .. m |-> s[i]]
  <2>1. \A i \in 1 .. m : st2[i].var = s[i]
    BY <1>3, <1>4, <1>5
  <2> QED
    BY <1>4, <2>1 DEF ScopeOf
<1> QED
  BY <1>3, <1>6, <1>7 DEF s, st2

(* A step that leaves the locals above the first m.                        *)
LEMMA LeaveIs ==
  ASSUME IInv, IInv', clos' = clos, NEW m \in 0 .. Len(v.stack),
         v'.stack = SubSeq(v.stack, 1, m), Takes(v.stack, v.outers, v'.outers)
  PROVE  Captured!Leave(m)
<1> DEFINE st == v.stack
           st2 == v'.stack
<1>1. /\ Good(st, v.open, v.outers, clos) /\ st \in Seq(SlotT) /\ Len(st) \in Nat
      /\ Values(st, v.outers, clos, Cell)
  BY FineIs, CellValues DEF IInv
<1>2. Good(st2, v'.open, v'.outers, clos)
  BY DEF IInv, Fine
<1>3. Len(st2) = m /\ \A i \in 1 .. m : st2[i] = st[i]
  BY <1>1, FirstOf
<1>4. \A i \in 1 .. Len(st2) : Cell[st2[i].var] = st2[i].val
  BY <1>1, <1>3 DEF Values
<1>5. Values(st2, v'.outers, clos, Cell)
  <2> HIDE DEF st, st2
  <2> QED
    BY <1>1, <1>2, <1>4, ValuesAfter DEF st, st2
<1>6. Settled(ScopeOf(st2), HoldsOf(clos), Cell)
  BY <1>5, SettledIs
<1>7. ScopeOf(st2) = SubSeq(Scope, 1, m) /\ HoldsOf(clos) = Holds
  BY <1>1, ScopeParts, MappingIs
<1>8. Captured!Settle(SubSeq(Scope, 1, m), Holds, Cell)
  BY <1>6, <1>7, SettleOf
<1> QED
  BY <1>8 DEF Captured!Leave

LEMMA TailOf ==
  ASSUME NEW S, NEW a \in Seq(S), NEW b \in Seq(S)
  PROVE  SubSeq(a \o b, Len(a) + 1, Len(a \o b)) = b
<1> DEFINE s == a \o b
           z == SubSeq(s, Len(a) + 1, Len(s))
<1>1. /\ s \in Seq(S) /\ Len(s) = Len(a) + Len(b) /\ Len(a) \in Nat /\ Len(b) \in Nat
      /\ \A i \in 1 .. Len(a) + Len(b) : s[i] = IF i <= Len(a) THEN a[i] ELSE b[i - Len(a)]
  BY ConcatProperties
<1> HIDE DEF s
<1>2. Len(a) \in 0 .. Len(s)
  BY <1>1
<1>3. /\ z \in Seq(S) /\ Len(z) = Len(s) - Len(a)
      /\ \A i \in 1 .. Len(s) - Len(a) : z[i] = s[Len(a) + i]
  BY <1>1, <1>2, RestOf
<1> HIDE DEF z
<1>4. Len(z) = Len(b)
  BY <1>1, <1>3
<1>5. ASSUME NEW i \in 1 .. Len(b) PROVE z[i] = b[i]
  <2>1. /\ i \in 1 .. Len(s) - Len(a) /\ Len(a) + i \in 1 .. Len(a) + Len(b)
        /\ ~(Len(a) + i <= Len(a)) /\ (Len(a) + i) - Len(a) = i
    BY <1>1
  <2> QED
    BY <1>1, <1>3, <2>1
<1>6. z = b
  BY <1>3, <1>4, <1>5, SeqEqual
<1> QED
  BY <1>6 DEF z, s

LEMMA ScopeJoin ==
  ASSUME NEW a \in Seq(SlotT), NEW b \in Seq(SlotT)
  PROVE  ScopeOf(a \o b) = ScopeOf(a) \o ScopeOf(b)
<1> DEFINE s == a \o b
           x == ScopeOf(a)
           y == ScopeOf(b)
           t == x \o y
<1>1. /\ s \in Seq(SlotT) /\ Len(s) = Len(a) + Len(b) /\ Len(a) \in Nat /\ Len(b) \in Nat
      /\ \A i \in 1 .. Len(a) + Len(b) : s[i] = IF i <= Len(a) THEN a[i] ELSE b[i - Len(a)]
  BY ConcatProperties
<1>2. /\ 0 \in 0 .. Len(a) /\ 0 \in 0 .. Len(b) /\ 0 \in 0 .. Len(s)
  BY <1>1
<1>3. /\ x \in Seq(Var) /\ Len(x) = Len(a) /\ \A i \in 1 .. Len(a) : x[i] = a[i].var
      /\ y \in Seq(Var) /\ Len(y) = Len(b) /\ \A i \in 1 .. Len(b) : y[i] = b[i].var
  BY <1>2, ScopeParts
<1> HIDE DEF s
<1>4. ScopeOf(s) \in Seq(Var) /\ Len(ScopeOf(s)) = Len(s) /\ \A i \in 1 .. Len(s) : ScopeOf(s)[i] = s[i].var
  BY <1>1, <1>2, ScopeParts
<1> HIDE DEF x, y
<1>5. /\ t \in Seq(Var) /\ Len(t) = Len(x) + Len(y)
      /\ \A i \in 1 .. Len(x) + Len(y) : t[i] = IF i <= Len(x) THEN x[i] ELSE y[i - Len(x)]
  <2>1. x \in Seq(Var) /\ y \in Seq(Var)
    BY <1>3
  <2> QED
    BY <2>1, ConcatProperties
<1> HIDE DEF t
<1>6. ASSUME NEW i \in 1 .. Len(s) PROVE ScopeOf(s)[i] = t[i]
  <2>0. i \in 1 .. Len(a) + Len(b) /\ ScopeOf(s)[i] = s[i].var
    BY <1>1, <1>4
  <2>1. CASE i <= Len(a)
    <3>1. i \in 1 .. Len(a)
      BY <1>1, <2>1
    <3> QED
      BY <1>1, <1>3, <1>5, <2>0, <2>1, <3>1
  <2>2. CASE ~(i <= Len(a))
    <3>1. i - Len(a) \in 1 .. Len(b)
      BY <1>1, <2>0, <2>2
    <3>2. s[i] = b[i - Len(a)] /\ t[i] = y[i - Len(a)]
      BY <1>1, <1>3, <1>5, <2>0, <2>2
    <3> QED
      BY <1>3, <2>0, <3>1, <3>2
  <2> QED
    BY <2>1, <2>2
<1>7. Len(ScopeOf(s)) = Len(t)
  BY <1>1, <1>3, <1>4, <1>5
<1>8. ScopeOf(s) = t
  <2> DEFINE z == ScopeOf(s)
  <2>1. z \in Seq(Var) /\ Len(z) = Len(t) /\ \A i \in 1 .. Len(z) : z[i] = t[i]
    BY <1>4, <1>6, <1>7
  <2> HIDE DEF z
  <2>2. z = t
    BY <1>5, <2>1, SeqEqual
  <2> QED
    BY <2>2 DEF z
<1> QED
  BY <1>8 DEF s, t, x, y

(* A step that leaves the locals above the first m for new ones.           *)
Rebinds(w, m, values) ==
    \E new : /\ v'.stack = SubSeq(w.stack, 1, m) \o new
             /\ NewLocals(SubSeq(w.stack, 1, m), new, values)
             /\ Takes(w.stack, w.outers, v'.outers)

(* What the variables have once the new ones have these values.            *)
Given2(new, values) ==
    [x \in Var |-> IF \E i \in DOMAIN new : new[i] = x
                   THEN values[CHOOSE i \in DOMAIN new : new[i] = x] ELSE Cell[x]]

LEMMA BindIs ==
  ASSUME IInv, IInv', clos' = clos, NEW m \in 0 .. Len(v.stack), NEW values \in Seq(Value),
         Rebinds(v, m, values)
  PROVE  Captured!Bind(m, values)
<1> DEFINE st == v.stack
           st1 == SubSeq(st, 1, m)
           kept == ScopeOf(st1)
<1>1. PICK new : /\ v'.stack = st1 \o new /\ NewLocals(st1, new, values)
                 /\ Takes(st, v.outers, v'.outers)
  BY DEF Rebinds
<1>2. /\ new \in Seq(SlotT) /\ Len(new) = Len(values)
      /\ \A i \in 1 .. Len(values) : new[i].val = values[i]
      /\ Fresh(st1, new, clos) /\ Len(new) \in Nat /\ DOMAIN values = 1 .. Len(values)
  BY <1>1 DEF NewLocals
<1>3. /\ Good(st, v.open, v.outers, clos) /\ st \in Seq(SlotT) /\ Len(st) \in Nat
      /\ Values(st, v.outers, clos, Cell)
  BY FineIs, CellValues DEF IInv
<1>4. Good(v'.stack, v'.open, v'.outers, clos)
  BY DEF IInv, Fine
<1>5. st1 \in Seq(SlotT) /\ Len(st1) = m /\ (\A i \in 1 .. m : st1[i] = st[i]) /\ DOMAIN st1 = 1 .. m
      /\ m \in Nat /\ m <= Len(st)
  BY <1>3, FirstOf
<1> HIDE DEF st1
<1> DEFINE st2 == st1 \o new
           names == ScopeOf(new)
           f == Given2(names, values)
<1>6. /\ Len(st2) = m + Len(new) /\ st2 \in Seq(SlotT)
      /\ \A i \in 1 .. m + Len(new) : st2[i] = IF i <= m THEN st1[i] ELSE new[i - m]
  <2>1. st1 \in Seq(SlotT) /\ new \in Seq(SlotT)
    BY <1>2, <1>5
  <2>2. /\ st2 \in Seq(SlotT) /\ Len(st2) = Len(st1) + Len(new)
        /\ \A i \in 1 .. Len(st1) + Len(new) : st2[i] = IF i <= Len(st1) THEN st1[i] ELSE new[i - Len(st1)]
    BY <2>1, ConcatProperties
  <2> HIDE DEF st2
  <2> QED
    BY <1>5, <2>2
<1>7. /\ names \in Seq(Var) /\ Len(names) = Len(new) /\ DOMAIN names = 1 .. Len(new)
      /\ \A i \in 1 .. Len(new) : names[i] = new[i].var /\ new[i].var \in Var
  <2>1. 0 \in 0 .. Len(new)
    BY <1>2
  <2>2. \A i \in 1 .. Len(new) : new[i] \in SlotT
    BY <1>2, ElementOfSeq
  <2> QED
    BY <1>2, <2>1, <2>2, ScopeParts DEF SlotT
<1>8. /\ kept \in Seq(Var) /\ Len(kept) = m /\ kept = SubSeq(Scope, 1, m)
  <2>1. 0 \in 0 .. Len(st1)
    BY <1>5
  <2>2. kept \in Seq(Var) /\ Len(kept) = m
    BY <1>5, <2>1, ScopeParts
  <2>3. kept = SubSeq(ScopeOf(st), 1, m)
    BY <1>3, ScopeParts DEF st1
  <2> QED
    BY <2>2, <2>3, MappingIs
<1>9. ScopeOf(st2) = kept \o names
  BY <1>2, <1>5, ScopeJoin
<1>10. SubSeq(kept \o names, m + 1, Len(kept \o names)) = names
  <2> HIDE DEF kept, names
  <2> QED
    BY <1>7, <1>8, TailOf
<1> HIDE DEF kept, names, st2
<1>11. /\ \A i \in 1 .. Len(new) : names[i] \notin Taken(st1, clos)
       /\ \A i, j \in 1 .. Len(new) : names[i] = names[j] => i = j
  BY <1>7, <1>2 DEF Fresh
<1>12. \A i \in 1 .. Len(new) : f[names[i]] = values[i]
  <2> SUFFICES ASSUME NEW i \in 1 .. Len(new) PROVE f[names[i]] = values[i]
    OBVIOUS
  <2> DEFINE j == CHOOSE z \in DOMAIN names : names[z] = names[i]
  <2>1. j \in 1 .. Len(new) /\ names[j] = names[i]
    BY <1>7
  <2>2. f[names[i]] = values[j]
    BY <1>7 DEF Given2
  <2> HIDE DEF j
  <2> QED
    BY <1>11, <2>1, <2>2
<1>13. \A x \in Var : (\A i \in 1 .. Len(new) : names[i] # x) => f[x] = Cell[x]
  BY <1>7 DEF Given2
<1> HIDE DEF f
<1>14. \A i \in 1 .. m : st2[i] = st[i] /\ st2[i].var \in Var /\ st2[i].var \in VarsOf(st1)
                          /\ i \in 1 .. Len(st) /\ i \in 1 .. m + Len(new)
  <2>1. \A i \in 1 .. m : st2[i] = st1[i] /\ i \in 1 .. Len(st) /\ i \in 1 .. m + Len(new)
    BY <1>2, <1>5, <1>6
  <2>2. \A i \in 1 .. Len(st) : st[i].var \in Var
    BY <1>3, GoodOuters
  <2> QED
    BY <1>5, <2>1, <2>2 DEF VarsOf
<1>15. \A i \in 1 .. m + Len(new) : i \in 1 .. m \/ (i - m \in 1 .. Len(new) /\ st2[i] = new[i - m])
  BY <1>2, <1>5, <1>6
<1>16. ASSUME NEW i \in 1 .. m PROVE f[st2[i].var] = st2[i].val
  <2>1. \A j \in 1 .. Len(new) : names[j] # st2[i].var
    BY <1>11, <1>14 DEF Taken
  <2>2. f[st2[i].var] = Cell[st[i].var]
    BY <1>13, <1>14, <2>1
  <2> QED
    BY <1>3, <1>14, <2>2 DEF Values
<1>17. ASSUME NEW i \in 1 .. m + Len(new), i - m \in 1 .. Len(new), st2[i] = new[i - m]
       PROVE  f[st2[i].var] = st2[i].val
  BY <1>2, <1>7, <1>12, <1>17
<1>18. \A i \in 1 .. Len(st2) : f[st2[i].var] = st2[i].val
  BY <1>6, <1>15, <1>16, <1>17
<1>19. \A x \in Var : x \notin VarsOf(st2) => f[x] = Cell[x]
  <2>1. ASSUME NEW i \in 1 .. Len(new) PROVE names[i] \in VarsOf(st2)
    <3>1. m + i \in 1 .. m + Len(new) /\ ~(m + i <= m) /\ (m + i) - m = i /\ DOMAIN st2 = 1 .. m + Len(new)
      BY <1>2, <1>5, <1>6
    <3>2. st2[m + i] = new[i]
      BY <1>6, <3>1
    <3> QED
      BY <1>7, <3>1, <3>2 DEF VarsOf
  <2> QED
    BY <1>13, <2>1
<1>20. Values(st2, v'.outers, clos, f)
  <2>1. Good(st2, v'.open, v'.outers, clos)
    BY <1>1, <1>4 DEF st2
  <2> HIDE DEF st
  <2> QED
    BY <1>1, <1>3, <1>18, <1>19, <2>1, ValuesAfter
<1>21. Settled(kept \o names, Holds, f)
  <2>1. Values(v'.stack, v'.outers, clos', f)
    BY <1>1, <1>20 DEF st2
  <2>2. Settled(ScopeOf(v'.stack), HoldsOf(clos'), f)
    BY <2>1, SettledIs
  <2>3. ScopeOf(v'.stack) = kept \o names
    BY <1>1, <1>9 DEF st2
  <2> QED
    BY <2>2, <2>3, MappingIs
<1>22. Captured!Settle(kept \o names, Holds, f) /\ Scope' = kept \o names
  BY <1>21, SettleOf DEF Settled
<1>23. Captured!IsInjective(names)
  BY <1>7, <1>11 DEF Captured!IsInjective
<1>24. Captured!ToSet(names) \subseteq Var \ Captured!Reached(kept, Holds)
  <2> SUFFICES ASSUME NEW i \in 1 .. Len(new)
               PROVE  names[i] \in Var /\ names[i] \notin Captured!Reached(kept, Holds)
    BY <1>7 DEF Captured!ToSet
  <2>1. names[i] \in Var /\ names[i] \notin VarsOf(st1) /\ names[i] \notin Given(clos)
    BY <1>7, <1>11 DEF Taken
  <2>2. names[i] \notin Reach(st1, clos)
    BY <2>1, ReachIs DEF Given
  <2>3. Reach(st1, clos) = {kept[j] : j \in DOMAIN kept} \cup {Holds[k] : k \in Closure}
    BY MappingIs DEF Reach, VarsOf, ScopeOf, kept
  <2> QED
    BY <2>1, <2>2, <2>3 DEF Captured!Reached
<1>25. f = [x \in Var |-> IF \E i \in DOMAIN names : names[i] = x
                          THEN values[CHOOSE i \in DOMAIN names : names[i] = x]
                          ELSE Cell[x]]
  BY DEF f, Given2
<1>26. SubSeq(Scope', m + 1, Len(Scope')) = names /\ SubSeq(Scope, 1, m) = kept /\ Len(names) = Len(values)
  BY <1>2, <1>7, <1>8, <1>10, <1>22
<1> HIDE DEF f
<1>27. Captured!Settle(kept \o names, Holds,
                       [x \in Var |-> IF \E i \in DOMAIN names : names[i] = x
                                      THEN values[CHOOSE i \in DOMAIN names : names[i] = x]
                                      ELSE Cell[x]])
  BY <1>22, <1>25
<1> QED
  BY <1>23, <1>24, <1>26, <1>27 DEF Captured!Bind

(* The calls of frames.                                                    *)
CallT == [fn : Closure \cup {None}, below : Nat, gen : BOOLEAN]

LEMMA CallsIs ==
  ASSUME NEW fr \in Seq(FrameT)
  PROVE  /\ CallsOf(fr) \in Seq(CallT) /\ Len(CallsOf(fr)) = Len(fr)
         /\ DOMAIN CallsOf(fr) = 1 .. Len(fr) /\ Len(fr) \in Nat
         /\ \A d \in 1 .. Len(fr) : CallsOf(fr)[d] = CallOf(fr[d]) /\ fr[d] \in FrameT
<1>1. DOMAIN fr = 1 .. Len(fr) /\ Len(fr) \in Nat /\ \A d \in 1 .. Len(fr) : fr[d] \in FrameT
  BY ElementOfSeq
<1>2. \A f \in FrameT : CallOf(f) \in CallT
  BY DEF FrameT, CallOf, CallT
<1>3. CallsOf(fr) = [d \in 1 .. Len(fr) |-> CallOf(fr[d])]
  BY <1>1 DEF CallsOf
<1>4. \A d \in 1 .. Len(fr) : CallOf(fr[d]) \in CallT
  BY <1>1, <1>2
<1> QED
  BY <1>1, <1>3, <1>4

LEMMA CallsFirst ==
  ASSUME NEW fr \in Seq(FrameT), NEW d \in 0 .. Len(fr)
  PROVE  CallsOf(SubSeq(fr, 1, d)) = SubSeq(CallsOf(fr), 1, d)
<1> DEFINE c == CallsOf(fr)
           fr2 == SubSeq(fr, 1, d)
           c2 == CallsOf(fr2)
           z == SubSeq(c, 1, d)
<1>1. c \in Seq(CallT) /\ Len(c) = Len(fr) /\ Len(fr) \in Nat /\ \A i \in 1 .. Len(fr) : c[i] = CallOf(fr[i])
  BY CallsIs
<1>2. fr2 \in Seq(FrameT) /\ Len(fr2) = d /\ \A i \in 1 .. d : fr2[i] = fr[i]
  BY FirstOf
<1> HIDE DEF c, fr2
<1>3. c2 \in Seq(CallT) /\ Len(c2) = d /\ \A i \in 1 .. d : c2[i] = CallOf(fr2[i])
  BY <1>2, CallsIs
<1>4. z \in Seq(CallT) /\ Len(z) = d /\ \A i \in 1 .. d : z[i] = c[i]
  <2>1. d \in 0 .. Len(c)
    BY <1>1
  <2> QED
    BY <1>1, <2>1, FirstOf
<1> HIDE DEF c2, z
<1>5. \A i \in 1 .. d : i \in 1 .. Len(fr)
  BY <1>1
<1>6. \A i \in 1 .. Len(c2) : c2[i] = z[i]
  BY <1>1, <1>2, <1>3, <1>4, <1>5
<1>7. c2 = z
  BY <1>3, <1>4, <1>6, SeqEqual
<1> QED
  BY <1>7 DEF c2, z, fr2, c

LEMMA CallsPush ==
  ASSUME NEW fr \in Seq(FrameT), NEW f \in FrameT
  PROVE  CallsOf(Append(fr, f)) = Append(CallsOf(fr), CallOf(f))
<1> DEFINE c == CallsOf(fr)
           g == CallOf(f)
           fr2 == Append(fr, f)
           c2 == CallsOf(fr2)
           z == Append(c, g)
<1>1. c \in Seq(CallT) /\ Len(c) = Len(fr) /\ Len(fr) \in Nat /\ \A i \in 1 .. Len(fr) : c[i] = CallOf(fr[i])
  BY CallsIs
<1>2. g \in CallT
  BY DEF FrameT, CallOf, CallT
<1>3. fr2 \in Seq(FrameT) /\ Len(fr2) = Len(fr) + 1 /\ fr2[Len(fr) + 1] = f
      /\ \A i \in 1 .. Len(fr) : fr2[i] = fr[i]
  BY AppendProperties
<1> HIDE DEF c, fr2
<1>4. c2 \in Seq(CallT) /\ Len(c2) = Len(fr) + 1 /\ \A i \in 1 .. Len(fr) + 1 : c2[i] = CallOf(fr2[i])
  BY <1>3, CallsIs
<1> HIDE DEF g
<1>5. z \in Seq(CallT) /\ Len(z) = Len(c) + 1 /\ z[Len(c) + 1] = g /\ \A i \in 1 .. Len(c) : z[i] = c[i]
  BY <1>1, <1>2, AppendProperties
<1> HIDE DEF c2, z
<1>6. ASSUME NEW i \in 1 .. Len(fr) + 1 PROVE c2[i] = z[i]
  <2>1. CASE i = Len(fr) + 1
    BY <1>1, <1>3, <1>4, <1>5, <2>1 DEF g
  <2>2. CASE i # Len(fr) + 1
    <3>1. i \in 1 .. Len(fr) /\ i \in 1 .. Len(fr) + 1
      BY <1>1, <2>2
    <3> QED
      BY <1>1, <1>3, <1>4, <1>5, <3>1
  <2> QED
    BY <2>1, <2>2
<1>7. c2 = z
  <2>1. Len(c2) = Len(z) /\ \A i \in 1 .. Len(c2) : c2[i] = z[i]
    BY <1>1, <1>4, <1>5, <1>6
  <2> QED
    BY <1>4, <1>5, <2>1, SeqEqual
<1> QED
  BY <1>7 DEF c2, z, fr2, c, g

(* The call on top.                                                        *)
LEMMA CallsTop ==
  ASSUME IInv, Running
  PROVE  /\ Calls # <<>> /\ Captured!Last(Calls) = CallOf(Top(v)) /\ Len(Calls) = Len(v.frames)
         /\ Captured!Last(Calls).below = Top(v).base /\ Captured!Last(Calls).gen = Top(v).gen
         /\ Captured!Front(Calls) = CallsOf(SubSeq(v.frames, 1, Len(v.frames) - 1))
         /\ Len(v.frames) - 1 \in 0 .. Len(v.frames) /\ Top(v).base \in 0 .. Len(v.stack)
<1>1. /\ v.frames \in Seq(FrameT) /\ Len(v.frames) \in Nat /\ Len(v.frames) >= 1
      /\ Top(v) = v.frames[Len(v.frames)] /\ Len(v.stack) \in Nat
      /\ Locals(v) = Len(v.stack) - Top(v).base /\ Top(v).base \in Nat /\ Locals(v) \in 1 .. MaxLocals
  BY TopFine
<1>2. Calls = CallsOf(v.frames)
  BY MappingIs
<1>3. /\ Calls \in Seq(CallT) /\ Len(Calls) = Len(v.frames)
      /\ \A d \in 1 .. Len(v.frames) : Calls[d] = CallOf(v.frames[d])
  BY <1>1, <1>2, CallsIs
<1>4. Len(v.frames) \in 1 .. Len(v.frames) /\ Len(v.frames) - 1 \in 0 .. Len(v.frames)
  BY <1>1
<1>5. Captured!Last(Calls) = CallOf(Top(v))
  BY <1>1, <1>3, <1>4 DEF Captured!Last
<1>6. Captured!Front(Calls) = SubSeq(Calls, 1, Len(v.frames) - 1)
  BY <1>3 DEF Captured!Front
<1>7. Captured!Front(Calls) = CallsOf(SubSeq(v.frames, 1, Len(v.frames) - 1))
  BY <1>1, <1>2, <1>4, <1>6, CallsFirst
<1>8. Calls # <<>>
  <2>1. Len(<<>>) = 0
    OBVIOUS
  <2> QED
    BY <1>1, <1>3, <2>1
<1>9. Top(v).base \in 0 .. Len(v.stack)
  <2> DEFINE B == Top(v).base
             e == Len(v.stack)
  <2>1. B \in Nat /\ e \in Nat /\ e - B \in 1 .. MaxLocals /\ MaxLocals \in Nat
    BY <1>1, Constants
  <2> HIDE DEF B, e
  <2>2. B \in 0 .. e
    BY <2>1
  <2> QED
    BY <2>2 DEF B, e
<1> QED
  BY <1>3, <1>4, <1>5, <1>7, <1>8, <1>9 DEF CallOf

(* What becomes of the generator of calls that end.                        *)
LEMMA EndedIs ==
  ASSUME IInv, NEW d
  PROVE  Captured!Ended(d) = Killed(d)
<1>1. v.frames \in Seq(FrameT) /\ DOMAIN v.frames = 1 .. Len(v.frames)
  BY FineIs DEF IInv
<1>2. /\ DOMAIN Calls = DOMAIN v.frames
      /\ \A i \in DOMAIN v.frames : Calls[i].gen = v.frames[i].gen
  <2>1. Calls = CallsOf(v.frames)
    BY MappingIs
  <2>2. DOMAIN Calls = 1 .. Len(v.frames) /\ \A i \in 1 .. Len(v.frames) : Calls[i] = CallOf(v.frames[i])
    BY <1>1, <2>1, CallsIs
  <2>3. \A f : CallOf(f).gen = f.gen
    BY DEF CallOf
  <2> QED
    BY <1>1, <2>2, <2>3
<1>3. (\E i \in DOMAIN Calls : i > d /\ Calls[i].gen) <=> \E i \in DOMAIN v.frames : i > d /\ v.frames[i].gen
  BY <1>2
<1>4. [NoGen EXCEPT !.state = "dead"] = [state |-> "dead", vals |-> <<>>]
  BY DEF NoGen
<1> QED
  BY <1>3, <1>4 DEF Captured!Ended, Killed

-----------------------------------------------------------------------------
(* The steps of Outers, as those of Variables.                             *)

LEMMA CallsLater ==
  Calls' = CallsOf(v'.frames) /\ Scope' = ScopeOf(v'.stack) /\ Holds' = HoldsOf(clos')
BY DEF Calls, CallsOf, CallOf, Scope, ScopeOf, Holds, HoldsOf

LEMMA ReturnIs ==
  ASSUME IInv, IInv', Return
  PROVE  Captured!Return
<1> DEFINE d == Len(v.frames) - 1
<1>1. /\ Running /\ v' = LeaveFrames(v, d) /\ gen' = Killed(d) /\ clos' = clos
  BY DEF Return
<1>2. /\ Calls # <<>> /\ Captured!Last(Calls).below = Top(v).base /\ Len(Calls) = Len(v.frames)
      /\ Captured!Front(Calls) = CallsOf(SubSeq(v.frames, 1, d))
      /\ d \in 0 .. Len(v.frames) /\ Top(v).base \in 0 .. Len(v.stack)
  BY <1>1, CallsTop
<1>3. End(v.frames, Len(v.stack), d) = Top(v).base
  BY <1>1, TopFine DEF End
<1> HIDE DEF d
<1>4. /\ v'.frames = SubSeq(v.frames, 1, d) /\ v'.stack = SubSeq(v.stack, 1, Top(v).base)
      /\ Takes(v.stack, v.outers, v'.outers)
  <2>1. Fine(v, clos)
    BY DEF IInv
  <2> QED
    BY <1>1, <1>2, <1>3, <2>1, LeaveFine, LeaveTakes
<1>5. Captured!Leave(Top(v).base)
  BY <1>1, <1>2, <1>4, LeaveIs
<1>6. Calls' = Captured!Front(Calls)
  BY <1>2, <1>4, CallsLater
<1>7. gen' = Captured!Ended(Len(Calls) - 1)
  BY <1>1, <1>2, EndedIs DEF d
<1> QED
  BY <1>2, <1>5, <1>6, <1>7 DEF Captured!Return

LEMMA YieldIs ==
  ASSUME IInv, IInv', Yield
  PROVE  Captured!Yield
<1> DEFINE d == Len(v.frames) - 1
           B == Top(v).base
<1>1. /\ Running /\ Top(v).gen /\ v' = LeaveFrames(v, d) /\ clos' = clos
      /\ gen' = [state |-> "suspended", vals |-> [i \in 1 .. Locals(v) |-> v.stack[B + i].val]]
  BY DEF Yield
<1>2. /\ Calls # <<>> /\ Captured!Last(Calls).below = B /\ Captured!Last(Calls).gen
      /\ Captured!Front(Calls) = CallsOf(SubSeq(v.frames, 1, d))
      /\ d \in 0 .. Len(v.frames) /\ B \in 0 .. Len(v.stack)
  BY <1>1, CallsTop
<1>3. End(v.frames, Len(v.stack), d) = B
  BY <1>1, TopFine DEF End
<1>4. /\ v.stack \in Seq(SlotT) /\ Len(v.stack) \in Nat /\ Locals(v) = Len(v.stack) - B
      /\ Values(v.stack, v.outers, clos, Cell)
  BY <1>1, TopFine, CellValues
<1> HIDE DEF d, B
<1>5. /\ v'.frames = SubSeq(v.frames, 1, d) /\ v'.stack = SubSeq(v.stack, 1, B)
      /\ Takes(v.stack, v.outers, v'.outers)
  <2>1. Fine(v, clos)
    BY DEF IInv
  <2> QED
    BY <1>1, <1>2, <1>3, <2>1, LeaveFine, LeaveTakes
<1>6. Captured!Leave(B)
  BY <1>1, <1>2, <1>5, LeaveIs
<1>7. Calls' = Captured!Front(Calls)
  BY <1>2, <1>5, CallsLater
<1>8. gen' = [state |-> "suspended", vals |-> [i \in 1 .. Len(Scope) - B |-> Cell[Scope[B + i]]]]
  <2>1. Len(Scope) = Len(v.stack) /\ \A i \in 1 .. Len(v.stack) : Scope[i] = v.stack[i].var
    BY <1>2, <1>4, MappingIs, ScopeParts
  <2>2. \A i \in 1 .. Len(v.stack) - B : B + i \in 1 .. Len(v.stack)
    BY <1>2, <1>4
  <2>3. \A i \in 1 .. Len(v.stack) - B : Cell[Scope[B + i]] = v.stack[B + i].val
    BY <1>4, <2>1, <2>2 DEF Values
  <2> QED
    BY <1>1, <1>4, <2>1, <2>3
<1> QED
  BY <1>2, <1>6, <1>7, <1>8 DEF Captured!Yield

LEMMA FinalizeIs ==
  ASSUME IInv, IInv', Finalize
  PROVE  Captured!Stop
<1> DEFINE st == v.stack
           fr == v.frames
<1>1. /\ v = VmOf(st, fr, v.open, v.outers) /\ Good(st, v.open, v.outers, clos)
      /\ st \in Seq(SlotT) /\ Len(st) \in Nat
  BY FineIs DEF IInv
<1>2. PICK op, ou : CloseOuters(v, 1) = VmOf(st, fr, op, ou) /\ Takes(st, v.outers, ou)
  <2>1. 1 \in Int
    OBVIOUS
  <2> HIDE DEF st, fr
  <2> QED
    BY <1>1, <2>1, CloseTakes
<1>3. v' = VmOf(<<>>, <<>>, op, ou)
  <2>1. v' = [VmOf(st, fr, op, ou) EXCEPT !.frames = <<>>, !.stack = <<>>]
    BY <1>2 DEF Finalize
  <2>2. v' \in VmSet(<<>>, <<>>, op, ou)
    BY <2>1 DEF VmOf, VmSet
  <2> QED
    BY <2>2, VmInSet
<1>4. v'.stack = <<>> /\ v'.frames = <<>> /\ v'.outers = ou
  BY <1>3, VmParts
<1>5. SubSeq(st, 1, 0) = <<>> /\ 0 \in 0 .. Len(st)
  BY <1>1
<1>6. clos' = clos /\ gen' = Killed(0)
  BY DEF Finalize
<1>7. Captured!Leave(0)
  BY <1>2, <1>4, <1>5, <1>6, LeaveIs
<1>8. Calls' = <<>>
  <2>1. CallsOf(<<>>) = <<>>
    BY DEF CallsOf
  <2> QED
    BY <1>4, <2>1, CallsLater
<1> QED
  BY <1>6, <1>7, <1>8, EndedIs DEF Captured!Stop

(* Frames that differ in their blocks only are the same calls.             *)
LEMMA CallsSame ==
  ASSUME NEW fr \in Seq(FrameT), NEW fr2, DOMAIN fr2 = DOMAIN fr,
         \A d \in DOMAIN fr : /\ fr2[d].fn = fr[d].fn /\ fr2[d].base = fr[d].base
                              /\ fr2[d].gen = fr[d].gen
  PROVE  CallsOf(fr2) = CallsOf(fr)
BY DEF CallsOf, CallOf

LEMMA BlocksSame ==
  ASSUME NEW fr \in Seq(FrameT), fr # <<>>, NEW b
  PROVE  CallsOf(TopBlocks(fr, b)) = CallsOf(fr)
<1> DEFINE fr2 == TopBlocks(fr, b)
<1>1. DOMAIN fr = 1 .. Len(fr) /\ \A d \in DOMAIN fr : fr[d] \in FrameT
  BY ElementOfSeq
<1>2. fr2 = [fr EXCEPT ![Len(fr)] = [fr[Len(fr)] EXCEPT !.scopes = SubSeq(@, 1, b)]]
  BY DEF TopBlocks
<1>3. DOMAIN fr2 = DOMAIN fr
  BY <1>2
<1>4. ASSUME NEW d \in DOMAIN fr
      PROVE  fr2[d].fn = fr[d].fn /\ fr2[d].base = fr[d].base /\ fr2[d].gen = fr[d].gen
  <2> DEFINE f2 == [fr[d] EXCEPT !.scopes = SubSeq(@, 1, b)]
  <2>1. fr2[d] = fr[d] \/ fr2[d] = f2
    BY <1>2
  <2>2. f2.fn = fr[d].fn /\ f2.base = fr[d].base /\ f2.gen = fr[d].gen
    BY <1>1 DEF FrameT
  <2> HIDE DEF fr2, f2
  <2> QED
    BY <2>1, <2>2
<1> HIDE DEF fr2
<1>5. CallsOf(fr2) = CallsOf(fr)
  BY <1>3, <1>4, CallsSame
<1> QED
  BY <1>5 DEF fr2

(* The ways out of blocks.                                                 *)
LEMMA CutOut ==
  ASSUME IInv, IInv', NEW i \in Int, NEW b, NEW n, Within(v, b, n), clos' = clos, gen' = gen,
         v' = Truncate(CloseOuters(v, i), b, n)
  PROVE  \E m \in 0 .. Len(Scope) : Captured!LeaveLocals(m)
<1> DEFINE st == v.stack
           fr == v.frames
           m == Top(v).base + n
<1>1. Running
  BY DEF Within, Running
<1>2. /\ v = VmOf(st, fr, v.open, v.outers) /\ Good(st, v.open, v.outers, clos)
      /\ st \in Seq(SlotT) /\ Len(st) \in Nat /\ fr \in Seq(FrameT) /\ fr # <<>> /\ Top(v) = Last(fr)
      /\ Top(v) \in FrameT /\ FrameOK(Top(v), Len(st)) /\ Top(v).base \in Nat
      /\ Locals(v) = Len(st) - Top(v).base
  BY <1>1, TopFine
<1>3. m \in 0 .. Len(st) /\ m >= Top(v).base
  <2>1. n \in Top(v).scopes[b].size .. Locals(v) /\ Top(v).scopes[b].size \in Nat
    BY <1>2, FrameParts DEF Within
  <2> DEFINE B == Top(v).base
             e == Len(st)
  <2>2. B \in Nat /\ e \in Nat /\ n \in Nat /\ n <= e - B
    BY <1>2, <2>1
  <2> HIDE DEF B, e
  <2>3. B + n \in 0 .. e /\ B + n >= B
    BY <2>2
  <2> QED
    BY <2>3 DEF B, e
<1>4. PICK op, ou : CloseOuters(v, i) = VmOf(st, fr, op, ou) /\ Takes(st, v.outers, ou)
  <2> HIDE DEF st, fr
  <2> QED
    BY <1>2, CloseTakes
<1>5. v' = VmOf(SubSeq(st, 1, m), TopBlocks(fr, b), op, ou)
  <2>1. Truncate(VmOf(st, fr, op, ou), b, n) = VmOf(SubSeq(st, 1, Last(fr).base + n), TopBlocks(fr, b), op, ou)
    BY TruncateIs
  <2> HIDE DEF st, fr
  <2> QED
    BY <1>2, <1>4, <2>1
<1> HIDE DEF st, fr
<1>6. v'.stack = SubSeq(st, 1, m) /\ v'.frames = TopBlocks(fr, b) /\ v'.outers = ou
  <2> DEFINE st2 == SubSeq(st, 1, m)
             fr2 == TopBlocks(fr, b)
  <2>1. v' = VmOf(st2, fr2, op, ou)
    BY <1>5
  <2> HIDE DEF st2, fr2
  <2>2. v'.stack = st2 /\ v'.frames = fr2 /\ v'.outers = ou
    BY <2>1, VmParts
  <2> QED
    BY <2>2 DEF st2, fr2
<1> HIDE DEF m
<1>7. Captured!Leave(m)
  BY <1>3, <1>4, <1>6, LeaveIs DEF st
<1>8. Calls' = Calls
  <2>1. CallsOf(TopBlocks(fr, b)) = CallsOf(fr)
    BY <1>2, BlocksSame
  <2> QED
    BY <1>6, <2>1, CallsLater, MappingIs DEF fr
<1>9. Calls # <<>> /\ Captured!Last(Calls).below = Top(v).base
  BY <1>1, CallsTop
<1>10. m \in 0 .. Len(Scope)
  <2>1. Len(Scope) = Len(st)
    BY <1>2, <1>3, MappingIs, ScopeParts DEF st
  <2> QED
    BY <1>3, <2>1
<1> QED
  BY <1>3, <1>7, <1>8, <1>9, <1>10 DEF Captured!LeaveLocals

LEMMA EndScopeIs ==
  ASSUME IInv, IInv', EndScope
  PROVE  \E m \in 0 .. Len(Scope) : Captured!LeaveLocals(m)
<1> DEFINE B == Top(v).base
           b == Len(Top(v).scopes) - 1
           n == Inner(v).size
<1>1. /\ v' = Truncate(CloseOuters(v, B + n + 1), b, n) /\ clos' = clos /\ gen' = gen
  BY DEF EndScope, CloseAbove
<1>2. Within(v, b, n) /\ B + n \in 0 .. Len(v.stack)
  BY EndScopeWithin
<1> HIDE DEF b, n, B
<1>3. B + n + 1 \in Int
  BY <1>2
<1> QED
  BY <1>1, <1>2, <1>3, CutOut

LEMMA JumpIs ==
  ASSUME IInv, IInv', NEW kind, NEW b, NEW n, Within(v, b, n), Jump(kind, b, n)
  PROVE  \E m \in 0 .. Len(Scope) : Captured!LeaveLocals(m)
<1> DEFINE i == Top(v).base + Inner(v).size + 1
<1>1. v' = Truncate(CloseOuters(v, i), b, n) /\ clos' = clos /\ gen' = gen
  BY DEF Jump, CloseAbove
<1>2. i \in Int
  <2>1. Running
    BY DEF Within, Running
  <2>2. Top(v) \in FrameT /\ FrameOK(Top(v), Len(v.stack)) /\ Top(v).base \in Nat /\ Len(v.stack) \in Nat
    BY <2>1, TopFine
  <2>3. /\ Len(Top(v).scopes) \in Nat /\ Len(Top(v).scopes) >= 1
        /\ \A a \in 1 .. Len(Top(v).scopes) : Top(v).scopes[a].size \in Nat
    BY <2>2, FrameParts
  <2>4. Len(Top(v).scopes) \in 1 .. Len(Top(v).scopes)
    BY <2>3
  <2>5. Inner(v).size \in Nat
    BY <2>3, <2>4 DEF Inner, Last
  <2> QED
    BY <2>2, <2>5
<1> HIDE DEF i
<1> QED
  BY <1>1, <1>2, CutOut

LEMMA BreakIs ==
  ASSUME IInv, IInv', NEW b, Break(b)
  PROVE  \E m \in 0 .. Len(Scope) : Captured!LeaveLocals(m)
<1> DEFINE n == Top(v).scopes[b + 1].size
<1>1. Within(v, b, n) /\ Jump("break", b, n)
  BY BreakWithin
<1> HIDE DEF n
<1> QED
  BY <1>1, JumpIs

LEMMA GotoIs ==
  ASSUME IInv, IInv', NEW b, NEW n, Goto(b, n)
  PROVE  \E m \in 0 .. Len(Scope) : Captured!LeaveLocals(m)
BY GotoWithin, JumpIs

LEMMA WholeOf ==
  ASSUME NEW S, NEW s \in Seq(S)
  PROVE  SubSeq(s, 1, Len(s)) = s /\ Len(s) \in 0 .. Len(s)
<1> DEFINE z == SubSeq(s, 1, Len(s))
<1>1. Len(s) \in 0 .. Len(s)
  OBVIOUS
<1>2. z \in Seq(S) /\ Len(z) = Len(s) /\ \A i \in 1 .. Len(s) : z[i] = s[i]
  BY <1>1, FirstOf
<1> HIDE DEF z
<1>3. z = s
  BY <1>2, SeqEqual
<1> QED
  BY <1>1, <1>3 DEF z

(* New locals above all others.                                            *)
LEMMA EnteredBind ==
  ASSUME IInv, IInv', clos' = clos, NEW f \in FrameT, NEW values \in Seq(Value), Entered(v, f, values, v')
  PROVE  /\ Captured!Bind(Len(Scope), values)
         /\ Calls' = Append(Calls, CallOf(f)) /\ Len(Scope) = Len(v.stack)
<1>1. PICK new : /\ NewLocals(v.stack, new, values)
                 /\ v' = VmOf(v.stack \o new, Append(v.frames, f), v.open, v.outers)
  BY DEF Entered
<1>2. v'.stack = v.stack \o new /\ v'.frames = Append(v.frames, f) /\ v'.outers = v.outers
  <2> DEFINE st2 == v.stack \o new
             fr2 == Append(v.frames, f)
  <2>1. v' = VmOf(st2, fr2, v.open, v.outers)
    BY <1>1
  <2> HIDE DEF st2, fr2
  <2>2. v'.stack = st2 /\ v'.frames = fr2 /\ v'.outers = v.outers
    BY <2>1, VmParts
  <2> QED
    BY <2>2 DEF st2, fr2
<1>3. v.stack \in Seq(SlotT) /\ v.frames \in Seq(FrameT)
  BY FineIs DEF IInv
<1>4. SubSeq(v.stack, 1, Len(v.stack)) = v.stack /\ Len(v.stack) \in 0 .. Len(v.stack)
  BY <1>3, WholeOf
<1>5. Rebinds(v, Len(v.stack), values)
  BY <1>1, <1>2, <1>4, TakesNone DEF Rebinds
<1>6. Captured!Bind(Len(v.stack), values)
  BY <1>4, <1>5, BindIs
<1>7. Len(Scope) = Len(v.stack)
  BY <1>3, <1>4, MappingIs, ScopeParts
<1>8. Calls' = Append(Calls, CallOf(f))
  BY <1>2, <1>3, CallsPush, CallsLater, MappingIs
<1> QED
  BY <1>6, <1>7, <1>8

LEMMA CallIs ==
  ASSUME IInv, IInv', NEW k \in Closure \cup {None}, NEW x \in Value, Call(k, x)
  PROVE  Captured!Call(k, x)
<1> DEFINE f == Frame(k, Len(v.stack), FALSE)
           values == <<x>>
<1>1. PICK moves \in BOOLEAN : v' = EnterFrame(v, f, values, moves)
  BY DEF Call
<1>2. clos' = clos /\ gen' = gen /\ Len(v.stack) + 1 <= MaxStack
  BY DEF Call, Room
<1>3. values \in Seq(Value) /\ Len(values) = 1 /\ Len(values) \in 1 .. MaxLocals
  BY OneValue
<1> HIDE DEF values
<1>4. Entered(v, f, values, v')
  <2>1. Fine(v, clos) /\ FALSE \in BOOLEAN /\ Len(v.stack) + Len(values) <= MaxStack
    BY <1>2, <1>3 DEF IInv
  <2> QED
    BY <1>1, <1>3, <2>1, EnterFine
<1>5. f \in FrameT
  <2>1. Len(v.stack) \in Nat /\ 1 \in 1 .. MaxLocals
    BY FineIs, Constants DEF IInv
  <2> QED
    BY <2>1, FrameFine
<1>6. CallOf(f) = [fn |-> k, below |-> Len(v.stack), gen |-> FALSE]
  BY DEF Frame, CallOf
<1> HIDE DEF f
<1>7. Captured!Bind(Len(Scope), values) /\ Calls' = Append(Calls, CallOf(f)) /\ Len(Scope) = Len(v.stack)
  BY <1>2, <1>3, <1>4, <1>5, EnteredBind
<1> QED
  BY <1>2, <1>6, <1>7 DEF Captured!Call, values

LEMMA ResumeIs ==
  ASSUME IInv, IInv', Resume
  PROVE  Captured!Resume
<1> DEFINE f == Frame(None, Len(v.stack), TRUE)
           values == gen.vals
<1>1. PICK moves \in BOOLEAN : v' = EnterFrame(v, f, values, moves)
  BY DEF Resume
<1>2. clos' = clos /\ gen' = [NoGen EXCEPT !.state = "running"] /\ gen.state = "suspended"
      /\ Len(v.stack) + Len(values) <= MaxStack
  BY DEF Resume, Room
<1>3. values \in Seq(Value) /\ Len(values) \in 1 .. MaxLocals
  BY <1>2 DEF IInv, GenT
<1> HIDE DEF values
<1>4. Entered(v, f, values, v')
  <2>1. Fine(v, clos) /\ TRUE \in BOOLEAN
    BY DEF IInv
  <2> QED
    BY <1>1, <1>2, <1>3, <2>1, EnterFine
<1>5. f \in FrameT
  <2>1. Len(v.stack) \in Nat /\ 1 \in 1 .. MaxLocals
    BY FineIs, Constants DEF IInv
  <2> QED
    BY <2>1, FrameFine
<1>6. CallOf(f) = [fn |-> None, below |-> Len(v.stack), gen |-> TRUE]
  BY DEF Frame, CallOf
<1> HIDE DEF f
<1>7. Captured!Bind(Len(Scope), values) /\ Calls' = Append(Calls, CallOf(f)) /\ Len(Scope) = Len(v.stack)
  BY <1>2, <1>3, <1>4, <1>5, EnteredBind
<1>8. gen' = [state |-> "running", vals |-> <<>>]
  BY <1>2 DEF NoGen
<1> QED
  BY <1>2, <1>6, <1>7, <1>8 DEF Captured!Resume, values

LEMMA DeclareIs ==
  ASSUME IInv, IInv', Declare
  PROVE  \E x \in Value : Captured!Declare(x)
<1> DEFINE st == v.stack
           fr == v.frames
           values == <<Null>>
<1>1. v' = WithLocals(v, values) /\ clos' = clos /\ gen' = gen
  BY DEF Declare
<1>2. /\ v = VmOf(st, fr, v.open, v.outers) /\ st \in Seq(SlotT)
  BY FineIs DEF IInv
<1>3. Extended(st, fr, v.open, v.outers, values)
  BY DeclareExtended
<1>4. values \in Seq(Value)
  BY NullIsAValue
<1> HIDE DEF st, fr, values
<1>5. PICK new : /\ NewLocals(st, new, values)
                 /\ WithLocals(VmOf(st, fr, v.open, v.outers), values) = VmOf(st \o new, fr, v.open, v.outers)
  BY <1>3 DEF Extended
<1>6. v'.stack = st \o new /\ v'.frames = fr /\ v'.outers = v.outers
  <2> DEFINE st2 == st \o new
  <2>1. v' = VmOf(st2, fr, v.open, v.outers)
    BY <1>1, <1>2, <1>5
  <2> HIDE DEF st2
  <2>2. v'.stack = st2 /\ v'.frames = fr /\ v'.outers = v.outers
    BY <2>1, VmParts
  <2> QED
    BY <2>2 DEF st2
<1>7. SubSeq(st, 1, Len(st)) = st /\ Len(st) \in 0 .. Len(st)
  BY <1>2, WholeOf
<1>8. Rebinds(v, Len(st), values)
  BY <1>5, <1>6, <1>7, TakesNone DEF Rebinds, st
<1>9. Captured!Bind(Len(st), values)
  BY <1>1, <1>4, <1>7, <1>8, BindIs DEF st
<1>10. Len(Scope) = Len(st)
  BY <1>2, <1>7, MappingIs, ScopeParts DEF st
<1>11. Calls' = Calls
  BY <1>6, CallsLater, MappingIs DEF fr
<1>12. Captured!Declare(Null)
  BY <1>1, <1>9, <1>10, <1>11 DEF Captured!Declare, values
<1> QED
  BY <1>12, NullIsAValue

(* A step that none of it is seen in.                                      *)
LEMMA Unseen ==
  ASSUME v'.stack = v.stack, v'.outers = v.outers, Calls' = Calls, clos' = clos, gen' = gen
  PROVE  UNCHANGED Captured!vars
<1>1. Scope' = Scope /\ Holds' = Holds
  BY DEF Scope, Holds
<1>2. \A o : Read(o)' = Read(o)
  BY DEF Read
<1>3. Cell' = Cell
  BY <1>2 DEF Cell
<1> QED
  BY <1>1, <1>3 DEF Captured!vars

LEMMA BeginScopeIs ==
  ASSUME IInv, NEW try, BeginScope(try)
  PROVE  UNCHANGED Captured!vars
<1> DEFINE fr == v.frames
           n == Len(fr)
           s == [size |-> Locals(v), try |-> try]
           f2 == [fr[n] EXCEPT !.scopes = Append(@, s)]
           fr2 == [fr EXCEPT ![n] = f2]
<1>1. /\ v' = [v EXCEPT !.frames[Len(v.frames)].scopes = Append(@, s)] /\ clos' = clos /\ gen' = gen
      /\ Running
  BY DEF BeginScope
<1>2. /\ v = VmOf(v.stack, fr, v.open, v.outers) /\ fr \in Seq(FrameT) /\ DOMAIN fr = 1 .. Len(fr)
      /\ Len(fr) \in Nat /\ \A d \in DOMAIN fr : fr[d] \in FrameT
  BY FineIs, ElementOfSeq DEF IInv
<1>3. v' = [v EXCEPT !.frames = fr2]
  BY <1>1
<1>4. ASSUME NEW d \in DOMAIN fr
      PROVE  fr2[d].fn = fr[d].fn /\ fr2[d].base = fr[d].base /\ fr2[d].gen = fr[d].gen
  <2>1. fr2[d] = fr[d] \/ (d = n /\ fr2[d] = f2)
    OBVIOUS
  <2>2. d = n => f2.fn = fr[d].fn /\ f2.base = fr[d].base /\ f2.gen = fr[d].gen
    <3> HIDE DEF s
    <3> QED
      BY <1>2 DEF FrameT
  <2> HIDE DEF fr2, f2
  <2> QED
    BY <2>1, <2>2
<1>5. DOMAIN fr2 = DOMAIN fr
  OBVIOUS
<1> HIDE DEF fr2, fr
<1>6. CallsOf(fr2) = CallsOf(fr)
  BY <1>2, <1>4, <1>5, CallsSame
<1>7. v'.stack = v.stack /\ v'.outers = v.outers /\ v'.frames = fr2
  <2>1. v' = VmOf(v.stack, fr2, v.open, v.outers)
    BY <1>2, <1>3, PutFrames
  <2> QED
    BY <2>1, VmParts
<1>8. Calls' = Calls
  BY <1>6, <1>7, CallsLater, MappingIs DEF fr
<1> QED
  BY <1>1, <1>7, <1>8, Unseen

(* An assignment to the local in slot s.                                   *)
LEMMA WriteSlot ==
  ASSUME IInv, IInv', clos' = clos, NEW s \in 1 .. Len(v.stack), NEW x \in Value,
         v' = [v EXCEPT !.stack[s].val = x]
  PROVE  /\ Captured!Write(Scope[s], x) /\ Calls' = Calls
         /\ Scope[s] = v.stack[s].var /\ Len(Scope) = Len(v.stack)
<1> DEFINE st == v.stack
           s2 == [st[s] EXCEPT !.val = x]
           st2 == [st EXCEPT ![s] = s2]
           y == st[s].var
           f == [Cell EXCEPT ![y] = x]
<1>1. /\ v = VmOf(st, v.frames, v.open, v.outers) /\ Good(st, v.open, v.outers, clos)
      /\ st \in Seq(SlotT) /\ Len(st) \in Nat /\ v \in VmT /\ Distinct(st)
      /\ Values(st, v.outers, clos, Cell) /\ Cell = [z \in Var |-> Cell[z]]
  BY FineIs, GoodTypes, CellValues DEF IInv, Fine
<1>2. \A i \in 1 .. Len(st) : st[i] \in SlotT /\ st[i].var \in Var
  BY <1>1, GoodOuters
<1>3. s2 \in SlotT /\ s2.var = y /\ s2.val = x
  BY <1>2 DEF SlotT
<1>4. v' = [v EXCEPT !.stack = st2]
  OBVIOUS
<1> HIDE DEF s2
<1>5. /\ st2 \in Seq(SlotT) /\ Len(st2) = Len(st) /\ st2[s] = s2
      /\ \A j \in 1 .. Len(st) : j # s => st2[j] = st[j]
  BY <1>1, <1>3, ExceptSeq
<1> HIDE DEF st2
<1>6. v'.stack = st2 /\ v'.frames = v.frames /\ v'.outers = v.outers
  <2>1. v' \in VmSet(st2, v.frames, v.open, v.outers)
    BY <1>1, <1>4 DEF VmT, VmSet
  <2>2. v' = VmOf(st2, v.frames, v.open, v.outers)
    BY <2>1, VmInSet
  <2> DEFINE w == VmOf(st2, v.frames, v.open, v.outers)
  <2>3. w.stack = st2 /\ w.frames = v.frames /\ w.outers = v.outers
    BY VmParts
  <2> HIDE DEF w
  <2>4. v' = w
    BY <2>2 DEF w
  <2> QED
    BY <2>3, <2>4
<1>7. Good(st2, v'.open, v'.outers, clos)
  BY <1>6 DEF IInv, Fine
<1>8. f[y] = x /\ \A z \in Var : z # y => f[z] = Cell[z]
  BY <1>1, <1>2
<1> HIDE DEF f
<1>9. \A i \in 1 .. Len(st2) : f[st2[i].var] = st2[i].val
  <2> SUFFICES ASSUME NEW i \in 1 .. Len(st) PROVE f[st2[i].var] = st2[i].val
    BY <1>5
  <2>1. CASE i = s
    BY <1>3, <1>5, <1>8, <2>1
  <2>2. CASE i # s
    <3>1. st[i].var # y
      BY <1>1, <2>2 DEF Distinct
    <3>2. f[st[i].var] = st[i].val
      BY <1>1, <1>2, <1>8, <3>1 DEF Values
    <3> QED
      BY <1>5, <2>2, <3>2
  <2> QED
    BY <2>1, <2>2
<1>10. \A z \in Var : z \notin VarsOf(st2) => f[z] = Cell[z]
  <2>1. y \in VarsOf(st2)
    BY <1>3, <1>5 DEF VarsOf
  <2> QED
    BY <1>8, <2>1
<1>11. Values(st2, v'.outers, clos, f)
  <2>1. Takes(st, v.outers, v'.outers)
    BY <1>6, TakesNone
  <2> HIDE DEF st
  <2> QED
    BY <1>1, <1>7, <1>9, <1>10, <2>1, ValuesAfter
<1>12. Settled(ScopeOf(st2), HoldsOf(clos), f)
  BY <1>6, <1>11, SettledIs
<1>13. ScopeOf(st2) = Scope /\ HoldsOf(clos) = Holds
  <2>1. DOMAIN st2 = DOMAIN st /\ \A i \in DOMAIN st : st2[i].var = st[i].var
    BY <1>1, <1>3, <1>5
  <2> QED
    BY <2>1, MappingIs DEF ScopeOf
<1>14. Captured!Settle(Scope, Holds, f)
  BY <1>12, <1>13, SettleOf
<1>15. Scope[s] = y /\ Len(Scope) = Len(st)
  <2>1. 0 \in 0 .. Len(st)
    BY <1>1
  <2> QED
    BY <1>1, <2>1, ScopeParts, MappingIs
<1>16. Calls' = Calls
  BY <1>6, CallsLater, MappingIs
<1> QED
  BY <1>14, <1>15, <1>16 DEF Captured!Write, f

LEMMA SetLocalIs ==
  ASSUME IInv, IInv', NEW i, NEW x \in Value, SetLocal(i, x)
  PROVE  Captured!Assign(x)
<1> DEFINE s == Top(v).base + i
<1>1. /\ Running /\ i \in 1 .. Locals(v) /\ clos' = clos /\ gen' = gen
      /\ v' = [v EXCEPT !.stack[s].val = x]
  BY DEF SetLocal
<1>2. s \in Top(v).base + 1 .. Len(v.stack) /\ s \in 1 .. Len(v.stack)
  <2> DEFINE B == Top(v).base
             e == Len(v.stack)
  <2>1. i \in 1 .. e - B /\ B \in Nat /\ e \in Nat
    BY <1>1, TopFine
  <2> HIDE DEF B, e
  <2>2. B + i \in B + 1 .. e /\ B + i \in 1 .. e
    BY <2>1
  <2> QED
    BY <2>2 DEF B, e
<1> HIDE DEF s
<1>3. Captured!Write(Scope[s], x) /\ Calls' = Calls /\ Len(Scope) = Len(v.stack)
  BY <1>1, <1>2, WriteSlot
<1>4. Calls # <<>> /\ Captured!Last(Calls).below = Top(v).base
  BY <1>1, CallsTop
<1> QED
  BY <1>1, <1>2, <1>3, <1>4 DEF Captured!Assign

(* An assignment to a variable that has left the stack.                    *)
LEMMA WriteOwn ==
  ASSUME IInv, IInv', clos' = clos, NEW k \in Closure, clos[k] # NoClosure, NEW x \in Value,
         v.outers[clos[k].outer].at = "own",
         v' = [v EXCEPT !.outers[clos[k].outer].value = x]
  PROVE  Captured!Write(clos[k].var, x) /\ Calls' = Calls
<1> DEFINE st == v.stack
           ou == v.outers
           y == clos[k].var
           o == clos[k].outer
           p2 == [ou[o] EXCEPT !.value = x]
           ou2 == [ou EXCEPT ![o] = p2]
           f == [Cell EXCEPT ![y] = x]
<1>1. /\ v = VmOf(st, v.frames, v.open, ou) /\ Good(st, v.open, ou, clos)
      /\ st \in Seq(SlotT) /\ Len(st) \in Nat /\ DOMAIN st = 1 .. Len(st) /\ v \in VmT /\ Shared(clos)
      /\ Values(st, ou, clos, Cell) /\ Cell = [z \in Var |-> Cell[z]] /\ ou \in [Outer -> OuterT]
  BY FineIs, GoodTypes, CellValues DEF IInv, Fine
<1>2. o \in Outer /\ y \in Var /\ LexicalBy(st, ou, clos[k])
  BY <1>1, ClosureOuter
<1>3. y \notin VarsOf(st)
  BY <1>2 DEF LexicalBy
<1>4. p2.value = x /\ p2 \in OuterT
  BY <1>1, <1>2 DEF OuterT
<1>5. v' = [v EXCEPT !.outers = ou2]
  OBVIOUS
<1> HIDE DEF p2
<1>6. ou2[o] = p2 /\ \A z \in Outer : z # o => ou2[z] = ou[z]
  BY <1>1, <1>2
<1> HIDE DEF ou2
<1>7. v'.stack = st /\ v'.frames = v.frames /\ v'.outers = ou2
  <2>1. v' \in VmSet(st, v.frames, v.open, ou2)
    BY <1>1, <1>5 DEF VmT, VmSet
  <2>2. v' = VmOf(st, v.frames, v.open, ou2)
    BY <2>1, VmInSet
  <2> DEFINE w == VmOf(st, v.frames, v.open, ou2)
  <2>3. w.stack = st /\ w.frames = v.frames /\ w.outers = ou2
    BY VmParts
  <2> HIDE DEF w
  <2>4. v' = w
    BY <2>2 DEF w
  <2> QED
    BY <2>3, <2>4
<1>8. f[y] = x /\ \A z \in Var : z # y => f[z] = Cell[z]
  BY <1>1, <1>2
<1> HIDE DEF f
<1>9. ASSUME NEW i \in 1 .. Len(st) PROVE f[st[i].var] = st[i].val
  <2>1. st[i].var \in Var
    BY <1>1, GoodOuters
  <2>2. st[i].var # y
    BY <1>1, <1>3 DEF VarsOf
  <2> QED
    BY <1>1, <1>8, <2>1, <2>2 DEF Values
<1>10. ASSUME NEW l \in Closure, clos[l] # NoClosure, clos[l].var \notin VarsOf(st)
       PROVE  f[clos[l].var] = ou2[clos[l].outer].value
  <2>1. clos[l].outer \in Outer /\ clos[l].var \in Var
    BY <1>1, <1>10, ClosureOuter
  <2>2. clos[l].var = y <=> clos[l].outer = o
    BY <1>1 DEF Shared
  <2>3. CASE clos[l].var = y
    BY <1>4, <1>6, <1>8, <2>2, <2>3
  <2>4. CASE clos[l].var # y
    BY <1>1, <1>6, <1>8, <1>10, <2>1, <2>2, <2>4 DEF Values
  <2> QED
    BY <2>3, <2>4
<1>11. Values(v'.stack, v'.outers, clos', f)
  BY <1>7, <1>9, <1>10 DEF Values
<1>12. Settled(ScopeOf(st), HoldsOf(clos), f)
  BY <1>7, <1>11, SettledIs
<1>13. Captured!Settle(Scope, Holds, f)
  BY <1>12, SettleOf, MappingIs
<1>14. Calls' = Calls
  BY <1>7, CallsLater, MappingIs
<1> QED
  BY <1>13, <1>14 DEF Captured!Write, f

LEMMA SetOuterIs ==
  ASSUME IInv, IInv', NEW k \in Closure, NEW x \in Value, SetOuter(k, x)
  PROVE  Captured!AssignFree(k, x)
<1> DEFINE o == clos[k].outer
           p == v.outers[o]
<1>0. v' = CASE p.at = "own" -> [v EXCEPT !.outers[o].value = x]
             [] p.at = "stack" -> [v EXCEPT !.stack[p.idx].val = x]
             [] OTHER -> v
  BY Zenon DEF SetOuter
<1>1. clos[k] # NoClosure /\ clos' = clos /\ gen' = gen
  BY DEF SetOuter, Unborn
<1>2. clos[k].var \in Var /\ LexicalBy(v.stack, v.outers, clos[k])
  <2>1. Good(v.stack, v.open, v.outers, clos)
    BY DEF IInv, Fine
  <2> QED
    BY <1>1, <2>1, ClosureOuter
<1>3. Holds[k] = clos[k].var /\ Holds[k] # None
  BY <1>1, <1>2, NoneIsNoVariable DEF Holds
<1>4. CASE p.at = "own"
  <2>1. v' = [v EXCEPT !.outers[clos[k].outer].value = x]
    BY <1>0, <1>4
  <2>2. Captured!Write(clos[k].var, x) /\ Calls' = Calls
    BY <1>1, <1>4, <2>1, WriteOwn, Zenon
  <2> QED
    BY <1>1, <1>3, <2>2 DEF Captured!AssignFree
<1>5. CASE p.at # "own"
  <2>1. /\ p.at = "stack" /\ p.idx \in 1 .. Len(v.stack)
        /\ v.stack[p.idx].var = clos[k].var
    BY <1>2, <1>5 DEF LexicalBy
  <2>2. v' = [v EXCEPT !.stack[p.idx].val = x]
    BY <1>0, <2>1
  <2>3. Captured!Write(Scope[p.idx], x) /\ Calls' = Calls /\ Scope[p.idx] = v.stack[p.idx].var
    <3> DEFINE s == p.idx
    <3>1. s \in 1 .. Len(v.stack) /\ v' = [v EXCEPT !.stack[s].val = x]
      BY <2>1, <2>2
    <3> HIDE DEF s
    <3>2. Captured!Write(Scope[s], x) /\ Calls' = Calls /\ Scope[s] = v.stack[s].var
      BY <1>1, <3>1, WriteSlot
    <3> QED
      BY <3>2 DEF s
  <2>4. Scope[p.idx] = Holds[k]
    BY <1>3, <2>1, <2>3
  <2>5. Captured!Write(Holds[k], x)
    BY <2>3, <2>4
  <2> QED
    BY <1>1, <1>3, <2>3, <2>5, Zenon DEF Captured!AssignFree
<1> QED
  BY <1>4, <1>5

(* A closure is born with a variable.                                      *)
LEMMA BornSettles ==
  ASSUME IInv, IInv', v'.stack = v.stack, v'.frames = v.frames, UsedSame(v.outers, v'.outers),
         NEW k, Born(clos, clos', k), clos'[k] # NoClosure,
         clos'[k].var \in VarsOf(v.stack) \/ \E l \in Closure : clos[l] # NoClosure /\ clos'[k] = clos[l]
  PROVE  /\ Captured!Settle(Scope, [Holds EXCEPT ![k] = clos'[k].var], Cell)
         /\ Calls' = Calls /\ Holds[k] = None /\ clos'[k].var \in Var
<1> DEFINE st == v.stack
<1>1. /\ Good(st, v.open, v.outers, clos) /\ Values(st, v.outers, clos, Cell)
  BY CellValues DEF IInv, Fine
<1>2. ASSUME NEW l \in Closure, clos[l] # NoClosure, clos[l].var \notin VarsOf(st)
      PROVE  v'.outers[clos[l].outer] = v.outers[clos[l].outer]
  <2>1. clos[l].outer \in Outer /\ LexicalBy(st, v.outers, clos[l])
    BY <1>1, <1>2, ClosureOuter
  <2>2. v.outers[clos[l].outer].at = "own"
    BY <1>2, <2>1 DEF LexicalBy
  <2> QED
    BY <2>1, <2>2 DEF UsedSame
<1>3. ASSUME NEW j \in Closure, clos'[j] # NoClosure, clos'[j].var \notin VarsOf(st)
      PROVE  Cell[clos'[j].var] = v'.outers[clos'[j].outer].value
  <2>1. \E l \in Closure : clos[l] # NoClosure /\ clos'[j] = clos[l]
    BY <1>3 DEF Born
  <2>2. PICK l \in Closure : clos[l] # NoClosure /\ clos'[j] = clos[l]
    BY <2>1
  <2>3. clos[l].var \notin VarsOf(st)
    BY <1>3, <2>2
  <2> QED
    BY <1>1, <1>2, <2>2, <2>3 DEF Values
<1>4. Values(v'.stack, v'.outers, clos', Cell)
  BY <1>1, <1>3 DEF Values
<1>5. Settled(ScopeOf(st), HoldsOf(clos'), Cell)
  BY <1>4, SettledIs
<1>6. HoldsOf(clos') = [Holds EXCEPT ![k] = clos'[k].var] /\ Holds[k] = None
  BY DEF HoldsOf, Holds, Born
<1>7. Captured!Settle(Scope, [Holds EXCEPT ![k] = clos'[k].var], Cell)
  BY <1>5, <1>6, SettleOf, MappingIs
<1>8. Calls' = Calls
  BY CallsLater, MappingIs
<1>9. clos'[k].var \in Var
  BY DEF Born, ClosT
<1> QED
  BY <1>6, <1>7, <1>8, <1>9

LEMMA CaptureLocalIs ==
  ASSUME IInv, IInv', NEW k \in Closure, NEW i, CaptureLocal(k, i)
  PROVE  \E x \in Var : Captured!Capture(k, x)
<1> DEFINE s == Top(v).base + i
           found == FindOuter(v, s)
           x == v.stack[s].var
<1>1. /\ Running /\ clos[k] = NoClosure /\ i \in 1 .. Locals(v) /\ gen' = gen
      /\ clos' = [clos EXCEPT ![k] = [outer |-> found.outer, var |-> x]]
  BY DEF CaptureLocal, Unborn
<1>2. v'.stack = v.stack /\ v'.frames = v.frames /\ UsedSame(v.outers, v'.outers)
  BY CaptureLocalStep
<1>3. s \in Top(v).base + 1 .. Len(v.stack) /\ s \in 1 .. Len(v.stack)
  <2> DEFINE B == Top(v).base
             e == Len(v.stack)
  <2>1. i \in 1 .. e - B /\ B \in Nat /\ e \in Nat
    BY <1>1, TopFine
  <2> HIDE DEF B, e
  <2>2. B + i \in B + 1 .. e /\ B + i \in 1 .. e
    BY <2>1
  <2> QED
    BY <2>2 DEF B, e
<1> HIDE DEF s, found
<1>4. /\ v.stack \in Seq(SlotT) /\ DOMAIN v.stack = 1 .. Len(v.stack) /\ clos \in [Closure -> ClosT]
      /\ clos' \in [Closure -> ClosT] /\ Good(v.stack, v.open, v.outers, clos)
  BY FineIs, GoodTypes DEF IInv, Fine
<1>5. x \in Var /\ x # 0
  BY <1>3, <1>4, GoodOuters, Constants, SMTT(30)
<1>6. clos'[k] # NoClosure /\ clos'[k].var = x /\ Born(clos, clos', k)
  BY <1>1, <1>4, <1>5 DEF Born, NoClosure
<1>7. x \in VarsOf(v.stack)
  BY <1>3, <1>4 DEF VarsOf
<1>8. /\ Captured!Settle(Scope, [Holds EXCEPT ![k] = x], Cell) /\ Calls' = Calls /\ Holds[k] = None
  BY <1>2, <1>6, <1>7, BornSettles
<1>9. Calls # <<>> /\ Captured!Last(Calls).below = Top(v).base
  BY <1>1, CallsTop
<1>10. Scope[s] = x /\ Len(Scope) = Len(v.stack)
  <2>1. /\ Len(ScopeOf(v.stack)) = Len(v.stack)
        /\ \A j \in 1 .. Len(v.stack) : ScopeOf(v.stack)[j] = v.stack[j].var
    <3>1. 0 \in 0 .. Len(v.stack)
      BY <1>4, LenProperties
    <3> QED
      BY <1>4, <3>1, ScopeParts
  <2>2. Scope = ScopeOf(v.stack)
    BY MappingIs
  <2> QED
    BY <1>3, <2>1, <2>2
<1> HIDE DEF x
<1>11. Captured!Capture(k, x)
  BY <1>1, <1>3, <1>8, <1>9, <1>10 DEF Captured!Capture
<1> QED
  BY <1>5, <1>11

LEMMA CopyIs ==
  ASSUME IInv, IInv', NEW k \in Closure, NEW l \in Closure, clos[k] = NoClosure,
         clos' = [clos EXCEPT ![k] = clos[l]], v' = v, gen' = gen
  PROVE  (\E x \in Var : Captured!Capture(k, x)) \/ UNCHANGED Captured!vars
<1>1. clos \in [Closure -> ClosT] /\ clos' \in [Closure -> ClosT]
  BY GoodTypes DEF IInv, Fine
<1>2. CASE clos[l] = NoClosure
  <2>1. clos' = clos
    BY <1>1, <1>2
  <2>2. Calls' = Calls
    BY CallsLater, MappingIs
  <2> QED
    BY <2>1, <2>2, Unseen
<1>3. CASE clos[l] # NoClosure
  <2>1. Born(clos, clos', k) /\ clos'[k] = clos[l]
    BY <1>1 DEF Born
  <2>2. UsedSame(v.outers, v'.outers)
    BY DEF UsedSame
  <2>3. /\ Captured!Settle(Scope, [Holds EXCEPT ![k] = clos[l].var], Cell)
        /\ Calls' = Calls /\ Holds[k] = None /\ clos[l].var \in Var
    BY <1>3, <2>1, <2>2, BornSettles
  <2>4. Holds[l] = clos[l].var
    BY <1>3 DEF Holds
  <2>5. Captured!Capture(k, clos[l].var)
    BY <2>3, <2>4 DEF Captured!Capture
  <2> QED
    BY <2>3, <2>5
<1> QED
  BY <1>2, <1>3

LEMMA CaptureOuterIs ==
  ASSUME IInv, IInv', NEW k \in Closure, CaptureOuter(k)
  PROVE  (\E x \in Var : Captured!Capture(k, x)) \/ UNCHANGED Captured!vars
<1>1. /\ Running /\ clos[k] = NoClosure /\ Top(v).fn # None /\ v' = v /\ gen' = gen
      /\ clos' = [clos EXCEPT ![k] = clos[Top(v).fn]]
  BY DEF CaptureOuter, Unborn
<1>2. Top(v).fn \in Closure
  <2>1. Top(v) \in FrameT
    BY <1>1, TopFine
  <2> QED
    BY <1>1, <2>1 DEF FrameT
<1> QED
  BY <1>1, <1>2, CopyIs

LEMMA CloneClosureIs ==
  ASSUME IInv, IInv', NEW k \in Closure, NEW l \in Closure, CloneClosure(k, l)
  PROVE  (\E x \in Var : Captured!Capture(k, x)) \/ UNCHANGED Captured!vars
BY CopyIs DEF CloneClosure, Unborn

LEMMA NewGeneratorIs ==
  ASSUME IInv, NEW x \in Value, NewGenerator(x)
  PROVE  Captured!NewGenerator(x)
<1>1. /\ gen.state = "none" /\ gen' = [state |-> "suspended", vals |-> <<x>>] /\ v' = v /\ clos' = clos
  BY DEF NewGenerator
<1>2. Calls' = Calls
  BY <1>1, CallsLater, MappingIs
<1>3. Scope' = Scope /\ Holds' = Holds
  BY <1>1 DEF Scope, Holds
<1>4. \A o : Read(o)' = Read(o)
  BY <1>1 DEF Read
<1>5. Cell' = Cell
  BY <1>1, <1>4 DEF Cell
<1> QED
  BY <1>1, <1>2, <1>3, <1>5 DEF Captured!NewGenerator

(* A call of a function in the place of another.                           *)
LEMMA RecalledIs ==
  ASSUME NEW fr \in Seq(FrameT), fr # <<>>, NEW k \in Closure \cup {None}
  PROVE  CallsOf(Recalled(fr, k)) = [CallsOf(fr) EXCEPT ![Len(fr)].fn = k]
<1> DEFINE d == Len(fr)
           f2 == [fr[d] EXCEPT !.scopes = SubSeq(@, 1, 1)]
           f3 == [f2 EXCEPT !.fn = k]
           fr2 == TopBlocks(fr, 1)
           fr3 == Recalled(fr, k)
           c == CallsOf(fr)
           c2 == CallsOf(fr3)
           g == [c[d] EXCEPT !.fn = k]
<1>1. /\ DOMAIN fr = 1 .. d /\ d \in Nat /\ \A i \in 1 .. d : fr[i] \in FrameT
      /\ c \in Seq(CallT) /\ DOMAIN c = 1 .. d /\ \A i \in 1 .. d : c[i] = CallOf(fr[i])
  BY ElementOfSeq, CallsIs
<1>2. d \in 1 .. d
  <2>1. Len(fr) \in Nat /\ Len(fr) # 0
    BY EmptySeq
  <2> QED
    BY <2>1
<1>3. fr2 = [fr EXCEPT ![d] = f2] /\ DOMAIN fr2 = 1 .. d
  BY <1>1 DEF TopBlocks
<1>4. Len(fr2) = d
  BY <1>1, <1>3
<1>5. fr2[d] = f2
  BY <1>1, <1>2, <1>3
<1>6. fr3 = [fr2 EXCEPT ![d] = f3] /\ DOMAIN fr3 = 1 .. d
  <2>1. fr3 = [fr2 EXCEPT ![d].fn = k]
    <3> HIDE DEF fr2, d
    <3> QED
      BY <1>4 DEF Recalled, fr2
  <2> HIDE DEF fr2, f2, fr3, d
  <2> QED
    BY <1>3, <1>5, <2>1
<1>7. f2.base = fr[d].base /\ f2.gen = fr[d].gen /\ f2 \in [fn : Closure \cup {None}, base : Nat, scopes : {SubSeq(fr[d].scopes, 1, 1)}, gen : BOOLEAN]
  BY <1>1, <1>2 DEF FrameT
<1>8. f3.fn = k /\ f3.base = fr[d].base /\ f3.gen = fr[d].gen
  <2> HIDE DEF f2
  <2> QED
    BY <1>7
<1> HIDE DEF f2, f3
<1>9. fr3[d] = f3 /\ \A i \in 1 .. d : i # d => fr3[i] = fr[i]
  <2> HIDE DEF fr2, fr3
  <2> QED
    BY <1>1, <1>2, <1>3, <1>6
<1> HIDE DEF fr3
<1>10. c2 = [i \in 1 .. d |-> CallOf(fr3[i])]
  BY <1>6 DEF CallsOf
<1>11. g = CallOf(f3)
  <2>1. c[d] = [fn |-> fr[d].fn, below |-> fr[d].base, gen |-> fr[d].gen]
    BY <1>1, <1>2 DEF CallOf
  <2> HIDE DEF c, d
  <2> QED
    BY <1>8, <2>1 DEF CallOf
<1>12. c = [i \in 1 .. d |-> CallOf(fr[i])]
  BY <1>1 DEF CallsOf
<1> HIDE DEF c, c2, g, d
<1>13. c2 = [c EXCEPT ![d] = g]
  <2>1. \A i \in 1 .. d : c2[i] = [c EXCEPT ![d] = g][i]
    BY <1>1, <1>2, <1>9, <1>10, <1>11, <1>12
  <2> QED
    BY <1>1, <1>10, <1>12, <2>1
<1> QED
  BY <1>13 DEF c2, c, d, g, fr3

LEMMA TailCallIs ==
  ASSUME IInv, IInv', NEW k \in Closure \cup {None}, NEW x \in Value, TailCall(k, x)
  PROVE  Captured!TailCall(k, x)
<1> DEFINE st == v.stack
           fr == v.frames
           B == Top(v).base
           values == <<x>>
<1>1. Running /\ clos' = clos /\ gen' = gen
  BY DEF TailCall
<1>2. /\ v = VmOf(st, fr, v.open, v.outers) /\ Good(st, v.open, v.outers, clos)
      /\ fr \in Seq(FrameT) /\ fr # <<>> /\ B \in 0 .. Len(st) /\ Len(Calls) = Len(fr)
      /\ Calls # <<>> /\ Captured!Last(Calls).below = B
  BY <1>1, TopFine, CallsTop
<1>3. Replaced(v, k, values, v')
  BY TailCallStep
<1>4. values \in Seq(Value)
  BY OneValue
<1> HIDE DEF values, B
<1>5. PICK new, op, ou :
        /\ NewLocals(SubSeq(st, 1, B), new, values)
        /\ CloseOuters(v, B + 1) = VmOf(st, fr, op, ou)
        /\ v' = VmOf(SubSeq(st, 1, B) \o new, Recalled(fr, k), op, ou)
  BY <1>3 DEF Replaced, B
<1>6. Takes(st, v.outers, ou)
  <2> HIDE DEF st, fr
  <2>1. B + 1 \in Int
    BY <1>2
  <2>2. PICK op2, ou2 : CloseOuters(v, B + 1) = VmOf(st, fr, op2, ou2) /\ Takes(st, v.outers, ou2)
    BY <1>2, <2>1, CloseTakes
  <2>3. VmOf(st, fr, op, ou) = VmOf(st, fr, op2, ou2)
    BY <1>5, <2>2
  <2>4. VmOf(st, fr, op, ou).outers = ou /\ VmOf(st, fr, op2, ou2).outers = ou2
    BY VmParts
  <2> QED
    BY <2>2, <2>3, <2>4
<1>7. /\ v'.stack = SubSeq(st, 1, B) \o new /\ v'.frames = Recalled(fr, k) /\ v'.outers = ou
  <2> DEFINE st2 == SubSeq(st, 1, B) \o new
             fr2 == Recalled(fr, k)
  <2>1. v' = VmOf(st2, fr2, op, ou)
    BY <1>5
  <2> HIDE DEF st2, fr2
  <2>2. v'.stack = st2 /\ v'.frames = fr2 /\ v'.outers = ou
    BY <2>1, VmParts
  <2> QED
    BY <2>2 DEF st2, fr2
<1>8. Rebinds(v, B, values)
  BY <1>5, <1>6, <1>7 DEF Rebinds
<1>9. Captured!Bind(B, values)
  BY <1>1, <1>2, <1>4, <1>8, BindIs
<1>10. Calls' = [Calls EXCEPT ![Len(Calls)].fn = k]
  <2>1. Calls' = CallsOf(Recalled(fr, k)) /\ Calls = CallsOf(fr)
    BY <1>7, CallsLater, MappingIs
  <2> HIDE DEF fr
  <2>2. CallsOf(Recalled(fr, k)) = [CallsOf(fr) EXCEPT ![Len(fr)].fn = k]
    BY <1>2, RecalledIs
  <2> QED
    BY <1>2, <2>1, <2>2
<1> QED
  BY <1>1, <1>2, <1>9, <1>10 DEF Captured!TailCall, values

LEMMA FirstOfFirst ==
  ASSUME NEW S, NEW s \in Seq(S), NEW e \in 0 .. Len(s), NEW m \in 0 .. e
  PROVE  SubSeq(SubSeq(s, 1, e), 1, m) = SubSeq(s, 1, m) /\ m \in 0 .. Len(s)
<1> DEFINE a == SubSeq(s, 1, e)
           b == SubSeq(a, 1, m)
           c == SubSeq(s, 1, m)
<1>1. a \in Seq(S) /\ Len(a) = e /\ \A i \in 1 .. e : a[i] = s[i]
  BY FirstOf
<1>2. Len(s) \in Nat
  BY LenProperties
<1>3. m \in 0 .. Len(s) /\ \A i \in 1 .. m : i \in 1 .. e
  BY <1>2
<1>4. c \in Seq(S) /\ Len(c) = m /\ \A i \in 1 .. m : c[i] = s[i]
  BY <1>3, FirstOf
<1> HIDE DEF a, c
<1>5. b \in Seq(S) /\ Len(b) = m /\ \A i \in 1 .. m : b[i] = a[i]
  <2>1. m \in 0 .. Len(a)
    BY <1>1
  <2> QED
    BY <1>1, <2>1, FirstOf
<1> HIDE DEF b
<1>6. b = c
  <2>1. Len(b) = Len(c) /\ \A i \in 1 .. Len(b) : b[i] = c[i]
    BY <1>1, <1>3, <1>4, <1>5
  <2> QED
    BY <1>4, <1>5, <2>1, SeqEqual
<1> QED
  BY <1>3, <1>6 DEF b, a, c

(* The catch that takes up the call is part of it.                         *)
LEMMA CatchSame ==
  ASSUME NEW fr \in Seq(FrameT), fr # <<>>, NEW b
  PROVE  CallsOf(CatchBlocks(fr, b)) = CallsOf(fr)
<1> DEFINE d == Len(fr)
           f2 == [fr[d] EXCEPT !.scopes = SubSeq(@, 1, b)]
           sc == [f2.scopes EXCEPT ![b].try = FALSE]
           f3 == [f2 EXCEPT !.scopes = sc]
           fr2 == TopBlocks(fr, b)
           fr3 == CatchBlocks(fr, b)
<1>1. DOMAIN fr = 1 .. d /\ d \in Nat /\ \A i \in 1 .. d : fr[i] \in FrameT
  BY ElementOfSeq
<1>2. d \in 1 .. d
  <2>1. Len(fr) \in Nat /\ Len(fr) # 0
    BY EmptySeq
  <2> QED
    BY <2>1
<1>3. fr2 = [fr EXCEPT ![d] = f2] /\ DOMAIN fr2 = 1 .. d
  BY <1>1 DEF TopBlocks
<1>4. fr2[d] = f2
  BY <1>1, <1>2, <1>3
<1>5. fr3 = [fr2 EXCEPT ![d] = f3] /\ DOMAIN fr3 = 1 .. d
  <2>1. fr3 = [fr2 EXCEPT ![d].scopes[b].try = FALSE]
    BY DEF CatchBlocks
  <2> HIDE DEF fr2, f2, fr3, d
  <2> QED
    BY <1>3, <1>4, <2>1
<1>6. /\ f2.fn = fr[d].fn /\ f2.base = fr[d].base /\ f2.gen = fr[d].gen
      /\ f2 \in [fn : Closure \cup {None}, base : Nat, scopes : {SubSeq(fr[d].scopes, 1, b)}, gen : BOOLEAN]
  <2> DEFINE f == fr[d]
             s == SubSeq(f.scopes, 1, b)
  <2>1. f \in [fn : Closure \cup {None}, base : Nat, scopes : Seq(ScopeT), gen : BOOLEAN]
    BY <1>1, <1>2 DEF FrameT
  <2>2. f2 = [f EXCEPT !.scopes = s]
    OBVIOUS
  <2> HIDE DEF f2, f, s
  <2>3. /\ f2.fn = f.fn /\ f2.base = f.base /\ f2.gen = f.gen
        /\ f2 \in [fn : Closure \cup {None}, base : Nat, scopes : {s}, gen : BOOLEAN]
    BY <2>1, <2>2
  <2> QED
    BY <2>3 DEF f, s
<1>7. f3.fn = fr[d].fn /\ f3.base = fr[d].base /\ f3.gen = fr[d].gen
  <2> HIDE DEF f2, sc
  <2> QED
    BY <1>6
<1> HIDE DEF f2, f3
<1>8. fr3[d] = f3 /\ \A i \in 1 .. d : i # d => fr3[i] = fr[i]
  <2> HIDE DEF fr2, fr3
  <2> QED
    BY <1>1, <1>2, <1>3, <1>5
<1> HIDE DEF fr3, fr2
<1>9. ASSUME NEW i \in DOMAIN fr
      PROVE  fr3[i].fn = fr[i].fn /\ fr3[i].base = fr[i].base /\ fr3[i].gen = fr[i].gen
  <2> HIDE DEF d
  <2>1. CASE i = d
    BY <1>7, <1>8, <2>1
  <2>2. CASE i # d
    <3>1. fr3[i] = fr[i]
      BY <1>1, <1>8, <2>2
    <3> QED
      BY <3>1
  <2> QED
    BY <2>1, <2>2
<1>10. CallsOf(fr3) = CallsOf(fr)
  BY <1>1, <1>5, <1>9, CallsSame
<1> QED
  BY <1>10 DEF fr3

LEMMA UncaughtIs ==
  ASSUME IInv, IInv', clos' = clos, v' = LeaveFrames(v, 0), gen' = Killed(0)
  PROVE  Captured!Stop
<1>1. /\ Fine(v, clos) /\ v.frames \in Seq(FrameT) /\ Len(v.frames) \in Nat /\ Shape(v.frames, Len(v.stack))
      /\ Len(v.stack) \in Nat
  BY FineIs DEF IInv
<1>2. 0 \in 0 .. Len(v.frames) /\ 0 \in 0 .. Len(v.stack)
  BY <1>1
<1>3. End(v.frames, Len(v.stack), 0) = 0
  BY <1>1 DEF Shape
<1>4. /\ v'.frames = SubSeq(v.frames, 1, 0) /\ v'.stack = SubSeq(v.stack, 1, 0)
      /\ Takes(v.stack, v.outers, v'.outers)
  BY <1>1, <1>2, <1>3, LeaveFine, LeaveTakes
<1>5. Captured!Leave(0)
  BY <1>2, <1>4, LeaveIs
<1>6. Calls' = <<>>
  <2>0. SubSeq(v.frames, 1, 0) \in Seq(FrameT) /\ Len(SubSeq(v.frames, 1, 0)) = 0
    BY <1>1, <1>2, FirstOf
  <2>1. v'.frames \in Seq(FrameT) /\ Len(v'.frames) = 0
    BY <1>4, <2>0
  <2>2. CallsOf(v'.frames) \in Seq(CallT) /\ Len(CallsOf(v'.frames)) = 0
    BY <2>1, CallsIs
  <2>3. CallsOf(v'.frames) = <<>>
    BY <2>2, EmptySeq
  <2> QED
    BY <2>3, CallsLater
<1>7. gen' = Captured!Ended(0)
  BY EndedIs
<1> QED
  BY <1>5, <1>6, <1>7 DEF Captured!Stop

LEMMA CaughtIs ==
  ASSUME IInv, IInv', clos' = clos, NEW d \in 1 .. Len(v.frames), NEW x \in Value, Handles(d, x)
  PROVE  d \in DOMAIN Calls /\ \E m \in 0 .. Len(Scope) : Captured!Catch(d, m, x)
<1> DEFINE w == LeaveFrames(v, d)
           e == End(v.frames, Len(v.stack), d)
           st == v.stack
           values == <<x>>
<1>1. /\ Fine(v, clos) /\ v.frames \in Seq(FrameT) /\ Len(v.frames) \in Nat /\ Shape(v.frames, Len(st))
      /\ Len(st) \in Nat /\ st \in Seq(SlotT) /\ DOMAIN v.frames = 1 .. Len(v.frames)
  BY FineIs DEF IInv
<1>2. d \in 0 .. Len(v.frames) /\ d \in 1 .. d
  BY <1>1
<1>3. /\ Fine(w, clos) /\ w.frames = SubSeq(v.frames, 1, d) /\ w.stack = SubSeq(st, 1, e)
      /\ Takes(st, v.outers, w.outers) /\ e \in 0 .. Len(st)
  BY <1>1, <1>2, LeaveFine, LeaveTakes, EndIs
<1>4. PICK b, n : Within(w, b, n) /\ Caught(w, b, n, values, v') /\ gen' = Killed(d)
  BY DEF Handles
<1> HIDE DEF w, e, values
<1>5. /\ w.frames \in Seq(FrameT) /\ w.frames # <<>> /\ Len(w.frames) = d /\ Top(w) = v.frames[d]
      /\ Len(w.stack) = e
  <2>1. /\ SubSeq(v.frames, 1, d) \in Seq(FrameT) /\ Len(SubSeq(v.frames, 1, d)) = d
        /\ \A i \in 1 .. d : SubSeq(v.frames, 1, d)[i] = v.frames[i]
    BY <1>1, <1>2, FirstOf
  <2>2. Len(SubSeq(st, 1, e)) = e
    BY <1>1, <1>3, FirstOf
  <2>3. w.frames # <<>>
    BY <1>4 DEF Within
  <2>4. w.frames \in Seq(FrameT) /\ Len(w.frames) = d /\ w.frames[d] = v.frames[d]
    BY <1>2, <1>3, <2>1
  <2>5. Top(w) = w.frames[Len(w.frames)]
    BY DEF Top, Last
  <2> QED
    BY <1>3, <2>2, <2>3, <2>4, <2>5
<1> DEFINE m == Top(w).base + n
<1>6. m \in 0 .. e /\ m >= v.frames[d].base
  <2>1. Top(w) \in FrameT /\ FrameOK(Top(w), e)
    <3>1. Shape(w.frames, e)
      BY <1>3, <1>5 DEF Fine
    <3>2. e \in Nat
      BY <1>1, <1>3
    <3> QED
      BY <1>5, <3>1, <3>2, TopIs DEF Top
  <2>2. n \in Top(w).scopes[b].size .. e - Top(w).base /\ Top(w).scopes[b].size \in Nat /\ Top(w).base \in Nat
    <3>1. e \in Nat
      BY <1>1, <1>3
    <3> QED
      BY <1>4, <1>5, <2>1, <3>1, FrameParts DEF Within, Locals
  <2> DEFINE B == Top(w).base
  <2>3. B \in Nat /\ e \in Nat /\ n \in Nat /\ n <= e - B
    BY <1>1, <1>3, <2>2
  <2> HIDE DEF B
  <2>4. B + n \in 0 .. e /\ B + n >= B
    BY <2>3
  <2> QED
    BY <1>5, <2>4 DEF B
<1>7. PICK new : /\ NewLocals(SubSeq(w.stack, 1, m), new, values)
                 /\ v' = VmOf(SubSeq(w.stack, 1, m) \o new, CatchBlocks(w.frames, b), w.open, w.outers)
  BY <1>4 DEF Caught
<1> HIDE DEF m
<1>8. SubSeq(w.stack, 1, m) = SubSeq(st, 1, m) /\ m \in 0 .. Len(st)
  BY <1>1, <1>3, <1>6, FirstOfFirst
<1>9. /\ v'.stack = SubSeq(st, 1, m) \o new /\ v'.frames = CatchBlocks(w.frames, b) /\ v'.outers = w.outers
  <2> DEFINE st2 == SubSeq(w.stack, 1, m) \o new
             fr2 == CatchBlocks(w.frames, b)
  <2>1. v' = VmOf(st2, fr2, w.open, w.outers)
    BY <1>7
  <2> HIDE DEF st2, fr2
  <2>2. v'.stack = st2 /\ v'.frames = fr2 /\ v'.outers = w.outers
    BY <2>1, VmParts
  <2> QED
    BY <1>8, <2>2 DEF st2, fr2
<1>10. Rebinds(v, m, values)
  BY <1>3, <1>7, <1>8, <1>9 DEF Rebinds
<1>11. Captured!Bind(m, values)
  <2>1. values \in Seq(Value)
    BY OneValue DEF values
  <2> QED
    BY <1>8, <1>10, <2>1, BindIs
<1>12. Calls' = SubSeq(Calls, 1, d)
  <2>1. CallsOf(CatchBlocks(w.frames, b)) = CallsOf(SubSeq(v.frames, 1, d))
    BY <1>3, <1>5, CatchSame
  <2>2. CallsOf(SubSeq(v.frames, 1, d)) = SubSeq(CallsOf(v.frames), 1, d)
    BY <1>1, <1>2, CallsFirst
  <2> QED
    BY <1>9, <2>1, <2>2, CallsLater, MappingIs
<1>13. d \in DOMAIN Calls /\ Calls[d].below = v.frames[d].base
  <2>1. Calls = CallsOf(v.frames)
    BY MappingIs
  <2>2. DOMAIN Calls = 1 .. Len(v.frames) /\ Calls[d] = CallOf(v.frames[d])
    BY <1>1, <2>1, CallsIs
  <2> QED
    BY <2>2 DEF CallOf
<1>14. gen' = Captured!Ended(d)
  BY <1>4, EndedIs
<1>15. m \in 0 .. Len(Scope)
  <2>1. Len(ScopeOf(st)) = Len(st)
    BY <1>1, <1>8, ScopeParts
  <2> QED
    BY <1>8, <2>1, MappingIs
<1>16. Captured!Catch(d, m, x)
  BY <1>6, <1>11, <1>12, <1>13, <1>14 DEF Captured!Catch, values
<1> QED
  BY <1>13, <1>15, <1>16

LEMMA ThrowIs ==
  ASSUME Stray = {}, IInv, IInv', NEW x \in Value, Throw(x)
  PROVE  \/ Captured!Stop
         \/ \E d \in DOMAIN Calls, m \in 0 .. Len(Scope) : Captured!Catch(d, m, x)
<1>1. clos' = clos
  BY DEF Throw
<1>2. \/ v' = LeaveFrames(v, 0) /\ gen' = Killed(0)
      \/ \E d \in 1 .. Len(v.frames) : Handles(d, x)
  BY ThrowStep
<1>3. CASE v' = LeaveFrames(v, 0) /\ gen' = Killed(0)
  BY <1>1, <1>3, UncaughtIs
<1>4. ASSUME NEW d \in 1 .. Len(v.frames), Handles(d, x)
      PROVE  \E j \in DOMAIN Calls, m \in 0 .. Len(Scope) : Captured!Catch(j, m, x)
  <2>1. d \in DOMAIN Calls /\ \E m \in 0 .. Len(Scope) : Captured!Catch(d, m, x)
    BY <1>1, <1>4, CaughtIs
  <2> QED
    BY <2>1
<1> QED
  BY <1>2, <1>3, <1>4, Zenon

LEMMA ReserveStackIs ==
  ASSUME Stray = {}, IInv, ReserveStack
  PROVE  UNCHANGED Captured!vars
<1>1. v' = v /\ clos' = clos /\ gen' = gen
  BY ReserveStackSame
<1>2. Calls' = Calls
  BY <1>1, CallsLater DEF Calls
<1> QED
  BY <1>1, <1>2, Unseen

(* At first nothing is called, in scope or captured.                       *)
LEMMA InitIs ==
  ASSUME Init
  PROVE  Captured!Init
<1>1. v.stack = <<>> /\ v.frames = <<>> /\ clos = [k \in Closure |-> NoClosure] /\ gen = NoGen
  BY DEF Init
<1>2. DOMAIN <<>> = {}
  OBVIOUS
<1>3. Calls = <<>> /\ Scope = <<>>
  <2>1. DOMAIN v.stack = {} /\ DOMAIN v.frames = {}
    BY <1>1, <1>2
  <2>2. DOMAIN Calls = {} /\ DOMAIN Scope = {}
    BY <2>1 DEF Calls, Scope
  <2>3. Calls \in Seq(CallT) /\ Len(Calls) = 0 /\ Scope \in Seq(Var) /\ Len(Scope) = 0
    <3>1. 1 .. 0 = {} /\ 0 \in Nat
      OBVIOUS
    <3>2. Calls = [i \in 1 .. 0 |-> Calls[i]] /\ Scope = [i \in 1 .. 0 |-> Scope[i]]
      BY <2>1, <2>2, <3>1 DEF Calls, Scope
    <3>3. Calls \in [1 .. 0 -> CallT] /\ Scope \in [1 .. 0 -> Var]
      BY <3>1, <3>2
    <3> QED
      BY <2>2, <3>1, <3>3
  <2> QED
    BY <2>3, EmptySeq
<1>4. Holds = [k \in Closure |-> None]
  BY <1>1 DEF Holds
<1>5. Cell = [x \in Var |-> NoVal]
  <2>1. ASSUME NEW x \in Var
        PROVE  ~ (\E i \in DOMAIN v.stack : v.stack[i].var = x) /\ ~ (\E k \in Closure : clos[k].var = x)
    <3>1. x # 0
      BY Constants DEF Var
    <3>2. NoClosure.var = 0
      BY DEF NoClosure
    <3> QED
      BY <1>1, <1>2, <3>1, <3>2
  <2> QED
    BY <2>1 DEF Cell
<1>6. gen = [state |-> "none", vals |-> <<>>]
  BY <1>1 DEF NoGen
<1> QED
  BY <1>3, <1>4, <1>5, <1>6 DEF Captured!Init

(* Every step is one of Variables, or one it does not see.                 *)
LEMMA StepIs ==
  ASSUME Stray = {}, IInv, IInv', [Next]_vars
  PROVE  [Captured!Next]_(Captured!vars)
<1> DEFINE Goal == Captured!Next \/ UNCHANGED Captured!vars
<1>1. CASE UNCHANGED vars
  <2>1. v' = v /\ clos' = clos /\ gen' = gen
    BY <1>1 DEF vars
  <2>2. Calls' = Calls
    BY <2>1 DEF Calls
  <2> QED
    BY <2>1, <2>2, Unseen
<1>2. ASSUME NEW k \in Closure \cup {None}, NEW x \in Value, Call(k, x) \/ TailCall(k, x)
      PROVE  Goal
  <2>1. Captured!Call(k, x) \/ Captured!TailCall(k, x)
    BY <1>2, CallIs, TailCallIs
  <2> QED
    BY <2>1 DEF Captured!Next
<1>3. ASSUME NEW x \in Value, Throw(x)
      PROVE  Goal
  <2>1. \/ Captured!Stop
        \/ \E d \in DOMAIN Calls, m \in 0 .. Len(Scope) : Captured!Catch(d, m, x)
    BY <1>3, ThrowIs
  <2> QED
    BY <2>1 DEF Captured!Next
<1>4. ASSUME NEW x \in Value, NewGenerator(x)
      PROVE  Goal
  <2>1. Captured!NewGenerator(x)
    BY <1>4, NewGeneratorIs
  <2> QED
    BY <2>1 DEF Captured!Next
<1>5. ASSUME NEW try \in BOOLEAN, BeginScope(try)
      PROVE  Goal
  BY <1>5, BeginScopeIs
<1>6. ASSUME NEW b, Break(b) \/ (\E n \in 0 .. MaxLocals : Goto(b, n)) \/ EndScope
      PROVE  Goal
  <2>1. \E m \in 0 .. Len(Scope) : Captured!LeaveLocals(m)
    BY <1>6, BreakIs, GotoIs, EndScopeIs
  <2> QED
    BY <2>1 DEF Captured!Next
<1>7. ASSUME NEW k \in Closure, NEW i, CaptureLocal(k, i)
      PROVE  Goal
  <2>1. \E x \in Var : Captured!Capture(k, x)
    BY <1>7, CaptureLocalIs
  <2> QED
    BY <2>1 DEF Captured!Next
<1>8. ASSUME NEW i, NEW x \in Value, SetLocal(i, x)
      PROVE  Goal
  <2>1. Captured!Assign(x)
    BY <1>8, SetLocalIs
  <2> QED
    BY <2>1 DEF Captured!Next
<1>9. ASSUME NEW k \in Closure, NEW x \in Value, SetOuter(k, x)
      PROVE  Goal
  <2>1. Captured!AssignFree(k, x)
    BY <1>9, SetOuterIs
  <2> QED
    BY <2>1 DEF Captured!Next
<1>10. ASSUME NEW k \in Closure, CaptureOuter(k) \/ \E l \in Closure : CloneClosure(k, l)
       PROVE  Goal
  <2>1. (\E x \in Var : Captured!Capture(k, x)) \/ UNCHANGED Captured!vars
    BY <1>10, CaptureOuterIs, CloneClosureIs
  <2> QED
    BY <2>1 DEF Captured!Next
<1>11. CASE Declare
  <2>1. \E x \in Value : Captured!Declare(x)
    BY <1>11, DeclareIs
  <2> QED
    BY <2>1 DEF Captured!Next
<1>12. CASE Return \/ Finalize \/ Yield \/ Resume
  <2>1. Captured!Return \/ Captured!Stop \/ Captured!Yield \/ Captured!Resume
    BY <1>12, ReturnIs, FinalizeIs, YieldIs, ResumeIs
  <2> QED
    BY <2>1 DEF Captured!Next
<1>13. CASE ReserveStack
  BY <1>13, ReserveStackIs
<1> HIDE DEF Goal
<1>14. Goal
  <2>1. CASE UNCHANGED vars
    BY <1>1, <2>1 DEF Goal
  <2>2. CASE Next
    BY <1>2, <1>3, <1>4, <1>5, <1>6, <1>7, <1>8, <1>9, <1>10, <1>11, <1>12, <1>13, <2>2 DEF Next, Goal
  <2> QED
    BY <2>1, <2>2
<1> QED
  BY <1>14 DEF Goal

(* What the VM does with slots and outers is what Variables promises: a    *)
(* local and the closures that captured it have one variable, which stays  *)
(* the same when its slot is left and when the stack moves, and a step     *)
(* changes the value of no variable but the one it assigns to.             *)
THEOREM RefinesVariables == Stray = {} => (Spec => ImplementsVariables)
<1> SUFFICES ASSUME Stray = {} PROVE Spec => ImplementsVariables
  OBVIOUS
<1>1. Init => Captured!Init
  BY InitIs
<1>2. Spec => []IInv
  BY Invariance
<1>3. IInv /\ IInv' /\ [Next]_vars => [Captured!Next]_(Captured!vars)
  BY StepIs
<1> QED
  BY <1>1, <1>2, <1>3, PTL DEF Spec, ImplementsVariables, Captured!Spec
=============================================================================
