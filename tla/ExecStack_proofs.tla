-------------------------- MODULE ExecStack_proofs --------------------------
(***************************************************************************)
(* Proofs about the call stack, for any number of generators and any       *)
(* bounds.  A state is sound when two functions exist that no run of the   *)
(* program stores: off, how many traps lie below each frame boundary, and  *)
(* seg, how many frames lie below each activation on the C++ stack.        *)
(***************************************************************************)
EXTENDS ExecStack, FiniteSetTheorems, SequenceTheorems, TLAPS

(* A generator that native code resumes is not also resumed by scripts:    *)
(* its frame would come back as a root that no Execute owns.               *)
UsageRoot == ApiGen \cap (ResumeGen \cup ForeachGen) = {}

(* A generator that a foreach runs does not yield inside a try: foreach    *)
(* does not count the traps that come back.                                *)
UsageTraps == ForeachGen \cap TryGen = {}

FrameT == [kind : {"script", "native"}, gen : Gen \cup {None},
           etraps : 0 .. MaxTraps, root : BOOLEAN]
TrapT == [base : Nat, nest : 1 .. MaxTraps]
ActT == [kind : {"exec", "native"}, traps : Int, raise : BOOLEAN,
         why : {"host", "script", "native", "metamethod", "handler"},
         throws : BOOLEAN]
SavedT == [base : {0}, nest : 1 .. MaxTraps]
GenT == [state : {"none", "suspended", "running", "dead"},
         etraps : Seq(SavedT), root : BOOLEAN]
SuspT == [on : BOOLEAN, root : BOOLEAN, traps : Int]

(* The VM with these frames, traps and activations.                        *)
VMOf(fr, tr, ac) ==
    [frames |-> fr, base |-> Len(fr), etraps |-> tr, acts |-> ac, nnative |-> Len(ac)]

(* off[i] traps are set by the first i frames; a trap is where it belongs. *)
Laid(fr, tr, off) ==
    /\ off[0] = 0 /\ off[Len(fr)] = Len(tr)
    /\ \A i \in 1 .. Len(fr) : off[i] = off[i - 1] + fr[i].etraps
    /\ \A i, j \in 0 .. Len(fr) : i <= j => off[i] <= off[j]
    /\ \A p \in 1 .. Len(tr) :
          /\ tr[p].base \in 1 .. Len(fr)
          /\ tr[p].nest <= fr[tr[p].base].etraps
          /\ p = off[tr[p].base - 1] + tr[p].nest

(* The frames of one Execute: a root and what it calls.                    *)
OneRoot(fr, a, b) ==
    \A i \in a .. b : fr[i].kind = "script" /\ (fr[i].root <=> i = a)

(* The frames from seg[k - 1] + 1 to seg[k] are those of activation k.     *)
Segment(fr, ac, seg, k) ==
    /\ ac[k].kind = "exec" => OneRoot(fr, seg[k - 1] + 1, seg[k])
    /\ ac[k].kind = "native" =>
          /\ k > 1 /\ ac[k - 1].kind = "exec"
          /\ seg[k] = seg[k - 1] + 1
          /\ fr[seg[k]] = Frame("native", None, 0, FALSE)

(* The frames up to b are those of a suspended Execute.                    *)
Sleeping(fr, s, b) ==
    /\ OneRoot(fr, 1, b)
    /\ s.on <=> b > 0
    /\ s.on => s.root = fr[b].root

Rising(seg, m) == \A j, k \in 0 .. m : j < k => seg[j] < seg[k]

Matched(fr, ac, s, seg) ==
    /\ seg[Len(ac)] = Len(fr)
    /\ Rising(seg, Len(ac))
    /\ \A k \in 1 .. Len(ac) : Segment(fr, ac, seg, k)
    /\ Sleeping(fr, s, seg[0])

(* Why an Execute was entered.                                             *)
Reason(ac, k) ==
    /\ ac[k].why \in {"metamethod", "handler"} => k > 1 /\ ac[k - 1].kind = "exec"
    /\ ac[k].why = "handler" => ac[k - 1].traps = 0

Reasons(ac) == \A k \in 1 .. Len(ac) : Reason(ac, k)

(* An Execute counts the traps of its frames, unless a foreach ran a       *)
(* generator with traps.                                                   *)
Counted(ac, s, off, seg) ==
    UsageTraps =>
        /\ \A k \in 1 .. Len(ac) :
              ac[k].kind = "exec" => ac[k].traps = off[seg[k]] - off[seg[k - 1]]
        /\ s.on => s.traps = off[seg[0]]

SoundBy(fr, tr, ac, s, off, seg) ==
    /\ Laid(fr, tr, off) /\ Matched(fr, ac, s, seg) /\ Counted(ac, s, off, seg)

Sound(fr, tr, ac, s) ==
    /\ fr \in Seq(FrameT) /\ tr \in Seq(TrapT) /\ ac \in Seq(ActT)
    /\ Reasons(ac)
    /\ \E off \in [0 .. Len(fr) -> Nat], seg \in [0 .. Len(ac) -> Nat] :
          SoundBy(fr, tr, ac, s, off, seg)

(* A generator that runs has one frame; a generator only has a root frame, *)
(* and only remembers one, when native code resumes it.                    *)
Placed(fr, gn) ==
    /\ \A i, j \in 1 .. Len(fr) : fr[i].gen = fr[j].gen /\ fr[i].gen # None => i = j
    /\ \A i \in 1 .. Len(fr) :
          fr[i].gen # None =>
              /\ gn[fr[i].gen].state = "running"
              /\ fr[i].root => fr[i].gen \in ApiGen
    /\ \A g \in Gen : gn[g].state = "running" => \E i \in 1 .. Len(fr) : fr[i].gen = g

(* The traps a generator keeps are those of one frame, topmost first.      *)
Saved(ts) ==
    /\ Len(ts) <= MaxTraps
    /\ \A j \in 1 .. Len(ts) : ts[j] = [base |-> 0, nest |-> (Len(ts) - j) + 1]

KeptBy(g, r) ==
    /\ r.root => g \in ApiGen
    /\ r.etraps # <<>> => g \in TryGen
    /\ Saved(r.etraps)

Kept(gn) == gn \in [Gen -> GenT] /\ \A g \in Gen : KeptBy(g, gn[g])

Good(w, s, gn) ==
    /\ w = VMOf(w.frames, w.etraps, w.acts)
    /\ Len(w.acts) <= MaxNative
    /\ Sound(w.frames, w.etraps, w.acts, s)
    /\ Placed(w.frames, gn)

(* The inductive invariant.                                                *)
IInv ==
    /\ susp \in SuspT
    /\ Kept(gens)
    /\ Good(v, susp, gens)

-----------------------------------------------------------------------------
(* Where the traps lie, when a frame is entered or left or its traps       *)
(* change.                                                                 *)

LEMMA FrameTypes ==
  ASSUME NEW fr \in Seq(FrameT), NEW i \in 1 .. Len(fr)
  PROVE  /\ fr[i] \in FrameT /\ fr[i].etraps \in Nat /\ fr[i].etraps <= MaxTraps
         /\ fr[i].root \in BOOLEAN /\ fr[i].gen \in Gen \cup {None}
<1>1. fr[i] \in FrameT
  OBVIOUS
<1>2. fr[i].etraps \in 0 .. MaxTraps /\ fr[i].root \in BOOLEAN /\ fr[i].gen \in Gen \cup {None}
  BY <1>1 DEF FrameT
<1> QED
  BY <1>1, <1>2, Bounds

LEMMA TrapTypes ==
  ASSUME NEW tr \in Seq(TrapT), NEW p \in 1 .. Len(tr)
  PROVE  /\ tr[p] = [base |-> tr[p].base, nest |-> tr[p].nest]
         /\ tr[p].base \in Nat /\ tr[p].nest \in Nat \ {0} /\ tr[p].nest <= MaxTraps
<1>1. tr[p] \in TrapT
  OBVIOUS
<1>2. tr[p].base \in Nat /\ tr[p].nest \in 1 .. MaxTraps
      /\ tr[p] = [base |-> tr[p].base, nest |-> tr[p].nest]
  BY <1>1 DEF TrapT
<1> QED
  BY <1>2, Bounds

LEMMA LaidBelow ==
  ASSUME NEW fr \in Seq(FrameT), NEW tr \in Seq(TrapT), NEW off \in [0 .. Len(fr) -> Nat],
         Laid(fr, tr, off), NEW i \in 1 .. Len(fr), NEW k \in 1 .. fr[i].etraps
  PROVE  tr[off[i - 1] + k] = [base |-> i, nest |-> k]
<1> DEFINE p == off[i - 1] + k
           b == tr[p].base
<1>0. i \in 0 .. Len(fr) /\ i - 1 \in 0 .. Len(fr)
  OBVIOUS
<1>1. fr[i].etraps \in Nat /\ off[i] \in Nat /\ off[i - 1] \in Nat
  BY <1>0, FrameTypes
<1>2. off[i] = off[i - 1] + fr[i].etraps /\ off[i] <= Len(tr)
  BY DEF Laid
<1>3. p \in 1 .. Len(tr) /\ off[i - 1] < p /\ p <= off[i] /\ p \in Nat
  BY <1>1, <1>2, SMTT(30)
<1>4. tr[p] \in TrapT /\ b \in 1 .. Len(fr) /\ tr[p].nest <= fr[b].etraps
      /\ p = off[b - 1] + tr[p].nest
  <2>1. \A q \in 1 .. Len(tr) :
           /\ tr[q].base \in 1 .. Len(fr)
           /\ tr[q].nest <= fr[tr[q].base].etraps
           /\ q = off[tr[q].base - 1] + tr[q].nest
    BY DEF Laid
  <2>2. tr[p] \in TrapT
    BY <1>3
  <2> HIDE DEF p
  <2> QED
    BY <1>3, <2>1, <2>2
<1> HIDE DEF p, b
<1>5. tr[p].nest \in Nat \ {0} /\ off[b - 1] \in Nat /\ off[b] = off[b - 1] + fr[b].etraps
      /\ fr[b].etraps \in Nat /\ off[b] \in Nat
  <2>1. tr[p].nest \in Nat \ {0}
    BY <1>3, TrapTypes
  <2>2. fr[b].etraps \in Nat
    BY <1>4, FrameTypes
  <2>3. b \in 0 .. Len(fr) /\ b - 1 \in 0 .. Len(fr)
    BY <1>4
  <2>4. off[b] \in Nat /\ off[b - 1] \in Nat
    BY <2>3
  <2>5. off[b] = off[b - 1] + fr[b].etraps
    BY <1>4 DEF Laid
  <2> QED
    BY <2>1, <2>2, <2>4, <2>5
<1>6. off[b - 1] < p /\ p <= off[b]
  <2> DEFINE x == off[b - 1]
             n == tr[p].nest
             e == fr[b].etraps
  <2>1. x \in Nat /\ n \in Nat /\ n # 0 /\ e \in Nat /\ n <= e /\ p = x + n /\ off[b] = x + e
    BY <1>4, <1>5
  <2> HIDE DEF x, n, e
  <2>2. x < p /\ p <= off[b]
    BY <2>1
  <2> QED
    BY <2>2 DEF x
<1>7. ~(b <= i - 1)
  <2> SUFFICES ASSUME b <= i - 1 PROVE FALSE
    OBVIOUS
  <2>1. off[b] <= off[i - 1]
    <3>1. \A j, m \in 0 .. Len(fr) : j <= m => off[j] <= off[m]
      BY DEF Laid
    <3>2. b \in 0 .. Len(fr)
      BY <1>4
    <3> QED
      BY <1>0, <3>1, <3>2
  <2>2. p <= off[b] /\ off[i - 1] < p /\ p \in Nat /\ off[b] \in Nat /\ off[i - 1] \in Nat
    BY <1>1, <1>3, <1>5, <1>6
  <2> QED
    BY <2>1, <2>2, SMTT(30)
<1>8. ~(i <= b - 1)
  <2> SUFFICES ASSUME i <= b - 1 PROVE FALSE
    OBVIOUS
  <2>1. off[i] <= off[b - 1]
    BY <1>4 DEF Laid
  <2> QED
    BY <2>1, <1>3, <1>4, <1>5, <1>6, <1>1
<1>9. b = i
  BY <1>4, <1>7, <1>8
<1>10. tr[p].nest = k
  BY <1>4, <1>9, <1>5, <1>1, SMTT(30) DEF p
<1>11. tr[p] = [base |-> tr[p].base, nest |-> tr[p].nest]
  BY <1>3, TrapTypes
<1> QED
  BY <1>9, <1>10, <1>11 DEF p, b

(* What two sequences, or two functions, have in common.                  *)
Agree(a, b, m, n) == \A i \in m .. n : b[i] = a[i]
SameTraps(fr, fr2, n) == \A i \in 1 .. n : fr2[i].etraps = fr[i].etraps

(* A frame with its traps on top.                                          *)
OnTop(tr, tr2, n, e) ==
    /\ Len(tr2) = Len(tr) + e
    /\ \A p \in 1 .. Len(tr) : tr2[p] = tr[p]
    /\ \A k \in 1 .. e : tr2[Len(tr) + k] = [base |-> n, nest |-> k]

LEMMA LaidPush ==
  ASSUME NEW fr \in Seq(FrameT), NEW tr \in Seq(TrapT), NEW off \in [0 .. Len(fr) -> Nat],
         NEW fr2 \in Seq(FrameT), NEW tr2 \in Seq(TrapT), Laid(fr, tr, off),
         Len(fr2) = Len(fr) + 1, SameTraps(fr, fr2, Len(fr)),
         OnTop(tr, tr2, Len(fr2), fr2[Len(fr2)].etraps)
  PROVE  \E off2 \in [0 .. Len(fr2) -> Nat] :
            Laid(fr2, tr2, off2) /\ Agree(off, off2, 0, Len(fr))
<1> DEFINE n == Len(fr)
           e == fr2[Len(fr2)].etraps
           off2 == [i \in 0 .. Len(fr2) |-> IF i <= n THEN off[i] ELSE Len(tr2)]
<1>0. n \in Nat /\ e \in Nat /\ Len(fr2) = n + 1 /\ Len(tr) \in Nat /\ Len(tr2) \in Nat
  BY FrameTypes
<1>1. off2 \in [0 .. Len(fr2) -> Nat] /\ \A i \in 0 .. n : off2[i] = off[i]
  BY <1>0
<1>2. off2[n + 1] = Len(tr2) /\ off2[n] = Len(tr) /\ off2[0] = 0
  BY <1>0 DEF Laid
<1>3. \A i \in 1 .. Len(fr2) : off2[i] = off2[i - 1] + fr2[i].etraps
  <2> SUFFICES ASSUME NEW i \in 1 .. Len(fr2) PROVE off2[i] = off2[i - 1] + fr2[i].etraps
    OBVIOUS
  <2>1. CASE i \in 1 .. n
    <3>1. off2[i] = off[i] /\ off2[i - 1] = off[i - 1] /\ fr2[i].etraps = fr[i].etraps
      BY <1>1, <1>0, <2>1 DEF SameTraps
    <3> QED
      BY <3>1, <2>1 DEF Laid
  <2>2. CASE i = n + 1
    <3>1. off2[i] = Len(tr) + e /\ off2[i - 1] = Len(tr) /\ fr2[i].etraps = e
      BY <2>2, <1>2, <1>0 DEF OnTop
    <3> QED
      BY <3>1
  <2> QED
    BY <2>1, <2>2, <1>0
<1>4. \A i, j \in 0 .. Len(fr2) : i <= j => off2[i] <= off2[j]
  <2> SUFFICES ASSUME NEW i \in 0 .. Len(fr2), NEW j \in 0 .. Len(fr2), i <= j
               PROVE off2[i] <= off2[j]
    OBVIOUS
  <2>1. CASE j \in 0 .. n
    <3>1. off2[i] = off[i] /\ off2[j] = off[j] /\ i \in 0 .. n
      BY <1>1, <1>0, <2>1 DEF SameTraps
    <3> QED
      BY <3>1, <2>1 DEF Laid
  <2>2. CASE j = n + 1 /\ i \in 0 .. n
    <3>1. off2[i] = off[i] /\ off[i] <= off[n] /\ off[i] \in Nat
      <4>1. \A a, b \in 0 .. n : a <= b => off[a] <= off[b]
        BY DEF Laid
      <4> QED
        BY <4>1, <1>1, <1>0, <2>2
    <3>2. off[n] = Len(tr) /\ off2[j] = Len(tr) + e
      BY <2>2, <1>2, <1>0 DEF OnTop, Laid
    <3> QED
      BY <3>1, <3>2, <1>0
  <2>3. CASE i = n + 1 /\ j = n + 1
    BY <2>3, <1>2, <1>0
  <2> QED
    BY <2>1, <2>2, <2>3, <1>0
<1>5. ASSUME NEW p \in 1 .. Len(tr2)
      PROVE  /\ tr2[p].base \in 1 .. Len(fr2)
             /\ tr2[p].nest <= fr2[tr2[p].base].etraps
             /\ p = off2[tr2[p].base - 1] + tr2[p].nest
  <2>1. CASE p \in 1 .. Len(tr)
    <3>1. tr2[p] = tr[p] /\ tr[p].base \in 1 .. n /\ tr[p].nest <= fr[tr[p].base].etraps
          /\ p = off[tr[p].base - 1] + tr[p].nest
      BY <2>1 DEF OnTop, Laid
    <3>2. off2[tr[p].base - 1] = off[tr[p].base - 1] /\ fr2[tr[p].base].etraps = fr[tr[p].base].etraps
      BY <3>1, <1>1, <1>0, SMTT(30) DEF SameTraps
    <3> QED
      BY <3>1, <3>2, <1>0
  <2>2. CASE p \notin 1 .. Len(tr)
    <3> DEFINE k == p - Len(tr)
    <3>1. k \in 1 .. e /\ p = Len(tr) + k
      BY <2>2, <1>0 DEF OnTop
    <3>2. tr2[p] = [base |-> n + 1, nest |-> k]
      BY <3>1, <1>0 DEF OnTop
    <3>3. tr2[p].base = n + 1 /\ tr2[p].nest = k
      BY <3>2
    <3>4. off2[tr2[p].base - 1] = Len(tr)
      BY <3>3, <1>2, <1>0
    <3> QED
      BY <3>1, <3>3, <3>4, <1>0
  <2> QED
    BY <2>1, <2>2
<1>6. Laid(fr2, tr2, off2)
  BY <1>0, <1>2, <1>3, <1>4, <1>5 DEF Laid
<1> HIDE DEF off2
<1> QED
  BY <1>6, <1>1 DEF Agree

LEMMA LaidPop ==
  ASSUME NEW fr \in Seq(FrameT), NEW tr \in Seq(TrapT), NEW off \in [0 .. Len(fr) -> Nat],
         NEW fr2 \in Seq(FrameT), NEW tr2 \in Seq(TrapT), Laid(fr, tr, off),
         Len(fr) > 0, Len(fr2) = Len(fr) - 1,
         SameTraps(fr, fr2, Len(fr2)),
         Len(tr2) = Len(tr) - fr[Len(fr)].etraps,
         Agree(tr, tr2, 1, Len(tr2))
  PROVE  \E off2 \in [0 .. Len(fr2) -> Nat] :
            Laid(fr2, tr2, off2) /\ Agree(off, off2, 0, Len(fr2))
<1> DEFINE n == Len(fr2)
           off2 == [i \in 0 .. n |-> off[i]]
<1>0. n \in Nat /\ Len(fr) = n + 1 /\ Len(tr) \in Nat /\ Len(tr2) \in Nat
  OBVIOUS
<1>1. off2 \in [0 .. n -> Nat] /\ \A i \in 0 .. n : off2[i] = off[i]
  BY <1>0
<1>2. off2[n] = Len(tr2) /\ off2[0] = 0
  <2>1. off[n + 1] = off[n] + fr[n + 1].etraps /\ off[n + 1] = Len(tr) /\ off[n] \in Nat
        /\ fr[n + 1].etraps \in Nat
    <3>1. n + 1 \in 1 .. Len(fr) /\ n \in 0 .. Len(fr) /\ (n + 1) - 1 = n
      BY <1>0
    <3>2. fr[n + 1].etraps \in Nat /\ off[n] \in Nat
      BY <3>1, FrameTypes
    <3>3. off[n + 1] = off[(n + 1) - 1] + fr[n + 1].etraps /\ off[n + 1] = Len(tr)
      BY <3>1, <1>0 DEF Laid
    <3> QED
      BY <3>1, <3>2, <3>3
  <2> QED
    BY <2>1, <1>1, <1>0 DEF Laid
<1>3. \A i \in 1 .. n : off2[i] = off2[i - 1] + fr2[i].etraps
  <2> SUFFICES ASSUME NEW i \in 1 .. n PROVE off2[i] = off2[i - 1] + fr2[i].etraps
    OBVIOUS
  <2>1. i \in 0 .. n /\ i - 1 \in 0 .. n /\ i \in 1 .. Len(fr)
    BY <1>0
  <2>2. off2[i] = off[i] /\ off2[i - 1] = off[i - 1] /\ fr2[i].etraps = fr[i].etraps
    BY <1>1, <2>1 DEF SameTraps
  <2> QED
    BY <2>1, <2>2 DEF Laid
<1>4. \A i, j \in 0 .. n : i <= j => off2[i] <= off2[j]
  BY <1>0, <1>1 DEF Laid
<1>5. ASSUME NEW p \in 1 .. Len(tr2)
      PROVE  /\ tr2[p].base \in 1 .. n
             /\ tr2[p].nest <= fr2[tr2[p].base].etraps
             /\ p = off2[tr2[p].base - 1] + tr2[p].nest
  <2> DEFINE b == tr[p].base
  <2>1. p \in 1 .. Len(tr) /\ tr2[p] = tr[p] /\ tr[p] \in TrapT
    <3>1. fr[Len(fr)].etraps \in Nat
      BY FrameTypes
    <3> QED
      BY <3>1, <1>0 DEF Agree
  <2>2. b \in 1 .. n + 1 /\ tr[p].nest <= fr[b].etraps /\ p = off[b - 1] + tr[p].nest
    BY <2>1, <1>0 DEF Laid
  <2>3. tr[p].nest \in Nat \ {0}
    BY <2>1, TrapTypes
  <2>4. b # n + 1
    <3> SUFFICES ASSUME b = n + 1 PROVE FALSE
      OBVIOUS
    <3>1. off[n] = Len(tr2)
      BY <1>1, <1>2, <1>0
    <3> QED
      BY <3>1, <2>2, <2>3, <1>0, SMTT(30)
  <2>5. off2[b - 1] = off[b - 1] /\ fr2[b].etraps = fr[b].etraps /\ b \in 1 .. n
    <3>1. b \in 1 .. n /\ b - 1 \in 0 .. n
      BY <2>2, <2>4, <1>0, SMTT(30)
    <3> QED
      BY <3>1, <1>1 DEF SameTraps
  <2> QED
    BY <2>1, <2>2, <2>5
<1>6. Laid(fr2, tr2, off2)
  BY <1>0, <1>2, <1>3, <1>4, <1>5 DEF Laid
<1> HIDE DEF off2
<1> QED
  BY <1>6, <1>1 DEF Agree

(* The traps of the topmost frame are others now.                          *)
LEMMA LaidTop ==
  ASSUME NEW fr \in Seq(FrameT), NEW tr \in Seq(TrapT), NEW off \in [0 .. Len(fr) -> Nat],
         NEW fr2 \in Seq(FrameT), NEW tr2 \in Seq(TrapT), Laid(fr, tr, off),
         Len(fr) > 0, Len(fr2) = Len(fr),
         SameTraps(fr, fr2, Len(fr) - 1),
         NEW mid \in Seq(TrapT), Len(mid) = Len(tr) - fr[Len(fr)].etraps,
         Agree(tr, mid, 1, Len(mid)),
         OnTop(mid, tr2, Len(fr2), fr2[Len(fr2)].etraps)
  PROVE  \E off2 \in [0 .. Len(fr2) -> Nat] :
            /\ Laid(fr2, tr2, off2) /\ Agree(off, off2, 0, Len(fr) - 1)
<1> DEFINE n == Len(fr)
           low == SubSeq(fr, 1, n - 1)
<1>0. n \in Nat /\ n > 0
  OBVIOUS
<1>1. low \in Seq(FrameT) /\ Len(low) = n - 1 /\ \A i \in 1 .. n - 1 : low[i] = fr[i]
  BY <1>0
<1> HIDE DEF low
<1>2. SameTraps(fr, low, Len(low)) /\ SameTraps(low, fr2, Len(low))
  BY <1>1 DEF SameTraps
<1>3. Len(fr2) = Len(low) + 1 /\ Len(low) = Len(fr) - 1
  BY <1>0, <1>1
<1>4. PICK o1 \in [0 .. Len(low) -> Nat] :
         Laid(low, mid, o1) /\ Agree(off, o1, 0, Len(low))
  BY <1>1, <1>2, <1>3, LaidPop
<1>5. PICK o2 \in [0 .. Len(fr2) -> Nat] :
         Laid(fr2, tr2, o2) /\ Agree(o1, o2, 0, Len(low))
  BY <1>1, <1>2, <1>3, <1>4, LaidPush
<1>6. Agree(off, o2, 0, Len(fr) - 1)
  BY <1>3, <1>4, <1>5 DEF Agree
<1> QED
  BY <1>5, <1>6

-----------------------------------------------------------------------------
(* A step leaves the first q activations and their frames alone.           *)

SameActs(ac, ac2, q) ==
    \A k \in 1 .. q : /\ ac2[k].kind = ac[k].kind
                      /\ ac2[k].why = ac[k].why
                      /\ ac2[k].traps = ac[k].traps

(* The frames above b are those of the topmost activation.                 *)
Topmost(fr, ac, off, b) ==
    LET m == Len(ac)  n == Len(fr) IN
    /\ m > 0 /\ n > b
    /\ Reason(ac, m)
    /\ ac[m].kind = "exec" =>
          /\ OneRoot(fr, b + 1, n)
          /\ UsageTraps => ac[m].traps = off[n] - off[b]
    /\ ac[m].kind = "native" =>
          /\ m > 1 /\ ac[m - 1].kind = "exec"
          /\ n = b + 1 /\ fr[n] = Frame("native", None, 0, FALSE)

LEMMA SegmentSame ==
  ASSUME NEW fr, NEW ac, NEW fr2, NEW ac2, NEW q \in Nat, NEW seg \in [0 .. q -> Nat],
         NEW seg2, NEW k \in 1 .. q, Rising(seg, q), Agree(seg, seg2, 0, q),
         Agree(fr, fr2, 1, seg[q]), SameActs(ac, ac2, q), Segment(fr, ac, seg, k)
  PROVE  Segment(fr2, ac2, seg2, k)
<1>1. k \in 0 .. q /\ k - 1 \in 0 .. q
  OBVIOUS
<1>2. seg2[k] = seg[k] /\ seg2[k - 1] = seg[k - 1] /\ ac2[k].kind = ac[k].kind
  BY <1>1 DEF Agree, SameActs
<1>3. seg[k] <= seg[q] /\ seg[k] \in Nat /\ seg[k - 1] \in Nat /\ seg[k - 1] < seg[k]
  <2>1. seg[k - 1] < seg[k] /\ seg[k] \in Nat /\ seg[k - 1] \in Nat /\ seg[q] \in Nat
    BY <1>1 DEF Rising
  <2>2. CASE k = q
    BY <2>1, <2>2
  <2>3. CASE k < q
    BY <2>1, <2>3 DEF Rising
  <2> QED
    BY <2>1, <2>2, <2>3
<1>4. \A i \in seg[k - 1] + 1 .. seg[k] : fr2[i] = fr[i]
  <2>1. seg[q] \in Nat
    OBVIOUS
  <2> QED
    BY <1>3, <2>1 DEF Agree
<1>5. CASE ac[k].kind = "exec"
  BY <1>2, <1>4, <1>5 DEF Segment, OneRoot
<1>6. CASE ac[k].kind = "native"
  <2>1. k > 1 /\ ac2[k - 1].kind = ac[k - 1].kind
    BY <1>6 DEF Segment, SameActs
  <2>2. fr2[seg[k]] = fr[seg[k]]
    BY <1>3, <1>4
  <2> QED
    BY <1>2, <1>6, <2>1, <2>2 DEF Segment
<1>7. CASE ac[k].kind \notin {"exec", "native"}
  BY <1>2, <1>7 DEF Segment
<1> QED
  BY <1>5, <1>6, <1>7

LEMMA SoundReplace ==
  ASSUME NEW fr \in Seq(FrameT), NEW tr \in Seq(TrapT), NEW ac \in Seq(ActT), NEW s,
         NEW off \in [0 .. Len(fr) -> Nat], NEW seg \in [0 .. Len(ac) -> Nat],
         NEW fr2 \in Seq(FrameT), NEW tr2 \in Seq(TrapT), NEW ac2 \in Seq(ActT),
         NEW off2 \in [0 .. Len(fr2) -> Nat], NEW q \in 0 .. Len(ac),
         SoundBy(fr, tr, ac, s, off, seg), Reasons(ac),
         Laid(fr2, tr2, off2), Agree(fr, fr2, 1, seg[q]), Agree(off, off2, 0, seg[q]),
         SameActs(ac, ac2, q), seg[q] <= Len(fr2),
         \/ Len(ac2) = q /\ Len(fr2) = seg[q]
         \/ Len(ac2) = q + 1 /\ Topmost(fr2, ac2, off2, seg[q])
  PROVE  Sound(fr2, tr2, ac2, s)
<1> DEFINE m == Len(ac2)
           seg2 == [k \in 0 .. m |-> IF k <= q THEN seg[k] ELSE Len(fr2)]
<1>0. /\ q \in Nat /\ m \in Nat /\ Len(fr2) \in Nat /\ Len(ac) \in Nat /\ q <= Len(ac)
      /\ (m = q \/ (m = q + 1 /\ seg[q] < Len(fr2)))
      /\ \A k \in 0 .. q : k \in 0 .. Len(ac) /\ seg[k] \in Nat
  <2>1. q \in Nat /\ m \in Nat /\ Len(fr2) \in Nat /\ Len(ac) \in Nat /\ q <= Len(ac)
    OBVIOUS
  <2>2. \A k \in 0 .. q : k \in 0 .. Len(ac) /\ seg[k] \in Nat
    <3>1. \A k \in 0 .. q : k \in 0 .. Len(ac)
      BY <2>1
    <3> QED
      BY <3>1
  <2>3. m = q \/ (m = q + 1 /\ seg[q] < Len(fr2))
    <3>1. Topmost(fr2, ac2, off2, seg[q]) => Len(fr2) > seg[q]
      BY DEF Topmost
    <3>2. seg[q] \in Nat
      BY <2>1, <2>2
    <3> QED
      BY <3>1, <3>2, <2>1
  <2> QED
    BY <2>1, <2>2, <2>3
<1>1. seg2 \in [0 .. m -> Nat] /\ \A k \in 0 .. q : seg2[k] = seg[k]
  BY <1>0
<1>2. seg2[m] = Len(fr2)
  BY <1>0, <1>1
<1> HIDE DEF seg2
<1>3. Rising(seg, Len(ac)) /\ Matched(fr, ac, s, seg)
  BY DEF SoundBy, Matched
<1>4. Rising(seg2, m)
  <2> SUFFICES ASSUME NEW j \in 0 .. m, NEW k \in 0 .. m, j < k PROVE seg2[j] < seg2[k]
    BY DEF Rising
  <2>1. CASE k <= q
    BY <2>1, <1>0, <1>1, <1>3 DEF Rising
  <2>2. CASE k = q + 1
    <3>1. seg2[k] = Len(fr2) /\ seg[q] < Len(fr2) /\ j \in 0 .. q /\ seg2[j] = seg[j]
      BY <2>2, <1>0, <1>1, <1>2
    <3>2. CASE j = q
      BY <3>1, <3>2
    <3>3. CASE j < q
      <4>1. seg[j] < seg[q] /\ seg[j] \in Nat /\ seg[q] \in Nat
        BY <3>3, <1>0, <1>3 DEF Rising
      <4> QED
        BY <4>1, <3>1, <1>0
    <3> QED
      BY <3>1, <3>2, <3>3
  <2> QED
    BY <2>1, <2>2, <1>0
<1>5. ASSUME NEW k \in 1 .. q PROVE Segment(fr2, ac2, seg2, k)
  <2> DEFINE low == [j \in 0 .. q |-> seg[j]]
  <2>1. low \in [0 .. q -> Nat] /\ \A j \in 0 .. q : low[j] = seg[j]
    BY <1>0
  <2> HIDE DEF low
  <2>2. Agree(low, seg2, 0, q) /\ low[q] = seg[q]
    BY <2>1, <1>1, <1>0 DEF Agree
  <2>3. Rising(low, q)
    BY <2>1, <1>3, <1>0 DEF Rising
  <2>4. Segment(fr, ac, low, k)
    <3>1. Segment(fr, ac, seg, k)
      BY <1>3, <1>0 DEF Matched
    <3>2. low[k] = seg[k] /\ low[k - 1] = seg[k - 1]
      BY <2>1, <1>0
    <3> QED
      BY <3>1, <3>2 DEF Segment
  <2>5. Agree(fr, fr2, 1, low[q])
    BY <2>2
  <2> QED
    BY <1>0, <2>1, <2>2, <2>3, <2>4, <2>5, SegmentSame
<1>6. ASSUME NEW k \in 1 .. m PROVE Segment(fr2, ac2, seg2, k)
  <2>1. CASE k \in 1 .. q
    BY <1>5, <2>1
  <2>2. CASE k = q + 1
    <3>1. m = q + 1 /\ Topmost(fr2, ac2, off2, seg[q]) /\ k - 1 = q
      BY <2>2, <1>0
    <3>2. seg2[k] = Len(fr2) /\ seg2[k - 1] = seg[q]
      BY <3>1, <2>2, <1>0, <1>1, <1>2
    <3> QED
      BY <3>1, <3>2, <2>2 DEF Segment, Topmost
  <2> QED
    BY <2>1, <2>2, <1>0
<1>a. ASSUME NEW k \in 0 .. q
      PROVE  seg[k] \in Nat /\ seg[k] <= seg[q] /\ off2[seg[k]] = off[seg[k]]
  <2>1. seg[k] \in Nat /\ seg[q] \in Nat
    BY <1>0
  <2>2. seg[k] <= seg[q]
    <3>1. CASE k = q
      BY <2>1, <3>1
    <3>2. CASE k < q
      BY <2>1, <3>2, <1>0, <1>3 DEF Rising
    <3> QED
      BY <3>1, <3>2, <1>0
  <2> QED
    BY <2>1, <2>2 DEF Agree
<1>7. Sleeping(fr2, s, seg2[0])
  <2>1. seg2[0] = seg[0] /\ Sleeping(fr, s, seg[0]) /\ 0 \in 0 .. q
    BY <1>0, <1>1, <1>3 DEF Matched
  <2>2. \A i \in 1 .. seg[0] : fr2[i] = fr[i]
    <3>1. seg[0] <= seg[q] /\ seg[0] \in Nat /\ seg[q] \in Nat
      BY <1>a, <2>1, <1>0
    <3> SUFFICES ASSUME NEW i \in 1 .. seg[0] PROVE fr2[i] = fr[i]
      OBVIOUS
    <3>2. i \in 1 .. seg[q]
      BY <3>1
    <3>3. \A j \in 1 .. seg[q] : fr2[j] = fr[j]
      BY DEF Agree
    <3> QED
      BY <3>2, <3>3
  <2>3. s.on => fr2[seg[0]] = fr[seg[0]]
    BY <2>1, <2>2, <1>a DEF Sleeping
  <2> QED
    BY <2>1, <2>2, <2>3 DEF Sleeping, OneRoot
<1>8. Matched(fr2, ac2, s, seg2)
  BY <1>2, <1>4, <1>6, <1>7 DEF Matched
<1>9. Counted(ac2, s, off2, seg2)
  <2> SUFFICES ASSUME UsageTraps
               PROVE  /\ \A k \in 1 .. m : ac2[k].kind = "exec" =>
                             ac2[k].traps = off2[seg2[k]] - off2[seg2[k - 1]]
                      /\ s.on => s.traps = off2[seg2[0]]
    BY DEF Counted
  <2>1. ASSUME NEW k \in 1 .. m, ac2[k].kind = "exec"
        PROVE  ac2[k].traps = off2[seg2[k]] - off2[seg2[k - 1]]
    <3>1. CASE k \in 1 .. q
      <4>1. k \in 0 .. q /\ k - 1 \in 0 .. q /\ k \in 1 .. Len(ac)
        BY <3>1, <1>0
      <4>2. ac[k].kind = "exec" /\ ac2[k].traps = ac[k].traps
        BY <3>1, <2>1 DEF SameActs
      <4>3. ac[k].traps = off[seg[k]] - off[seg[k - 1]]
        BY <4>1, <4>2 DEF SoundBy, Counted
      <4> QED
        BY <4>1, <4>2, <4>3, <1>a, <1>1
    <3>2. CASE k = q + 1
      <4>1. m = q + 1 /\ Topmost(fr2, ac2, off2, seg[q]) /\ k - 1 = q
        BY <3>2, <1>0
      <4>2. seg2[k] = Len(fr2) /\ seg2[k - 1] = seg[q]
        BY <4>1, <3>2, <1>0, <1>1, <1>2
      <4> QED
        BY <4>1, <4>2, <3>2, <2>1 DEF Topmost
    <3> QED
      BY <3>1, <3>2, <1>0
  <2>2. ASSUME s.on PROVE s.traps = off2[seg2[0]]
    <3>1. s.traps = off[seg[0]] /\ 0 \in 0 .. q
      BY <2>2, <1>0 DEF SoundBy, Counted
    <3> QED
      BY <3>1, <1>a, <1>1
  <2> QED
    BY <2>1, <2>2
<1>10. Reasons(ac2)
  <2> SUFFICES ASSUME NEW k \in 1 .. m PROVE Reason(ac2, k)
    BY DEF Reasons
  <2>1. CASE k \in 1 .. q
    <3>1. Reason(ac, k) /\ ac2[k].why = ac[k].why
      BY <2>1, <1>0 DEF Reasons, SameActs
    <3>2. CASE k > 1
      <4>1. ac2[k - 1].kind = ac[k - 1].kind /\ ac2[k - 1].traps = ac[k - 1].traps
        BY <3>2, <2>1, <1>0 DEF SameActs
      <4> QED
        BY <3>1, <4>1 DEF Reason
    <3>3. CASE ~(k > 1)
      BY <3>1, <3>3 DEF Reason
    <3> QED
      BY <3>2, <3>3
  <2>2. CASE k = q + 1
    <3>1. k = Len(ac2) /\ Topmost(fr2, ac2, off2, seg[q])
      BY <2>2, <1>0
    <3> QED
      BY <3>1 DEF Topmost
  <2> QED
    BY <2>1, <2>2, <1>0
<1>11. SoundBy(fr2, tr2, ac2, s, off2, seg2)
  BY <1>8, <1>9 DEF SoundBy
<1> QED
  BY <1>1, <1>10, <1>11 DEF Sound

-----------------------------------------------------------------------------
(* The steps the operations are made of, each on the frames, the traps and *)
(* the activations.                                                        *)

(* The topmost activation counts d more traps, or throws.                  *)
Retop(ac, ac2, d) ==
    LET m == Len(ac) IN
    /\ Len(ac2) = m /\ SameActs(ac, ac2, m - 1)
    /\ ac2[m].kind = ac[m].kind /\ ac2[m].why = ac[m].why
    /\ ac2[m].traps = ac[m].traps + d

LEMMA TopIsExec ==
  ASSUME NEW fr \in Seq(FrameT), NEW tr, NEW ac \in Seq(ActT), NEW s,
         NEW off, NEW seg \in [0 .. Len(ac) -> Nat],
         SoundBy(fr, tr, ac, s, off, seg), Reasons(ac),
         Len(ac) > 0, ac[Len(ac)].kind = "exec"
  PROVE  /\ seg[Len(ac) - 1] \in Nat /\ seg[Len(ac) - 1] < Len(fr)
         /\ OneRoot(fr, seg[Len(ac) - 1] + 1, Len(fr))
         /\ Reason(ac, Len(ac)) /\ Len(fr) > 0
         /\ UsageTraps => ac[Len(ac)].traps = off[Len(fr)] - off[seg[Len(ac) - 1]]
<1> DEFINE m == Len(ac)
<1>1. m \in 1 .. Len(ac) /\ m - 1 \in 0 .. m /\ m \in 0 .. m
  OBVIOUS
<1>2. seg[m - 1] \in Nat /\ seg[m - 1] < seg[m] /\ seg[m] = Len(fr)
  BY <1>1, SMTT(30) DEF SoundBy, Matched, Rising
<1>3. OneRoot(fr, seg[m - 1] + 1, Len(fr))
  <2>1. Segment(fr, ac, seg, m)
    BY <1>1 DEF SoundBy, Matched
  <2> QED
    BY <2>1, <1>2 DEF Segment
<1>4. Reason(ac, m)
  BY <1>1 DEF Reasons
<1>5. UsageTraps => ac[m].traps = off[Len(fr)] - off[seg[m - 1]]
  <2>1. UsageTraps => ac[m].traps = off[seg[m]] - off[seg[m - 1]]
    BY <1>1 DEF SoundBy, Counted
  <2> QED
    BY <2>1, <1>2
<1>6. Len(fr) > 0
  BY <1>2
<1> QED
  BY <1>2, <1>3, <1>4, <1>5, <1>6

(* The same of a shape named as a whole, which is quick to cite.           *)
TopExec(fr, tr, ac, s, off, seg) ==
    /\ fr \in Seq(FrameT) /\ ac \in Seq(ActT) /\ seg \in [0 .. Len(ac) -> Nat]
    /\ SoundBy(fr, tr, ac, s, off, seg) /\ Reasons(ac)
    /\ Len(ac) > 0 /\ ac[Len(ac)].kind = "exec"

LEMMA TopExecParts ==
  ASSUME NEW fr, NEW tr, NEW ac, NEW s, NEW off, NEW seg, TopExec(fr, tr, ac, s, off, seg)
  PROVE  /\ seg[Len(ac) - 1] \in Nat /\ seg[Len(ac) - 1] < Len(fr)
         /\ Reason(ac, Len(ac))
         /\ UsageTraps => ac[Len(ac)].traps = off[Len(fr)] - off[seg[Len(ac) - 1]]
BY TopIsExec DEF TopExec

LEMMA TopIsNative ==
  ASSUME NEW fr \in Seq(FrameT), NEW tr, NEW ac \in Seq(ActT), NEW s,
         NEW off, NEW seg \in [0 .. Len(ac) -> Nat],
         SoundBy(fr, tr, ac, s, off, seg),
         Len(ac) > 0, ac[Len(ac)].kind = "native"
  PROVE  /\ Len(ac) > 1 /\ ac[Len(ac) - 1].kind = "exec"
         /\ seg[Len(ac) - 1] = Len(fr) - 1 /\ Len(fr) > 1
         /\ fr[Len(fr)] = Frame("native", None, 0, FALSE)
<1> DEFINE m == Len(ac)
<1>1. m \in 1 .. Len(ac) /\ m - 1 \in 0 .. m /\ m \in 0 .. m
  OBVIOUS
<1>2. seg[m - 1] \in Nat /\ seg[m - 1] < seg[m] /\ seg[m] = Len(fr)
  BY <1>1 DEF SoundBy, Matched, Rising
<1>3. Segment(fr, ac, seg, m)
  BY <1>1 DEF SoundBy, Matched
<1>4. m > 1 /\ ac[m - 1].kind = "exec" /\ seg[m] = seg[m - 1] + 1
      /\ fr[seg[m]] = Frame("native", None, 0, FALSE)
  BY <1>3 DEF Segment
<1>5. seg[m - 1] > 0
  <2>1. m - 2 \in 0 .. m /\ m - 2 < m - 1
    BY <1>1, <1>4
  <2>2. seg[m - 2] < seg[m - 1] /\ seg[m - 2] \in Nat
    BY <2>1, <1>1 DEF SoundBy, Matched, Rising
  <2> QED
    BY <2>2, <1>2
<1> QED
  BY <1>2, <1>4, <1>5

LEMMA ReasonKept ==
  ASSUME NEW ac \in Seq(ActT), NEW ac2, NEW d, Len(ac) > 0,
         Retop(ac, ac2, d), Reason(ac, Len(ac))
  PROVE  Reason(ac2, Len(ac2)) /\ Len(ac2) = Len(ac)
<1> DEFINE m == Len(ac)
<1>1. Len(ac2) = m /\ ac2[m].why = ac[m].why /\ m \in Nat
  BY DEF Retop
<1>2. CASE m > 1
  <2>1. ac2[m - 1].kind = ac[m - 1].kind /\ ac2[m - 1].traps = ac[m - 1].traps
    BY <1>2 DEF Retop, SameActs
  <2> QED
    BY <1>1, <1>2, <2>1 DEF Reason
<1>3. CASE ~(m > 1)
  BY <1>1, <1>3 DEF Reason
<1> QED
  BY <1>2, <1>3

(* The topmost Execute goes on, its frames are others.                     *)
LEMMA ExecGoesOn ==
  ASSUME NEW fr \in Seq(FrameT), NEW tr \in Seq(TrapT), NEW ac \in Seq(ActT), NEW s,
         NEW off \in [0 .. Len(fr) -> Nat], NEW seg \in [0 .. Len(ac) -> Nat],
         SoundBy(fr, tr, ac, s, off, seg), Reasons(ac),
         Len(ac) > 0, ac[Len(ac)].kind = "exec",
         NEW fr2 \in Seq(FrameT), NEW tr2 \in Seq(TrapT), NEW ac2 \in Seq(ActT),
         NEW off2 \in [0 .. Len(fr2) -> Nat], NEW d \in Int,
         Laid(fr2, tr2, off2), Retop(ac, ac2, d),
         Agree(fr, fr2, 1, seg[Len(ac) - 1]), Agree(off, off2, 0, seg[Len(ac) - 1]),
         seg[Len(ac) - 1] < Len(fr2), OneRoot(fr2, seg[Len(ac) - 1] + 1, Len(fr2)),
         UsageTraps => d = off2[Len(fr2)] - off[Len(fr)]
  PROVE  Sound(fr2, tr2, ac2, s)
<1> DEFINE m == Len(ac)
           b == seg[m - 1]
<1>0. /\ seg[Len(ac) - 1] \in Nat /\ seg[Len(ac) - 1] < Len(fr)
      /\ Reason(ac, Len(ac))
      /\ UsageTraps => ac[Len(ac)].traps = off[Len(fr)] - off[seg[Len(ac) - 1]]
  <2>1. TopExec(fr, tr, ac, s, off, seg)
    BY DEF TopExec
  <2> QED
    BY <2>1, TopExecParts
<1>1. /\ b \in Nat /\ b < Len(fr) /\ Reason(ac, m)
      /\ UsageTraps => ac[m].traps = off[Len(fr)] - off[b]
  BY <1>0
<1>2. m \in Nat /\ m - 1 \in 0 .. Len(ac) /\ Len(ac2) = m /\ SameActs(ac, ac2, m - 1)
      /\ ac2[m].kind = "exec" /\ ac2[m].traps = ac[m].traps + d
  BY DEF Retop
<1>3. Reason(ac2, Len(ac2))
  BY <1>1, ReasonKept
<1>4. UsageTraps => ac2[m].traps = off2[Len(fr2)] - off2[b]
  <2>1. off2[b] = off[b]
    <3> HIDE DEF b
    <3>1. b \in 0 .. b
      BY <1>1
    <3>2. Agree(off, off2, 0, b)
      BY DEF b
    <3> QED
      BY <3>1, <3>2 DEF Agree
  <2>2. b \in 0 .. Len(fr) /\ Len(fr) \in 0 .. Len(fr) /\ Len(fr2) \in 0 .. Len(fr2)
    BY <1>1
  <2>3. off[b] \in Nat /\ off[Len(fr)] \in Nat /\ off2[Len(fr2)] \in Nat
    BY <2>2
  <2> QED
    BY <1>1, <1>2, <2>1, <2>3
<1>5. Topmost(fr2, ac2, off2, b)
  BY <1>1, <1>2, <1>3, <1>4 DEF Topmost
<1>6. b <= Len(fr2)
  BY <1>1
<1>7. Len(ac2) = (m - 1) + 1
  BY <1>2
<1>8. Agree(fr, fr2, 1, seg[m - 1]) /\ Agree(off, off2, 0, seg[m - 1])
  OBVIOUS
<1>9. Topmost(fr2, ac2, off2, seg[m - 1]) /\ seg[m - 1] <= Len(fr2)
  BY <1>5, <1>6
<1>10. m - 1 \in 0 .. Len(ac)
  BY <1>2
<1> DEFINE q == m - 1
<1> HIDE DEF m, b, q
<1>11. q \in 0 .. Len(ac) /\ SameActs(ac, ac2, q) /\ Len(ac2) = q + 1
       /\ Agree(fr, fr2, 1, seg[q]) /\ Agree(off, off2, 0, seg[q])
       /\ Topmost(fr2, ac2, off2, seg[q]) /\ seg[q] <= Len(fr2)
  BY <1>2, <1>7, <1>8, <1>9, <1>10 DEF q
<1> QED
  BY <1>11, SoundReplace

LEMMA Opened ==
  ASSUME NEW fr, NEW tr, NEW ac, NEW s, Sound(fr, tr, ac, s)
  PROVE  /\ fr \in Seq(FrameT) /\ tr \in Seq(TrapT) /\ ac \in Seq(ActT) /\ Reasons(ac)
         /\ \E off \in [0 .. Len(fr) -> Nat], seg \in [0 .. Len(ac) -> Nat] :
               SoundBy(fr, tr, ac, s, off, seg)
BY DEF Sound

LEMMA OffTop ==
  ASSUME NEW fr \in Seq(FrameT), NEW tr \in Seq(TrapT), NEW ac, NEW s,
         NEW off \in [0 .. Len(fr) -> Nat], NEW seg, SoundBy(fr, tr, ac, s, off, seg)
  PROVE  /\ Laid(fr, tr, off) /\ off[Len(fr)] = Len(tr)
         /\ Len(fr) > 0 => /\ off[Len(fr) - 1] = Len(tr) - fr[Len(fr)].etraps
                           /\ off[Len(fr) - 1] \in Nat
<1>1. Laid(fr, tr, off) /\ off[Len(fr)] = Len(tr)
  BY DEF SoundBy, Laid
<1>2. ASSUME Len(fr) > 0
      PROVE  off[Len(fr) - 1] = Len(tr) - fr[Len(fr)].etraps /\ off[Len(fr) - 1] \in Nat
  <2>1. Len(fr) \in 1 .. Len(fr) /\ Len(fr) - 1 \in 0 .. Len(fr)
    BY <1>2
  <2>2. off[Len(fr)] = off[Len(fr) - 1] + fr[Len(fr)].etraps
    BY <1>1, <2>1 DEF Laid
  <2>3. off[Len(fr) - 1] \in Nat /\ fr[Len(fr)].etraps \in Nat
    BY <2>1, FrameTypes
  <2> QED
    BY <1>1, <2>2, <2>3
<1> QED
  BY <1>1, <1>2

(* A frame that is no root is entered by the topmost Execute.              *)
LEMMA FrameEntered ==
  ASSUME NEW fr, NEW tr, NEW ac, NEW s, Sound(fr, tr, ac, s),
         Len(ac) > 0, ac[Len(ac)].kind = "exec",
         NEW fr2 \in Seq(FrameT), NEW tr2 \in Seq(TrapT), NEW ac2 \in Seq(ActT), NEW d \in Int,
         Len(fr2) = Len(fr) + 1, Agree(fr, fr2, 1, Len(fr)),
         fr2[Len(fr2)].kind = "script", ~fr2[Len(fr2)].root,
         OnTop(tr, tr2, Len(fr2), fr2[Len(fr2)].etraps), Retop(ac, ac2, d),
         UsageTraps => d = fr2[Len(fr2)].etraps
  PROVE  Sound(fr2, tr2, ac2, s)
<1>1. fr \in Seq(FrameT) /\ tr \in Seq(TrapT) /\ ac \in Seq(ActT) /\ Reasons(ac)
  BY Opened
<1>2. PICK off \in [0 .. Len(fr) -> Nat], seg \in [0 .. Len(ac) -> Nat] :
         SoundBy(fr, tr, ac, s, off, seg)
  BY Opened
<1> DEFINE b == seg[Len(ac) - 1]
<1>3. /\ b \in Nat /\ b < Len(fr) /\ OneRoot(fr, b + 1, Len(fr))
  BY <1>1, <1>2, TopIsExec
<1>4. Laid(fr, tr, off) /\ off[Len(fr)] = Len(tr)
  BY <1>1, <1>2, OffTop
<1>5. SameTraps(fr, fr2, Len(fr))
  BY DEF SameTraps, Agree
<1>6. PICK off2 \in [0 .. Len(fr2) -> Nat] :
         Laid(fr2, tr2, off2) /\ Agree(off, off2, 0, Len(fr))
  BY <1>1, <1>4, <1>5, LaidPush
<1>7. Agree(fr, fr2, 1, b) /\ Agree(off, off2, 0, b)
  BY <1>1, <1>3, <1>6 DEF Agree
<1>8. b < Len(fr2)
  BY <1>1, <1>3
<1>9. OneRoot(fr2, b + 1, Len(fr2))
  <2> SUFFICES ASSUME NEW i \in b + 1 .. Len(fr2)
               PROVE  fr2[i].kind = "script" /\ (fr2[i].root <=> i = b + 1)
    BY DEF OneRoot
  <2>1. CASE i = Len(fr2)
    BY <2>1, <1>1, <1>3
  <2>2. CASE i \in b + 1 .. Len(fr)
    <3>1. fr2[i] = fr[i]
      BY <2>2, <1>1, <1>3 DEF Agree
    <3> QED
      BY <3>1, <2>2, <1>3 DEF OneRoot
  <2> QED
    BY <2>1, <2>2, <1>1, <1>3
<1>10. UsageTraps => d = off2[Len(fr2)] - off[Len(fr)]
  <2>1. off2[Len(fr2)] = Len(tr2) /\ Len(tr2) = Len(tr) + fr2[Len(fr2)].etraps
    BY <1>6 DEF Laid, OnTop
  <2>2. fr2[Len(fr2)].etraps \in Nat
    <3>1. Len(fr2) \in 1 .. Len(fr2)
      BY <1>1
    <3> QED
      BY <3>1, FrameTypes
  <2> QED
    BY <2>1, <2>2, <1>4, <1>1
<1> HIDE DEF b
<1>11. Agree(fr, fr2, 1, seg[Len(ac) - 1]) /\ Agree(off, off2, 0, seg[Len(ac) - 1])
       /\ seg[Len(ac) - 1] < Len(fr2) /\ OneRoot(fr2, seg[Len(ac) - 1] + 1, Len(fr2))
  BY <1>7, <1>8, <1>9 DEF b
<1> QED
  BY <1>1, <1>2, <1>6, <1>10, <1>11, ExecGoesOn

(* A frame that is no root is left.                                        *)
LEMMA FrameLeft ==
  ASSUME NEW fr, NEW tr, NEW ac, NEW s, Sound(fr, tr, ac, s),
         Len(ac) > 0, ac[Len(ac)].kind = "exec", ~fr[Len(fr)].root,
         NEW fr2 \in Seq(FrameT), NEW tr2 \in Seq(TrapT), NEW ac2 \in Seq(ActT),
         Len(fr2) = Len(fr) - 1, Agree(fr, fr2, 1, Len(fr2)),
         Len(tr2) = Len(tr) - fr[Len(fr)].etraps, Agree(tr, tr2, 1, Len(tr2)),
         Retop(ac, ac2, 0 - fr[Len(fr)].etraps)
  PROVE  Sound(fr2, tr2, ac2, s)
<1>1. fr \in Seq(FrameT) /\ tr \in Seq(TrapT) /\ ac \in Seq(ActT) /\ Reasons(ac)
  BY Opened
<1>2. PICK off \in [0 .. Len(fr) -> Nat], seg \in [0 .. Len(ac) -> Nat] :
         SoundBy(fr, tr, ac, s, off, seg)
  BY Opened
<1> DEFINE b == seg[Len(ac) - 1]
<1>3. b \in Nat /\ b < Len(fr) /\ OneRoot(fr, b + 1, Len(fr)) /\ Len(fr) > 0
  BY <1>1, <1>2, TopIsExec
<1>4. Laid(fr, tr, off) /\ off[Len(fr)] = Len(tr)
  BY <1>1, <1>2, OffTop
<1>5. SameTraps(fr, fr2, Len(fr2))
  BY DEF SameTraps, Agree
<1>6. PICK off2 \in [0 .. Len(fr2) -> Nat] :
         Laid(fr2, tr2, off2) /\ Agree(off, off2, 0, Len(fr2))
  BY <1>1, <1>3, <1>4, <1>5, LaidPop
<1>7. b < Len(fr2)
  <2>1. Len(fr) # b + 1
    BY <1>1, <1>3 DEF OneRoot
  <2> QED
    BY <2>1, <1>1, <1>3
<1>8. Agree(fr, fr2, 1, b) /\ Agree(off, off2, 0, b)
  BY <1>1, <1>3, <1>6, <1>7, SMTT(30) DEF Agree
<1>9. OneRoot(fr2, b + 1, Len(fr2))
  <2> SUFFICES ASSUME NEW i \in b + 1 .. Len(fr2)
               PROVE  fr2[i].kind = "script" /\ (fr2[i].root <=> i = b + 1)
    BY DEF OneRoot
  <2>1. fr2[i] = fr[i] /\ i \in b + 1 .. Len(fr)
    BY <1>1, <1>3, SMTT(30) DEF Agree
  <2> QED
    BY <2>1, <1>3 DEF OneRoot
<1>0. fr[Len(fr)].etraps \in Nat
  <2>1. Len(fr) \in 1 .. Len(fr)
    BY <1>1, <1>3
  <2> QED
    BY <2>1, <1>1, FrameTypes
<1>10. UsageTraps => 0 - fr[Len(fr)].etraps = off2[Len(fr2)] - off[Len(fr)]
  <2>1. off2[Len(fr2)] = Len(tr2)
    BY <1>6 DEF Laid
  <2> QED
    BY <2>1, <1>0, <1>4, <1>1
<1> DEFINE d == 0 - fr[Len(fr)].etraps
<1>d. d \in Int
  BY <1>0
<1> HIDE DEF b, d
<1>11. Agree(fr, fr2, 1, seg[Len(ac) - 1]) /\ Agree(off, off2, 0, seg[Len(ac) - 1])
       /\ seg[Len(ac) - 1] < Len(fr2) /\ OneRoot(fr2, seg[Len(ac) - 1] + 1, Len(fr2))
  BY <1>7, <1>8, <1>9 DEF b
<1>12. Retop(ac, ac2, d) /\ (UsageTraps => d = off2[Len(fr2)] - off[Len(fr)])
  BY <1>10 DEF d
<1> QED
  BY <1>1, <1>2, <1>6, <1>d, <1>11, <1>12, ExecGoesOn

(* The topmost frame has other traps.                                      *)
LEMMA TrapsChanged ==
  ASSUME NEW fr, NEW tr, NEW ac, NEW s, Sound(fr, tr, ac, s),
         Len(ac) > 0, ac[Len(ac)].kind = "exec",
         NEW fr2 \in Seq(FrameT), NEW tr2 \in Seq(TrapT), NEW ac2 \in Seq(ActT),
         Len(fr2) = Len(fr), Agree(fr, fr2, 1, Len(fr) - 1),
         fr2[Len(fr)].kind = fr[Len(fr)].kind, fr2[Len(fr)].root = fr[Len(fr)].root,
         NEW mid \in Seq(TrapT), Len(mid) = Len(tr) - fr[Len(fr)].etraps,
         Agree(tr, mid, 1, Len(mid)),
         OnTop(mid, tr2, Len(fr2), fr2[Len(fr2)].etraps),
         Retop(ac, ac2, fr2[Len(fr)].etraps - fr[Len(fr)].etraps)
  PROVE  Sound(fr2, tr2, ac2, s)
<1>1. fr \in Seq(FrameT) /\ tr \in Seq(TrapT) /\ ac \in Seq(ActT) /\ Reasons(ac)
  BY Opened
<1>2. PICK off \in [0 .. Len(fr) -> Nat], seg \in [0 .. Len(ac) -> Nat] :
         SoundBy(fr, tr, ac, s, off, seg)
  BY Opened
<1> DEFINE b == seg[Len(ac) - 1]
<1>3. b \in Nat /\ b < Len(fr) /\ OneRoot(fr, b + 1, Len(fr)) /\ Len(fr) > 0
  BY <1>1, <1>2, TopIsExec
<1>4. Laid(fr, tr, off) /\ off[Len(fr)] = Len(tr)
  BY <1>1, <1>2, OffTop
<1>5. SameTraps(fr, fr2, Len(fr) - 1)
  BY DEF SameTraps, Agree
<1>6. PICK off2 \in [0 .. Len(fr2) -> Nat] :
         Laid(fr2, tr2, off2) /\ Agree(off, off2, 0, Len(fr) - 1)
  BY <1>1, <1>3, <1>4, <1>5, LaidTop
<1>7. b < Len(fr2)
  BY <1>3
<1>8. Agree(fr, fr2, 1, b) /\ Agree(off, off2, 0, b)
  BY <1>1, <1>3, <1>6, <1>7, SMTT(30) DEF Agree
<1>9. OneRoot(fr2, b + 1, Len(fr2))
  <2> SUFFICES ASSUME NEW i \in b + 1 .. Len(fr2)
               PROVE  fr2[i].kind = "script" /\ (fr2[i].root <=> i = b + 1)
    BY DEF OneRoot
  <2>1. fr2[i].kind = fr[i].kind /\ fr2[i].root = fr[i].root
    <3>1. CASE i = Len(fr)
      BY <3>1
    <3>2. CASE i # Len(fr)
      <4>1. i \in 1 .. Len(fr) - 1
        BY <3>2, <1>1, <1>3
      <4> QED
        BY <4>1 DEF Agree
    <3> QED
      BY <3>1, <3>2
  <2> QED
    BY <2>1, <1>3 DEF OneRoot
<1>0. fr[Len(fr)].etraps \in Nat /\ fr2[Len(fr2)].etraps \in Nat
  <2>1. Len(fr) \in 1 .. Len(fr) /\ Len(fr2) \in 1 .. Len(fr2)
    BY <1>1, <1>3
  <2> QED
    BY <2>1, <1>1, FrameTypes
<1> DEFINE d == fr2[Len(fr)].etraps - fr[Len(fr)].etraps
<1>10. UsageTraps => d = off2[Len(fr2)] - off[Len(fr)]
  <2>1. off2[Len(fr2)] = Len(tr2) /\ Len(tr2) = Len(mid) + fr2[Len(fr2)].etraps
    BY <1>6 DEF Laid, OnTop
  <2>2. off2[Len(fr2)] = (Len(tr) - fr[Len(fr)].etraps) + fr2[Len(fr)].etraps
    BY <2>1
  <2>3. fr2[Len(fr)].etraps \in Nat /\ Len(tr) \in Nat
    BY <1>0, <1>1
  <2>4. off2[Len(fr2)] = (off[Len(fr)] - fr[Len(fr)].etraps) + fr2[Len(fr)].etraps
        /\ off[Len(fr)] \in Nat /\ fr[Len(fr)].etraps \in Nat
    BY <2>2, <2>3, <1>0, <1>4
  <2> DEFINE x == off[Len(fr)]
             y == off2[Len(fr2)]
             n == fr[Len(fr)].etraps
             e == fr2[Len(fr)].etraps
  <2>5. x \in Nat /\ n \in Nat /\ e \in Nat /\ y = (x - n) + e
    BY <2>3, <2>4
  <2>6. d = e - n
    OBVIOUS
  <2> HIDE DEF x, y, n, e, d
  <2>7. d = y - x
    BY <2>5, <2>6
  <2> QED
    BY <2>7 DEF x, y
<1>d. d \in Int
  <2>1. fr2[Len(fr)].etraps \in Nat /\ fr[Len(fr)].etraps \in Nat
    BY <1>0
  <2> QED
    BY <2>1, SMTT(30)
<1> HIDE DEF b, d
<1>11. Agree(fr, fr2, 1, seg[Len(ac) - 1]) /\ Agree(off, off2, 0, seg[Len(ac) - 1])
       /\ seg[Len(ac) - 1] < Len(fr2) /\ OneRoot(fr2, seg[Len(ac) - 1] + 1, Len(fr2))
  BY <1>7, <1>8, <1>9 DEF b
<1>12. Retop(ac, ac2, d)
  BY DEF d
<1> QED
  BY <1>1, <1>2, <1>6, <1>d, <1>10, <1>11, <1>12, ExecGoesOn

(* The topmost Execute throws, or no longer does.                          *)
LEMMA Thrown ==
  ASSUME NEW fr, NEW tr, NEW ac, NEW s, Sound(fr, tr, ac, s),
         Len(ac) > 0, ac[Len(ac)].kind = "exec",
         NEW ac2 \in Seq(ActT), Retop(ac, ac2, 0)
  PROVE  Sound(fr, tr, ac2, s)
<1>1. fr \in Seq(FrameT) /\ tr \in Seq(TrapT) /\ ac \in Seq(ActT) /\ Reasons(ac)
  BY Opened
<1>2. PICK off \in [0 .. Len(fr) -> Nat], seg \in [0 .. Len(ac) -> Nat] :
         SoundBy(fr, tr, ac, s, off, seg)
  BY Opened
<1>3. seg[Len(ac) - 1] < Len(fr) /\ OneRoot(fr, seg[Len(ac) - 1] + 1, Len(fr))
  BY <1>1, <1>2, TopIsExec
<1>4. Laid(fr, tr, off)
  BY <1>2 DEF SoundBy
<1>5. Agree(fr, fr, 1, seg[Len(ac) - 1]) /\ Agree(off, off, 0, seg[Len(ac) - 1])
  BY DEF Agree
<1>6. 0 = off[Len(fr)] - off[Len(fr)] /\ 0 \in Int
  <2>1. Len(fr) \in 0 .. Len(fr)
    BY <1>1
  <2>2. off[Len(fr)] \in Nat
    BY <2>1
  <2> QED
    BY <2>2
<1> QED
  BY <1>1, <1>2, <1>3, <1>4, <1>5, <1>6, ExecGoesOn

(* A root is entered, by an Execute of its own.                            *)
LEMMA ExecEntered ==
  ASSUME NEW fr, NEW tr, NEW ac, NEW s, Sound(fr, tr, ac, s),
         NEW fr2 \in Seq(FrameT), NEW tr2 \in Seq(TrapT), NEW ac2 \in Seq(ActT),
         Len(fr2) = Len(fr) + 1, Agree(fr, fr2, 1, Len(fr)),
         fr2[Len(fr2)].kind = "script", fr2[Len(fr2)].root,
         OnTop(tr, tr2, Len(fr2), fr2[Len(fr2)].etraps),
         Len(ac2) = Len(ac) + 1, Agree(ac, ac2, 1, Len(ac)),
         ac2[Len(ac2)].kind = "exec", ac2[Len(ac2)].traps = fr2[Len(fr2)].etraps,
         Reason(ac2, Len(ac2))
  PROVE  Sound(fr2, tr2, ac2, s)
<1>1. fr \in Seq(FrameT) /\ tr \in Seq(TrapT) /\ ac \in Seq(ActT) /\ Reasons(ac)
  BY Opened
<1>2. PICK off \in [0 .. Len(fr) -> Nat], seg \in [0 .. Len(ac) -> Nat] :
         SoundBy(fr, tr, ac, s, off, seg)
  BY Opened
<1>3. Laid(fr, tr, off) /\ off[Len(fr)] = Len(tr) /\ seg[Len(ac)] = Len(fr)
  BY <1>2 DEF SoundBy, Matched, Laid
<1>4. SameTraps(fr, fr2, Len(fr))
  BY DEF SameTraps, Agree
<1>5. PICK off2 \in [0 .. Len(fr2) -> Nat] :
         Laid(fr2, tr2, off2) /\ Agree(off, off2, 0, Len(fr))
  BY <1>1, <1>3, <1>4, LaidPush
<1>6. SameActs(ac, ac2, Len(ac))
  BY DEF SameActs, Agree
<1>7. OneRoot(fr2, Len(fr) + 1, Len(fr2))
  BY <1>1 DEF OneRoot
<1>8. UsageTraps => ac2[Len(ac2)].traps = off2[Len(fr2)] - off2[Len(fr)]
  <2>1. off2[Len(fr2)] = Len(tr2) /\ Len(tr2) = Len(tr) + fr2[Len(fr2)].etraps
    BY <1>5 DEF Laid, OnTop
  <2>2. fr2[Len(fr2)].etraps \in Nat /\ Len(tr) \in Nat
    <3>1. Len(fr2) \in 1 .. Len(fr2)
      BY <1>1
    <3> QED
      BY <3>1, <1>1, FrameTypes
  <2>3. off2[Len(fr)] = off[Len(fr)]
    <3>1. Len(fr) \in 0 .. Len(fr)
      BY <1>1
    <3> QED
      BY <3>1, <1>5 DEF Agree
  <2> QED
    BY <2>1, <2>2, <2>3, <1>3
<1>9. Topmost(fr2, ac2, off2, Len(fr))
  <2>1. Len(ac2) > 0 /\ Len(fr2) > Len(fr)
    BY <1>1
  <2> QED
    BY <2>1, <1>7, <1>8 DEF Topmost
<1>10. Len(ac) \in 0 .. Len(ac) /\ Len(fr) <= Len(fr2)
  BY <1>1
<1>11. Agree(fr, fr2, 1, seg[Len(ac)]) /\ Agree(off, off2, 0, seg[Len(ac)])
       /\ seg[Len(ac)] <= Len(fr2) /\ Topmost(fr2, ac2, off2, seg[Len(ac)])
  BY <1>3, <1>5, <1>9, <1>10
<1> QED
  BY <1>1, <1>2, <1>5, <1>6, <1>10, <1>11, SoundReplace

(* The topmost Execute calls a native function.                            *)
LEMMA NativeEntered ==
  ASSUME NEW fr, NEW tr, NEW ac, NEW s, Sound(fr, tr, ac, s),
         Len(ac) > 0, ac[Len(ac)].kind = "exec",
         NEW fr2 \in Seq(FrameT), NEW ac2 \in Seq(ActT),
         Len(fr2) = Len(fr) + 1, Agree(fr, fr2, 1, Len(fr)),
         fr2[Len(fr2)] = Frame("native", None, 0, FALSE),
         Len(ac2) = Len(ac) + 1, Agree(ac, ac2, 1, Len(ac)),
         ac2[Len(ac2)].kind = "native", Reason(ac2, Len(ac2))
  PROVE  Sound(fr2, tr, ac2, s)
<1>1. fr \in Seq(FrameT) /\ tr \in Seq(TrapT) /\ ac \in Seq(ActT) /\ Reasons(ac)
  BY Opened
<1>2. PICK off \in [0 .. Len(fr) -> Nat], seg \in [0 .. Len(ac) -> Nat] :
         SoundBy(fr, tr, ac, s, off, seg)
  BY Opened
<1>3. Laid(fr, tr, off) /\ off[Len(fr)] = Len(tr) /\ seg[Len(ac)] = Len(fr)
  BY <1>2 DEF SoundBy, Matched, Laid
<1>4. SameTraps(fr, fr2, Len(fr))
  BY DEF SameTraps, Agree
<1>o. OnTop(tr, tr, Len(fr2), fr2[Len(fr2)].etraps)
  <2>1. fr2[Len(fr2)].etraps = 0
    BY DEF Frame
  <2>2. OnTop(tr, tr, Len(fr2), 0)
    BY <1>1 DEF OnTop
  <2> QED
    BY <2>1, <2>2
<1>5. PICK off2 \in [0 .. Len(fr2) -> Nat] :
         Laid(fr2, tr, off2) /\ Agree(off, off2, 0, Len(fr))
  BY <1>1, <1>3, <1>4, <1>o, LaidPush
<1>6. SameActs(ac, ac2, Len(ac))
  BY DEF SameActs, Agree
<1>9. Topmost(fr2, ac2, off2, Len(fr))
  <2>1. Len(ac2) > 1 /\ Len(fr2) > Len(fr) /\ Len(ac2) - 1 = Len(ac)
    BY <1>1
  <2>2. ac2[Len(ac2) - 1].kind = "exec"
    <3>1. Len(ac) \in 1 .. Len(ac)
      BY <1>1
    <3> QED
      BY <2>1, <3>1 DEF Agree
  <2> QED
    BY <2>1, <2>2 DEF Topmost
<1>10. Len(ac) \in 0 .. Len(ac) /\ Len(fr) <= Len(fr2)
  BY <1>1
<1>11. Agree(fr, fr2, 1, seg[Len(ac)]) /\ Agree(off, off2, 0, seg[Len(ac)])
       /\ seg[Len(ac)] <= Len(fr2) /\ Topmost(fr2, ac2, off2, seg[Len(ac)])
  BY <1>3, <1>5, <1>9, <1>10
<1> QED
  BY <1>1, <1>2, <1>5, <1>6, <1>10, <1>11, SoundReplace

(* The topmost activation returns, with the frame it has left.             *)
LEMMA ActivationLeft ==
  ASSUME NEW fr, NEW tr, NEW ac, NEW s, Sound(fr, tr, ac, s), Len(ac) > 0,
         ac[Len(ac)].kind = "exec" => fr[Len(fr)].root,
         NEW fr2 \in Seq(FrameT), NEW tr2 \in Seq(TrapT), NEW ac2 \in Seq(ActT),
         Len(fr2) = Len(fr) - 1, Agree(fr, fr2, 1, Len(fr2)),
         Len(tr2) = Len(tr) - fr[Len(fr)].etraps, Agree(tr, tr2, 1, Len(tr2)),
         Len(ac2) = Len(ac) - 1, Agree(ac, ac2, 1, Len(ac2))
  PROVE  Sound(fr2, tr2, ac2, s)
<1>1. fr \in Seq(FrameT) /\ tr \in Seq(TrapT) /\ ac \in Seq(ActT) /\ Reasons(ac)
  BY Opened
<1>2. PICK off \in [0 .. Len(fr) -> Nat], seg \in [0 .. Len(ac) -> Nat] :
         SoundBy(fr, tr, ac, s, off, seg)
  BY Opened
<1>3. seg[Len(ac) - 1] = Len(fr2) /\ Len(fr) > 0
  <2>1. CASE ac[Len(ac)].kind = "exec"
    <3>1. /\ seg[Len(ac) - 1] \in Nat /\ seg[Len(ac) - 1] < Len(fr)
          /\ OneRoot(fr, seg[Len(ac) - 1] + 1, Len(fr)) /\ Len(fr) > 0
      BY <2>1, <1>1, <1>2, TopIsExec
    <3>2. Len(fr) \in seg[Len(ac) - 1] + 1 .. Len(fr)
      BY <3>1, <1>1
    <3>3. Len(fr) = seg[Len(ac) - 1] + 1
      BY <2>1, <3>1, <3>2 DEF OneRoot
    <3> QED
      BY <3>1, <3>3, <1>1
  <2>2. CASE ac[Len(ac)].kind = "native"
    <3>1. seg[Len(ac) - 1] = Len(fr) - 1 /\ Len(fr) > 1
      BY <2>2, <1>1, <1>2, TopIsNative, ZenonT(40)
    <3> QED
      BY <3>1, <1>1
  <2>3. ac[Len(ac)].kind \in {"exec", "native"}
    <3>1. ac[Len(ac)] \in ActT
      BY <1>1
    <3> QED
      BY <3>1 DEF ActT
  <2> QED
    BY <2>1, <2>2, <2>3
<1>4. Laid(fr, tr, off)
  BY <1>2 DEF SoundBy
<1>5. SameTraps(fr, fr2, Len(fr2))
  BY DEF SameTraps, Agree
<1>6. PICK off2 \in [0 .. Len(fr2) -> Nat] :
         Laid(fr2, tr2, off2) /\ Agree(off, off2, 0, Len(fr2))
  BY <1>1, <1>3, <1>4, <1>5, LaidPop
<1>7. SameActs(ac, ac2, Len(ac) - 1)
  BY DEF SameActs, Agree
<1>8. Agree(fr, fr2, 1, seg[Len(ac) - 1]) /\ Agree(off, off2, 0, seg[Len(ac) - 1])
      /\ seg[Len(ac) - 1] <= Len(fr2) /\ Len(ac) - 1 \in 0 .. Len(ac)
  BY <1>1, <1>3, <1>6
<1> DEFINE q == Len(ac) - 1
<1> HIDE DEF q
<1>9. q \in 0 .. Len(ac) /\ SameActs(ac, ac2, q) /\ Len(ac2) = q /\ Len(fr2) = seg[q]
      /\ Agree(fr, fr2, 1, seg[q]) /\ Agree(off, off2, 0, seg[q]) /\ seg[q] <= Len(fr2)
  BY <1>3, <1>7, <1>8 DEF q
<1> QED
  BY <1>1, <1>2, <1>6, <1>9, SoundReplace

(* The only Execute returns and leaves its frames to a VM that sleeps.     *)
LEMMA Slept ==
  ASSUME NEW fr, NEW tr, NEW ac, NEW s, Sound(fr, tr, ac, s),
         Len(ac) = 1, ac[1].kind = "exec", ~s.on,
         NEW s2, s2.on, s2.root = fr[Len(fr)].root, s2.traps = ac[1].traps,
         NEW ac2 \in Seq(ActT), Len(ac2) = 0
  PROVE  Sound(fr, tr, ac2, s2)
<1>1. fr \in Seq(FrameT) /\ tr \in Seq(TrapT) /\ ac \in Seq(ActT) /\ Reasons(ac)
  BY Opened
<1>2. PICK off \in [0 .. Len(fr) -> Nat], seg \in [0 .. Len(ac) -> Nat] :
         SoundBy(fr, tr, ac, s, off, seg)
  BY Opened
<1>3. /\ seg[0] < Len(fr) /\ OneRoot(fr, seg[0] + 1, Len(fr)) /\ Len(fr) > 0
      /\ UsageTraps => ac[1].traps = off[Len(fr)] - off[seg[0]]
  <2>1. Len(ac) > 0 /\ ac[Len(ac)].kind = "exec"
    OBVIOUS
  <2>2. /\ seg[Len(ac) - 1] < Len(fr) /\ OneRoot(fr, seg[Len(ac) - 1] + 1, Len(fr))
        /\ Len(fr) > 0
        /\ UsageTraps => ac[Len(ac)].traps = off[Len(fr)] - off[seg[Len(ac) - 1]]
    BY <1>1, <1>2, <2>1, TopIsExec, ZenonT(40)
  <2>3. Len(ac) - 1 = 0
    OBVIOUS
  <2> QED
    BY <2>2, <2>3
<1>4. seg[0] = 0
  <2>1. ~(seg[0] > 0)
    BY <1>2 DEF SoundBy, Matched, Sleeping
  <2> QED
    BY <2>1, <1>1
<1>5. off[Len(fr)] \in Nat /\ off[0] = 0 /\ Laid(fr, tr, off)
  <2>1. Len(fr) \in 0 .. Len(fr)
    BY <1>1
  <2> QED
    BY <2>1, <1>2 DEF SoundBy, Laid
<1> DEFINE seg2 == [k \in 0 .. Len(ac2) |-> Len(fr)]
<1>6. seg2 \in [0 .. Len(ac2) -> Nat] /\ seg2[0] = Len(fr)
  BY <1>1
<1> HIDE DEF seg2
<1>7. Matched(fr, ac2, s2, seg2)
  <2>1. Rising(seg2, Len(ac2)) /\ \A k \in 1 .. Len(ac2) : Segment(fr, ac2, seg2, k)
    BY DEF Rising
  <2>2. Sleeping(fr, s2, Len(fr))
    BY <1>3, <1>4 DEF Sleeping
  <2> QED
    BY <2>1, <2>2, <1>6 DEF Matched
<1>8. Counted(ac2, s2, off, seg2)
  <2>1. UsageTraps => s2.traps = off[seg2[0]]
    BY <1>3, <1>4, <1>5, <1>6
  <2>2. \A k \in 1 .. Len(ac2) : FALSE
    OBVIOUS
  <2> QED
    BY <2>1, <2>2 DEF Counted
<1>9. SoundBy(fr, tr, ac2, s2, off, seg2)
  BY <1>5, <1>7, <1>8 DEF SoundBy
<1>10. Reasons(ac2)
  BY DEF Reasons
<1> QED
  BY <1>1, <1>6, <1>9, <1>10 DEF Sound

(* An Execute takes over the frames of a VM that slept.                    *)
LEMMA Woken ==
  ASSUME NEW fr, NEW tr, NEW ac, NEW s, Sound(fr, tr, ac, s), Len(ac) = 0, s.on,
         NEW s2, ~s2.on, NEW ac2 \in Seq(ActT), Len(ac2) = 1,
         ac2[1].kind = "exec", ac2[1].traps = s.traps, Reason(ac2, 1)
  PROVE  /\ Sound(fr, tr, ac2, s2)
         /\ Len(fr) > 0 /\ fr[Len(fr)].root = s.root
<1>1. fr \in Seq(FrameT) /\ tr \in Seq(TrapT) /\ ac \in Seq(ActT) /\ Reasons(ac)
  BY Opened
<1>2. PICK off \in [0 .. Len(fr) -> Nat], seg \in [0 .. Len(ac) -> Nat] :
         SoundBy(fr, tr, ac, s, off, seg)
  BY Opened
<1>3. seg[0] = Len(fr) /\ Sleeping(fr, s, Len(fr))
  BY <1>2 DEF SoundBy, Matched
<1>4. OneRoot(fr, 1, Len(fr)) /\ Len(fr) > 0 /\ s.root = fr[Len(fr)].root
  BY <1>3 DEF Sleeping
<1>5. /\ off[Len(fr)] \in Nat /\ off[0] = 0 /\ Laid(fr, tr, off)
      /\ UsageTraps => s.traps = off[Len(fr)]
  <2>1. Len(fr) \in 0 .. Len(fr)
    BY <1>1
  <2> QED
    BY <2>1, <1>2, <1>3 DEF SoundBy, Laid, Counted
<1> DEFINE seg2 == [k \in 0 .. 1 |-> IF k = 0 THEN 0 ELSE Len(fr)]
<1>6. seg2 \in [0 .. Len(ac2) -> Nat] /\ seg2[0] = 0 /\ seg2[1] = Len(fr)
  BY <1>1
<1> HIDE DEF seg2
<1>7. Matched(fr, ac2, s2, seg2)
  <2>1. Rising(seg2, Len(ac2))
    <3> SUFFICES ASSUME NEW j \in 0 .. 1, NEW k \in 0 .. 1, j < k PROVE seg2[j] < seg2[k]
      BY DEF Rising
    <3>1. j = 0 /\ k = 1
      OBVIOUS
    <3> QED
      BY <3>1, <1>4, <1>6
  <2>2. Segment(fr, ac2, seg2, 1)
    BY <1>4, <1>6 DEF Segment
  <2>3. Sleeping(fr, s2, 0)
    BY DEF Sleeping, OneRoot
  <2> QED
    BY <2>1, <2>2, <2>3, <1>6 DEF Matched
<1>8. Counted(ac2, s2, off, seg2)
  <2>1. UsageTraps => ac2[1].traps = off[seg2[1]] - off[seg2[0]]
    BY <1>5, <1>6
  <2>2. \A k \in 1 .. Len(ac2) : k = 1 /\ k - 1 = 0
    OBVIOUS
  <2> QED
    BY <2>1, <2>2 DEF Counted
<1>9. SoundBy(fr, tr, ac2, s2, off, seg2)
  BY <1>5, <1>7, <1>8 DEF SoundBy
<1>10. Reasons(ac2)
  <2>1. \A k \in 1 .. Len(ac2) : k = 1
    OBVIOUS
  <2> QED
    BY <2>1 DEF Reasons
<1>11. Sound(fr, tr, ac2, s2)
  BY <1>1, <1>6, <1>9, <1>10 DEF Sound
<1> QED
  BY <1>4, <1>11

-----------------------------------------------------------------------------
(* Generators and their frames.                                            *)

SameStates(gn, gn2, g) == \A h \in Gen \ {g} : gn2[h].state = gn[h].state

LEMMA GenOfFrame ==
  ASSUME NEW fr \in Seq(FrameT), NEW i \in 1 .. Len(fr), fr[i].gen # None
  PROVE  fr[i].gen \in Gen
BY FrameTypes

LEMMA PlacedSame ==
  ASSUME NEW fr \in Seq(FrameT), NEW fr2 \in Seq(FrameT), NEW gn, Placed(fr, gn),
         Len(fr2) = Len(fr), Agree(fr, fr2, 1, Len(fr) - 1), Len(fr) > 0,
         fr2[Len(fr)].gen = fr[Len(fr)].gen, fr2[Len(fr)].root = fr[Len(fr)].root
  PROVE  Placed(fr2, gn)
<1>1. \A i \in 1 .. Len(fr) : fr2[i].gen = fr[i].gen /\ fr2[i].root = fr[i].root
  <2> SUFFICES ASSUME NEW i \in 1 .. Len(fr)
               PROVE  fr2[i].gen = fr[i].gen /\ fr2[i].root = fr[i].root
    OBVIOUS
  <2>1. CASE i = Len(fr)
    BY <2>1
  <2>2. CASE i \in 1 .. Len(fr) - 1
    BY <2>2 DEF Agree
  <2> QED
    BY <2>1, <2>2
<1> QED
  BY <1>1 DEF Placed

LEMMA PlacedPush ==
  ASSUME NEW fr \in Seq(FrameT), NEW fr2 \in Seq(FrameT), NEW gn, Placed(fr, gn),
         Len(fr2) = Len(fr) + 1, Agree(fr, fr2, 1, Len(fr)), fr2[Len(fr2)].gen = None
  PROVE  Placed(fr2, gn)
<1>1. \A i \in 1 .. Len(fr) : fr2[i] = fr[i] /\ i \in 1 .. Len(fr2)
  BY DEF Agree
<1>2. \A i \in 1 .. Len(fr2) : fr2[i].gen # None => i \in 1 .. Len(fr) /\ fr2[i] = fr[i]
  <2> SUFFICES ASSUME NEW i \in 1 .. Len(fr2), fr2[i].gen # None
               PROVE  i \in 1 .. Len(fr)
    BY <1>1
  <2> QED
    OBVIOUS
<1>3. \A i, j \in 1 .. Len(fr2) : fr2[i].gen = fr2[j].gen /\ fr2[i].gen # None => i = j
  BY <1>2 DEF Placed
<1>4. ASSUME NEW i \in 1 .. Len(fr2), fr2[i].gen # None
      PROVE  gn[fr2[i].gen].state = "running" /\ (fr2[i].root => fr2[i].gen \in ApiGen)
  BY <1>2, <1>4 DEF Placed
<1>5. ASSUME NEW g \in Gen, gn[g].state = "running" PROVE \E i \in 1 .. Len(fr2) : fr2[i].gen = g
  BY <1>1, <1>5 DEF Placed
<1> QED
  BY <1>3, <1>4, <1>5 DEF Placed

(* A generator enters a frame.                                             *)
LEMMA PlacedRun ==
  ASSUME NEW fr \in Seq(FrameT), NEW fr2 \in Seq(FrameT), NEW gn, NEW gn2, NEW g \in Gen,
         Placed(fr, gn), gn[g].state # "running", gn2[g].state = "running",
         SameStates(gn, gn2, g), Len(fr2) = Len(fr) + 1, Agree(fr, fr2, 1, Len(fr)),
         fr2[Len(fr2)].gen = g, fr2[Len(fr2)].root => g \in ApiGen
  PROVE  Placed(fr2, gn2)
<1>1. \A i \in 1 .. Len(fr) : fr2[i] = fr[i] /\ i \in 1 .. Len(fr2)
  BY DEF Agree
<1>2. \A i \in 1 .. Len(fr2) : i = Len(fr2) \/ (i \in 1 .. Len(fr) /\ fr2[i] = fr[i])
  BY <1>1
<1>3. \A i \in 1 .. Len(fr) : fr[i].gen # g
  <2> SUFFICES ASSUME NEW i \in 1 .. Len(fr), fr[i].gen = g PROVE FALSE
    OBVIOUS
  <2>1. g # None
    BY NoneIsNoGenerator
  <2> QED
    BY <2>1 DEF Placed
<1>4. \A i, j \in 1 .. Len(fr2) : fr2[i].gen = fr2[j].gen /\ fr2[i].gen # None => i = j
  BY <1>2, <1>3 DEF Placed
<1>5. ASSUME NEW i \in 1 .. Len(fr2), fr2[i].gen # None
      PROVE  gn2[fr2[i].gen].state = "running" /\ (fr2[i].root => fr2[i].gen \in ApiGen)
  <2>1. CASE i = Len(fr2)
    BY <2>1
  <2>2. CASE i \in 1 .. Len(fr) /\ fr2[i] = fr[i]
    <3>1. fr[i].gen \in Gen \ {g}
      BY <2>2, <1>3, <1>5, GenOfFrame
    <3> QED
      BY <2>2, <3>1, <1>5 DEF Placed, SameStates
  <2> QED
    BY <2>1, <2>2, <1>2
<1>6. ASSUME NEW h \in Gen, gn2[h].state = "running" PROVE \E i \in 1 .. Len(fr2) : fr2[i].gen = h
  <2>1. CASE h = g
    <3>1. Len(fr2) \in 1 .. Len(fr2)
      OBVIOUS
    <3> QED
      BY <2>1, <3>1
  <2>2. CASE h # g
    BY <2>2, <1>1, <1>6 DEF Placed, SameStates
  <2> QED
    BY <2>1, <2>2
<1> QED
  BY <1>4, <1>5, <1>6 DEF Placed

(* The topmost frame is left, the generator in it no longer runs.          *)
LEMMA PlacedPop ==
  ASSUME NEW fr \in Seq(FrameT), NEW fr2 \in Seq(FrameT), NEW gn, NEW gn2,
         Placed(fr, gn), Len(fr) > 0, Len(fr2) = Len(fr) - 1, Agree(fr, fr2, 1, Len(fr2)),
         SameStates(gn, gn2, fr[Len(fr)].gen),
         fr[Len(fr)].gen # None => gn2[fr[Len(fr)].gen].state # "running"
  PROVE  Placed(fr2, gn2)
<1> DEFINE g == fr[Len(fr)].gen
<1>1. \A i \in 1 .. Len(fr2) : fr2[i] = fr[i] /\ i \in 1 .. Len(fr) /\ i # Len(fr)
  BY DEF Agree
<1>2. Len(fr) \in 1 .. Len(fr) /\ \A i \in 1 .. Len(fr) : i = Len(fr) \/ i \in 1 .. Len(fr2)
  OBVIOUS
<1>3. \A i \in 1 .. Len(fr2) : fr[i].gen # None => fr[i].gen # g
  BY <1>1, <1>2 DEF Placed
<1>4. \A i, j \in 1 .. Len(fr2) : fr2[i].gen = fr2[j].gen /\ fr2[i].gen # None => i = j
  BY <1>1 DEF Placed
<1>5. ASSUME NEW i \in 1 .. Len(fr2), fr2[i].gen # None
      PROVE  gn2[fr2[i].gen].state = "running" /\ (fr2[i].root => fr2[i].gen \in ApiGen)
  <2>1. fr[i].gen \in Gen \ {g} /\ fr2[i] = fr[i] /\ i \in 1 .. Len(fr)
    BY <1>1, <1>3, <1>5, GenOfFrame
  <2>2. gn2[fr[i].gen].state = gn[fr[i].gen].state
    BY <2>1 DEF SameStates
  <2> QED
    BY <2>1, <2>2, <1>5 DEF Placed
<1>6. ASSUME NEW h \in Gen, gn2[h].state = "running" PROVE \E i \in 1 .. Len(fr2) : fr2[i].gen = h
  <2>1. h # g
    <3>1. h # None
      BY NoneIsNoGenerator
    <3> QED
      BY <3>1, <1>6
  <2>2. gn[h].state = "running"
    BY <2>1, <1>6 DEF SameStates
  <2>3. PICK i \in 1 .. Len(fr) : fr[i].gen = h
    BY <2>2 DEF Placed
  <2> QED
    BY <2>1, <2>3, <1>1, <1>2
<1> QED
  BY <1>4, <1>5, <1>6 DEF Placed

-----------------------------------------------------------------------------
(* The operations on the VM, and what they make of its parts.              *)

LEMMA AppendFacts ==
  ASSUME NEW S, NEW q \in Seq(S), NEW e \in S
  PROVE  /\ Append(q, e) \in Seq(S) /\ Len(Append(q, e)) = Len(q) + 1
         /\ Append(q, e)[Len(q) + 1] = e
         /\ Agree(q, Append(q, e), 1, Len(q))
BY DEF Agree

LEMMA FrontFacts ==
  ASSUME NEW S, NEW q \in Seq(S), Len(q) > 0
  PROVE  /\ Front(q) \in Seq(S) /\ Len(Front(q)) = Len(q) - 1
         /\ Agree(q, Front(q), 1, Len(q) - 1)
<1> DEFINE n == Len(q) - 1
<1>1. n \in Nat /\ \A i \in 1 .. n : q[i] \in S
  OBVIOUS
<1> HIDE DEF n
<1>2. /\ SubSeq(q, 1, n) \in Seq(S)
      /\ Len(SubSeq(q, 1, n)) = IF 1 <= n THEN n - 1 + 1 ELSE 0
      /\ \A i \in 1 .. n - 1 + 1 : SubSeq(q, 1, n)[i] = q[1 + i - 1]
  BY <1>1, SubSeqProperties
<1>3. Len(SubSeq(q, 1, n)) = n
  BY <1>1, <1>2
<1>4. \A i \in 1 .. n : SubSeq(q, 1, n)[i] = q[i]
  BY <1>1, <1>2
<1>5. Front(q) = SubSeq(q, 1, n)
  BY DEF Front, n
<1>6. Agree(q, Front(q), 1, n)
  BY <1>4, <1>5 DEF Agree
<1> QED
  BY <1>2, <1>3, <1>5, <1>6 DEF n

LEMMA ExceptTop ==
  ASSUME NEW S, NEW q \in Seq(S), Len(q) > 0, NEW e \in S
  PROVE  /\ [q EXCEPT ![Len(q)] = e] \in Seq(S)
         /\ Len([q EXCEPT ![Len(q)] = e]) = Len(q)
         /\ [q EXCEPT ![Len(q)] = e][Len(q)] = e
         /\ Agree(q, [q EXCEPT ![Len(q)] = e], 1, Len(q) - 1)
<1>1. Len(q) \in 1 .. Len(q)
  OBVIOUS
<1>2. /\ [q EXCEPT ![Len(q)] = e] \in Seq(S)
      /\ Len([q EXCEPT ![Len(q)] = e]) = Len(q)
      /\ \A j \in 1 .. Len(q) : [q EXCEPT ![Len(q)] = e][j] = IF j = Len(q) THEN e ELSE q[j]
  BY <1>1, ExceptSeq
<1>3. [q EXCEPT ![Len(q)] = e][Len(q)] = e
  BY <1>1, <1>2
<1>4. \A j \in 1 .. Len(q) - 1 : [q EXCEPT ![Len(q)] = e][j] = q[j]
  OBVIOUS
<1> QED
  BY <1>2, <1>3, <1>4 DEF Agree

LEMMA VMParts ==
  ASSUME NEW fr, NEW tr, NEW ac
  PROVE  /\ VMOf(fr, tr, ac).frames = fr /\ VMOf(fr, tr, ac).etraps = tr
         /\ VMOf(fr, tr, ac).acts = ac /\ VMOf(fr, tr, ac).base = Len(fr)
         /\ VMOf(fr, tr, ac).nnative = Len(ac)
BY DEF VMOf

VMSet(fr, tr, ac) ==
    [frames : {fr}, base : {Len(fr)}, etraps : {tr}, acts : {ac}, nnative : {Len(ac)}]

LEMMA VMIs ==
  ASSUME NEW fr, NEW tr, NEW ac, NEW w \in VMSet(fr, tr, ac)
  PROVE  w = VMOf(fr, tr, ac)
BY DEF VMOf, VMSet

LEMMA VMFrames ==
  ASSUME NEW fr \in Seq(FrameT), NEW tr, NEW ac, NEW f \in FrameT
  PROVE  /\ EnterFrame(VMOf(fr, tr, ac), f) = VMOf(Append(fr, f), tr, ac)
         /\ Len(fr) > 0 => LeaveFrame(VMOf(fr, tr, ac)) = VMOf(Front(fr), tr, ac)
<1>1. Len(Append(fr, f)) = Len(fr) + 1 /\ (Len(fr) > 0 => Len(Front(fr)) = Len(fr) - 1)
  BY AppendFacts, FrontFacts
<1>2. EnterFrame(VMOf(fr, tr, ac), f) = VMOf(Append(fr, f), tr, ac)
  <2>1. EnterFrame(VMOf(fr, tr, ac), f) \in VMSet(Append(fr, f), tr, ac)
    BY <1>1 DEF EnterFrame, VMOf, VMSet
  <2> QED
    BY <2>1, VMIs
<1>3. ASSUME Len(fr) > 0 PROVE LeaveFrame(VMOf(fr, tr, ac)) = VMOf(Front(fr), tr, ac)
  <2>1. LeaveFrame(VMOf(fr, tr, ac)) \in VMSet(Front(fr), tr, ac)
    BY <1>1, <1>3 DEF LeaveFrame, VMOf, VMSet
  <2> QED
    BY <2>1, VMIs
<1> QED
  BY <1>2, <1>3

LEMMA VMActs ==
  ASSUME NEW fr, NEW tr, NEW ac \in Seq(ActT), NEW a \in ActT
  PROVE  /\ Enter(VMOf(fr, tr, ac), a) = VMOf(fr, tr, Append(ac, a))
         /\ Len(ac) > 0 => Leave(VMOf(fr, tr, ac)) = VMOf(fr, tr, Front(ac))
<1>1. Len(Append(ac, a)) = Len(ac) + 1 /\ (Len(ac) > 0 => Len(Front(ac)) = Len(ac) - 1)
  BY AppendFacts, FrontFacts
<1>2. Enter(VMOf(fr, tr, ac), a) = VMOf(fr, tr, Append(ac, a))
  <2>1. Enter(VMOf(fr, tr, ac), a) \in VMSet(fr, tr, Append(ac, a))
    BY <1>1 DEF Enter, VMOf, VMSet
  <2> QED
    BY <2>1, VMIs
<1>3. ASSUME Len(ac) > 0 PROVE Leave(VMOf(fr, tr, ac)) = VMOf(fr, tr, Front(ac))
  <2>1. Leave(VMOf(fr, tr, ac)) \in VMSet(fr, tr, Front(ac))
    BY <1>1, <1>3 DEF Leave, VMOf, VMSet
  <2> QED
    BY <2>1, VMIs
<1> QED
  BY <1>2, <1>3

LEMMA ActTypes ==
  ASSUME NEW a \in ActT
  PROVE  /\ a.kind \in {"exec", "native"} /\ a.traps \in Int /\ a.raise \in BOOLEAN
         /\ a.throws \in BOOLEAN
         /\ \A t \in BOOLEAN : [a EXCEPT !.throws = t] \in ActT
                               /\ [a EXCEPT !.throws = t].kind = a.kind
                               /\ [a EXCEPT !.throws = t].why = a.why
                               /\ [a EXCEPT !.throws = t].traps = a.traps
         /\ \A d \in Int : [a EXCEPT !.traps = d] \in ActT
                           /\ [a EXCEPT !.traps = d].kind = a.kind
                           /\ [a EXCEPT !.traps = d].why = a.why
                           /\ [a EXCEPT !.traps = d].traps = d
BY DEF ActT

LEMMA NewParts ==
  ASSUME NEW raise \in BOOLEAN,
         NEW why \in {"host", "script", "native", "metamethod", "handler"}, NEW n \in Int,
         NEW kind \in {"exec", "native"}
  PROVE  /\ Activation(kind, n, raise, why) \in ActT
         /\ Activation(kind, n, raise, why).kind = kind
         /\ Activation(kind, n, raise, why).traps = n
         /\ Activation(kind, n, raise, why).why = why
BY DEF Activation, ActT

LEMMA NewFrames ==
  ASSUME NEW g \in Gen \cup {None}, NEW n \in 0 .. MaxTraps, NEW root \in BOOLEAN,
         NEW kind \in {"script", "native"}
  PROVE  /\ Frame(kind, g, n, root) \in FrameT
         /\ Frame(kind, g, n, root).kind = kind /\ Frame(kind, g, n, root).gen = g
         /\ Frame(kind, g, n, root).etraps = n /\ Frame(kind, g, n, root).root = root
BY DEF Frame, FrameT

LEMMA GoodVM ==
  ASSUME NEW fr, NEW tr, NEW ac, NEW s, NEW gn,
         Sound(fr, tr, ac, s), Placed(fr, gn), Len(ac) <= MaxNative
  PROVE  Good(VMOf(fr, tr, ac), s, gn)
BY VMParts DEF Good

LEMMA ExecuteGood ==
  ASSUME NEW fr, NEW tr, NEW ac, NEW s, NEW gn,
         Sound(fr, tr, ac, s), Placed(fr, gn), Len(ac) + 1 <= MaxNative,
         NEW raise \in BOOLEAN,
         NEW why \in {"host", "script", "native", "metamethod", "handler"},
         why \in {"metamethod", "handler"} => Len(ac) > 0 /\ ac[Len(ac)].kind = "exec",
         why = "handler" => ac[Len(ac)].traps = 0
  PROVE  Good(Execute(VMOf(fr, tr, ac), raise, why), s, gn)
<1>1. fr \in Seq(FrameT) /\ tr \in Seq(TrapT) /\ ac \in Seq(ActT)
  BY Opened
<1> DEFINE f == Frame("script", None, 0, TRUE)
           a == Activation("exec", 0, raise, why)
           fr2 == Append(fr, f)
           ac2 == Append(ac, a)
<1>2. f \in FrameT /\ f.kind = "script" /\ f.gen = None /\ f.etraps = 0 /\ f.root
  <2>1. 0 \in 0 .. MaxTraps
    BY Bounds
  <2> QED
    BY <2>1 DEF Frame, FrameT
<1>3. a \in ActT /\ a.kind = "exec" /\ a.traps = 0 /\ a.why = why
  BY NewParts
<1>4. Execute(VMOf(fr, tr, ac), raise, why) = VMOf(fr2, tr, ac2)
  <2>1. Enter(VMOf(fr, tr, ac), a) = VMOf(fr, tr, ac2)
    BY <1>1, <1>3, VMActs
  <2>2. EnterFrame(VMOf(fr, tr, ac2), f) = VMOf(fr2, tr, ac2)
    BY <1>1, <1>2, VMFrames
  <2> QED
    BY <2>1, <2>2 DEF Execute
<1> HIDE DEF f, a
<1>5. fr2 \in Seq(FrameT) /\ Len(fr2) = Len(fr) + 1 /\ fr2[Len(fr2)] = f
      /\ Agree(fr, fr2, 1, Len(fr))
  BY <1>1, <1>2, AppendFacts
<1>6. ac2 \in Seq(ActT) /\ Len(ac2) = Len(ac) + 1 /\ ac2[Len(ac2)] = a
      /\ Agree(ac, ac2, 1, Len(ac))
  BY <1>1, <1>3, AppendFacts
<1> HIDE DEF fr2, ac2
<1>7. OnTop(tr, tr, Len(fr2), 0)
  BY <1>1 DEF OnTop
<1>8. Reason(ac2, Len(ac2))
  <2>1. Len(ac) > 0 => ac2[Len(ac2) - 1] = ac[Len(ac)] /\ Len(ac2) > 1
    BY <1>1, <1>6 DEF Agree
  <2> QED
    BY <2>1, <1>3, <1>6 DEF Reason
<1>9. Sound(fr2, tr, ac2, s)
  BY <1>1, <1>2, <1>3, <1>5, <1>6, <1>7, <1>8, ExecEntered
<1>10. Placed(fr2, gn)
  BY <1>1, <1>2, <1>5, PlacedPush
<1> QED
  BY <1>4, <1>6, <1>9, <1>10, GoodVM

(* Throw leaves a sound state, with an Execute of the handler or not.      *)
LEMMA ThrowGood ==
  ASSUME NEW fr, NEW tr, NEW ac, NEW s, NEW gn,
         Sound(fr, tr, ac, s), Placed(fr, gn), Len(ac) <= MaxNative,
         Len(ac) > 0, ac[Len(ac)].kind = "exec"
  PROVE  Good(Throw(VMOf(fr, tr, ac)), s, gn)
<1>1. fr \in Seq(FrameT) /\ tr \in Seq(TrapT) /\ ac \in Seq(ActT)
  BY Opened
<1> DEFINE a == [ac[Len(ac)] EXCEPT !.throws = TRUE]
           ac2 == [ac EXCEPT ![Len(ac)] = a]
           u == VMOf(fr, tr, ac2)
<1>2. ac[Len(ac)] \in ActT
  BY <1>1
<1>3. a \in ActT /\ a.kind = ac[Len(ac)].kind /\ a.why = ac[Len(ac)].why
      /\ a.traps = ac[Len(ac)].traps /\ a.traps \in Int
  BY <1>2, ActTypes
<1>a. a = [ac[Len(ac)] EXCEPT !.throws = TRUE] /\ ac2 = [ac EXCEPT ![Len(ac)] = a]
  OBVIOUS
<1> HIDE DEF a
<1>4. \A w : w.acts = ac =>
        [w EXCEPT !.acts[Len(w.acts)].throws = TRUE] = [w EXCEPT !.acts = ac2]
  BY <1>1, <1>a
<1>5. ac2 \in Seq(ActT) /\ Len(ac2) = Len(ac) /\ ac2[Len(ac)] = a
      /\ Agree(ac, ac2, 1, Len(ac) - 1)
  BY <1>1, <1>3, ExceptTop
<1>6. [VMOf(fr, tr, ac) EXCEPT !.acts = ac2] = u
  <2>1. [VMOf(fr, tr, ac) EXCEPT !.acts = ac2] \in VMSet(fr, tr, ac2)
    BY <1>5 DEF VMOf, VMSet
  <2> QED
    BY <2>1, VMIs
<1>7. Throw(VMOf(fr, tr, ac)) =
        IF ac[Len(ac)].traps = 0 /\ ac[Len(ac)].raise /\ Len(ac) + 1 <= MaxNative
        THEN Execute(u, FALSE, "handler") ELSE u
  <2> DEFINE w == VMOf(fr, tr, ac)
  <2>1. w.acts = ac /\ w.nnative = Len(ac) /\ [w EXCEPT !.acts = ac2] = u
    BY <1>6, VMParts
  <2> HIDE DEF w, u, ac2
  <2>2. [w EXCEPT !.acts[Len(w.acts)].throws = TRUE] = u
    BY <1>4, <2>1
  <2>3. Top(w) = ac[Len(ac)] /\ (CanNest(w) <=> Len(ac) + 1 <= MaxNative)
    BY <2>1 DEF Top, Last, CanNest
  <2>4. Throw(w) = IF Top(w).traps = 0 /\ Top(w).raise /\ CanNest(w)
                   THEN Execute(u, FALSE, "handler") ELSE u
    BY <2>2 DEF Throw
  <2> QED
    BY <2>3, <2>4 DEF w
<1> HIDE DEF a, ac2, u
<1>8. Retop(ac, ac2, 0)
  BY <1>3, <1>5 DEF Retop, SameActs, Agree
<1>9. Sound(fr, tr, ac2, s)
  BY <1>5, <1>8, Thrown
<1>10. CASE ac[Len(ac)].traps = 0 /\ ac[Len(ac)].raise /\ Len(ac) + 1 <= MaxNative
  <2>1. Len(ac2) > 0 /\ ac2[Len(ac2)].kind = "exec" /\ ac2[Len(ac2)].traps = 0
        /\ Len(ac2) + 1 <= MaxNative
    BY <1>3, <1>5, <1>10
  <2>2. Good(Execute(u, FALSE, "handler"), s, gn)
    BY <2>1, <1>9, ExecuteGood DEF u
  <2> QED
    BY <2>2, <1>7, <1>10
<1>11. CASE ~(ac[Len(ac)].traps = 0 /\ ac[Len(ac)].raise /\ Len(ac) + 1 <= MaxNative)
  <2>1. Good(u, s, gn)
    BY <1>5, <1>9, GoodVM DEF u
  <2> QED
    BY <2>1, <1>7, <1>11
<1> QED
  BY <1>10, <1>11

(* An Execute returns that has left its root already.                      *)
LEMMA ReturnsGood ==
  ASSUME NEW fr \in Seq(FrameT), NEW tr \in Seq(TrapT), NEW ac \in Seq(ActT), NEW s, NEW gn,
         Len(ac) > 0, Len(ac) <= MaxNative, Reason(ac, Len(ac)),
         Sound(fr, tr, Front(ac), s), Placed(fr, gn), NEW ok \in BOOLEAN
  PROVE  Good(ExecuteReturns(VMOf(fr, tr, ac), ok), s, gn)
<1>1. Front(ac) \in Seq(ActT) /\ Len(Front(ac)) = Len(ac) - 1
      /\ Agree(ac, Front(ac), 1, Len(ac) - 1)
  BY FrontFacts
<1>2. ac[Len(ac)] \in ActT
  OBVIOUS
<1>3. Leave(VMOf(fr, tr, ac)) = VMOf(fr, tr, Front(ac))
  BY <1>2, VMActs
<1>4. Top(VMOf(fr, tr, ac)) = ac[Len(ac)]
  BY VMParts DEF Top, Last
<1>5. CASE ~ok /\ ac[Len(ac)].why = "metamethod"
  <2>1. Len(ac) > 1 /\ ac[Len(ac) - 1].kind = "exec"
    BY <1>5 DEF Reason
  <2>2. Len(Front(ac)) > 0 /\ Front(ac)[Len(Front(ac))].kind = "exec"
        /\ Len(Front(ac)) <= MaxNative
    BY <1>1, <2>1, Bounds DEF Agree
  <2>3. Good(Throw(VMOf(fr, tr, Front(ac))), s, gn)
    BY <2>2, ThrowGood
  <2> QED
    BY <1>3, <1>4, <1>5, <2>3 DEF ExecuteReturns
<1>6. CASE ~(~ok /\ ac[Len(ac)].why = "metamethod")
  <2>1. Len(Front(ac)) <= MaxNative
    BY <1>1, Bounds
  <2>2. Good(VMOf(fr, tr, Front(ac)), s, gn)
    BY <2>1, GoodVM
  <2> QED
    BY <1>3, <1>4, <1>6, <2>2 DEF ExecuteReturns
<1> QED
  BY <1>5, <1>6

-----------------------------------------------------------------------------
(* The actions.                                                            *)

(* The VM with its parts named.                                            *)
State(fr, tr, ac) ==
    /\ v = VMOf(fr, tr, ac) /\ Len(ac) <= MaxNative
    /\ Sound(fr, tr, ac, susp) /\ Placed(fr, gens)
    /\ fr \in Seq(FrameT) /\ tr \in Seq(TrapT) /\ ac \in Seq(ActT)

LEMMA Named ==
  ASSUME IInv
  PROVE  State(v.frames, v.etraps, v.acts)
BY Opened DEF IInv, Good, State

LEMMA StateParts ==
  ASSUME NEW fr, NEW tr, NEW ac, State(fr, tr, ac)
  PROVE  /\ v.frames = fr /\ v.etraps = tr /\ v.acts = ac
         /\ v.base = Len(fr) /\ v.nnative = Len(ac)
         /\ Ci(v) = fr[Len(fr)] /\ Top(v) = ac[Len(ac)]
         /\ Idle <=> Len(ac) = 0
         /\ InScript \/ InTrap => Len(ac) > 0 /\ ac[Len(ac)].kind = "exec"
         /\ InNative => Len(ac) > 0 /\ ac[Len(ac)].kind = "native"
         /\ CanNest(v) <=> Len(ac) + 1 <= MaxNative
<1>1. /\ v.frames = fr /\ v.etraps = tr /\ v.acts = ac
      /\ v.base = Len(fr) /\ v.nnative = Len(ac)
  BY VMParts DEF State
<1>2. Ci(v) = fr[Len(fr)] /\ Top(v) = ac[Len(ac)]
  BY <1>1 DEF Ci, Top, Last
<1>3. Idle <=> Len(ac) = 0
  <2>1. ac \in Seq(ActT)
    BY DEF State
  <2>2. ac = <<>> <=> Len(ac) = 0
    BY <2>1
  <2> QED
    BY <2>2, <1>1 DEF Idle
<1>4. ~Idle => Len(ac) > 0
  <2>1. Len(ac) \in Nat
    BY DEF State
  <2> QED
    BY <2>1, <1>3
<1> QED
  BY <1>1, <1>2, <1>3, <1>4 DEF InScript, InTrap, InNative, CanNest

(* The topmost frame has e traps now.                                      *)
TopCounts(fr, fr2, e) ==
    fr2 = [fr EXCEPT ![Len(fr)] = [fr[Len(fr)] EXCEPT !.etraps = e]]

(* The e topmost traps of a frame take the place of n.                     *)
TrapsFor(tr, tr2, b, n, e) ==
    /\ Len(tr2) = (Len(tr) - n) + e
    /\ Agree(tr, tr2, 1, Len(tr) - n)
    /\ \A k \in 1 .. e : tr2[(Len(tr) - n) + k] = [base |-> b, nest |-> k]

(* The n topmost traps are those of one frame.                             *)
TopTraps(tr, b, n) ==
    \A k \in 1 .. n : tr[(Len(tr) - n) + k] = [base |-> b, nest |-> k]

(* The topmost frame.                                                      *)
LEMMA TopFrame ==
  ASSUME NEW fr, NEW tr, NEW ac, NEW s, Sound(fr, tr, ac, s), Len(ac) > 0
  PROVE  /\ Len(fr) > 0 /\ fr[Len(fr)] \in FrameT /\ ac[Len(ac)] \in ActT
         /\ fr[Len(fr)].etraps \in Nat /\ fr[Len(fr)].etraps <= Len(tr)
         /\ fr[Len(fr)].etraps <= MaxTraps
         /\ TopTraps(tr, Len(fr), fr[Len(fr)].etraps)
         /\ Reason(ac, Len(ac))
         /\ ac[Len(ac)].kind = "exec" => /\ fr[Len(fr)].kind = "script"
                                         /\ Len(fr) = 1 => fr[Len(fr)].root
         /\ ac[Len(ac)].kind = "native" =>
               /\ Len(ac) > 1 /\ ac[Len(ac) - 1].kind = "exec"
               /\ Len(fr) > 1 /\ fr[Len(fr)] = Frame("native", None, 0, FALSE)
<1>1. fr \in Seq(FrameT) /\ tr \in Seq(TrapT) /\ ac \in Seq(ActT) /\ Reasons(ac)
  BY Opened
<1>2. PICK off \in [0 .. Len(fr) -> Nat], seg \in [0 .. Len(ac) -> Nat] :
         SoundBy(fr, tr, ac, s, off, seg)
  BY Opened
<1>3. ac[Len(ac)] \in ActT /\ ac[Len(ac)].kind \in {"exec", "native"} /\ Reason(ac, Len(ac))
  <2>1. Len(ac) \in 1 .. Len(ac)
    BY <1>1
  <2>2. ac[Len(ac)] \in ActT
    BY <2>1, <1>1
  <2> QED
    BY <2>1, <2>2, <1>1, ActTypes DEF Reasons
<1>4. ac[Len(ac)].kind = "exec" =>
        Len(fr) > 0 /\ fr[Len(fr)].kind = "script" /\ (Len(fr) = 1 => fr[Len(fr)].root)
  <2> SUFFICES ASSUME ac[Len(ac)].kind = "exec"
               PROVE  Len(fr) > 0 /\ fr[Len(fr)].kind = "script"
                      /\ (Len(fr) = 1 => fr[Len(fr)].root)
    OBVIOUS
  <2> DEFINE b == seg[Len(ac) - 1]
  <2>1. b \in Nat /\ b < Len(fr) /\ OneRoot(fr, b + 1, Len(fr)) /\ Len(fr) > 0
    BY <1>1, <1>2, TopIsExec
  <2> HIDE DEF b
  <2>2. Len(fr) \in b + 1 .. Len(fr) /\ (Len(fr) = 1 => Len(fr) = b + 1)
    <3>1. Len(fr) \in Nat
      BY <1>1
    <3>2. Len(fr) \in b + 1 .. Len(fr)
      BY <2>1, <3>1
    <3>3. ASSUME Len(fr) = 1 PROVE Len(fr) = b + 1
      BY <2>1, <3>1, <3>3
    <3> QED
      BY <3>2, <3>3
  <2> QED
    BY <2>1, <2>2 DEF OneRoot
<1>5. ac[Len(ac)].kind = "native" =>
        /\ Len(ac) > 1 /\ ac[Len(ac) - 1].kind = "exec"
        /\ Len(fr) > 1 /\ fr[Len(fr)] = Frame("native", None, 0, FALSE)
  BY <1>1, <1>2, TopIsNative
<1>6. Len(fr) > 0
  BY <1>1, <1>3, <1>4, <1>5, SMTT(30)
<1>7. Len(fr) \in 1 .. Len(fr)
  BY <1>1, <1>6
<1>8. fr[Len(fr)] \in FrameT /\ fr[Len(fr)].etraps \in Nat /\ fr[Len(fr)].etraps <= MaxTraps
  BY <1>1, <1>7, FrameTypes
<1>9. Laid(fr, tr, off) /\ off[Len(fr) - 1] = Len(tr) - fr[Len(fr)].etraps
      /\ off[Len(fr) - 1] \in Nat
  BY <1>1, <1>2, <1>6, OffTop
<1>10. fr[Len(fr)].etraps <= Len(tr)
  BY <1>1, <1>8, <1>9
<1>11. ASSUME NEW k \in 1 .. fr[Len(fr)].etraps
       PROVE  tr[(Len(tr) - fr[Len(fr)].etraps) + k] = [base |-> Len(fr), nest |-> k]
  <2>1. tr[off[Len(fr) - 1] + k] = [base |-> Len(fr), nest |-> k]
    BY <1>1, <1>7, <1>9, LaidBelow
  <2> QED
    BY <2>1, <1>9
<1>12. TopTraps(tr, Len(fr), fr[Len(fr)].etraps)
  BY <1>11 DEF TopTraps
<1> QED
  BY <1>3, <1>4, <1>5, <1>6, <1>8, <1>10, <1>12

LEMMA RetopSame ==
  ASSUME NEW ac \in Seq(ActT), Len(ac) > 0
  PROVE  Retop(ac, ac, 0)
<1>1. ac[Len(ac)].traps \in Int
  <2>1. ac[Len(ac)] \in ActT
    OBVIOUS
  <2> QED
    BY <2>1, ActTypes
<1> QED
  BY <1>1 DEF Retop, SameActs

(* The topmost activation counts d more traps.                             *)
LEMMA RetopTraps ==
  ASSUME NEW ac \in Seq(ActT), Len(ac) > 0, NEW d \in Int, NEW ac2,
         ac2 = [ac EXCEPT ![Len(ac)] = [ac[Len(ac)] EXCEPT !.traps = ac[Len(ac)].traps + d]]
  PROVE  /\ ac2 \in Seq(ActT) /\ Retop(ac, ac2, d) /\ Agree(ac, ac2, 1, Len(ac) - 1)
         /\ Len(ac2) = Len(ac)
<1> DEFINE a == [ac[Len(ac)] EXCEPT !.traps = ac[Len(ac)].traps + d]
<1>1. ac[Len(ac)] \in ActT
  OBVIOUS
<1>2. ac[Len(ac)].traps + d \in Int
  BY <1>1, ActTypes
<1>3. a \in ActT /\ a.kind = ac[Len(ac)].kind /\ a.why = ac[Len(ac)].why
      /\ a.traps = ac[Len(ac)].traps + d
  BY <1>1, <1>2, ActTypes
<1>4. ac2 = [ac EXCEPT ![Len(ac)] = a]
  OBVIOUS
<1> HIDE DEF a
<1>5. ac2 \in Seq(ActT) /\ Len(ac2) = Len(ac) /\ ac2[Len(ac)] = a
      /\ Agree(ac, ac2, 1, Len(ac) - 1)
  <2>1. /\ [ac EXCEPT ![Len(ac)] = a] \in Seq(ActT)
        /\ Len([ac EXCEPT ![Len(ac)] = a]) = Len(ac)
        /\ [ac EXCEPT ![Len(ac)] = a][Len(ac)] = a
        /\ Agree(ac, [ac EXCEPT ![Len(ac)] = a], 1, Len(ac) - 1)
    BY <1>3, ExceptTop
  <2> QED
    BY <2>1, <1>4
<1>6. Retop(ac, ac2, d)
  BY <1>3, <1>5 DEF Retop, SameActs, Agree
<1> QED
  BY <1>5, <1>6

(* All but the n topmost traps.                                            *)
Lowered(tr, tr2, n) ==
    tr2 \in Seq(TrapT) /\ Len(tr2) = Len(tr) - n /\ Agree(tr, tr2, 1, Len(tr) - n)

(* The lower part of the trap stack.                                       *)
LEMMA LowerTraps ==
  ASSUME NEW tr \in Seq(TrapT), NEW n \in 0 .. Len(tr)
  PROVE  /\ SubSeq(tr, 1, n) \in Seq(TrapT) /\ Len(SubSeq(tr, 1, n)) = n
         /\ Agree(tr, SubSeq(tr, 1, n), 1, n)
<1>1. n \in Nat /\ \A i \in 1 .. n : tr[i] \in TrapT
  OBVIOUS
<1>2. /\ SubSeq(tr, 1, n) \in Seq(TrapT)
      /\ Len(SubSeq(tr, 1, n)) = IF 1 <= n THEN n - 1 + 1 ELSE 0
      /\ \A i \in 1 .. n - 1 + 1 : SubSeq(tr, 1, n)[i] = tr[1 + i - 1]
  BY <1>1, SubSeqProperties
<1>3. Len(SubSeq(tr, 1, n)) = n
  BY <1>1, <1>2
<1>4. \A i \in 1 .. n : SubSeq(tr, 1, n)[i] = tr[i]
  BY <1>1, <1>2
<1> QED
  BY <1>2, <1>3, <1>4 DEF Agree

(* The topmost frame was left, its Execute returns if it was a root.       *)
LEMMA LeaveGood ==
  ASSUME NEW fr \in Seq(FrameT), NEW tr \in Seq(TrapT), NEW ac \in Seq(ActT),
         NEW s, NEW gn, NEW gn2,
         Sound(fr, tr, ac, s), Placed(fr, gn), Len(ac) <= MaxNative,
         Len(ac) > 0, ac[Len(ac)].kind = "exec",
         NEW tr2 \in Seq(TrapT), NEW ac2 \in Seq(ActT),
         Len(tr2) = Len(tr) - fr[Len(fr)].etraps, Agree(tr, tr2, 1, Len(tr2)),
         Retop(ac, ac2, 0 - fr[Len(fr)].etraps), Agree(ac, ac2, 1, Len(ac) - 1),
         SameStates(gn, gn2, fr[Len(fr)].gen),
         fr[Len(fr)].gen # None => gn2[fr[Len(fr)].gen].state # "running",
         NEW ok \in BOOLEAN
  PROVE  Good(IF fr[Len(fr)].root THEN ExecuteReturns(VMOf(Front(fr), tr2, ac2), ok)
              ELSE VMOf(Front(fr), tr2, ac2), s, gn2)
<1>1. Len(fr) > 0 /\ Reason(ac, Len(ac)) /\ fr[Len(fr)].root \in BOOLEAN
  BY TopFrame DEF FrameT
<1>2. Front(fr) \in Seq(FrameT) /\ Len(Front(fr)) = Len(fr) - 1
      /\ Agree(fr, Front(fr), 1, Len(Front(fr)))
  BY <1>1, FrontFacts
<1>3. Placed(Front(fr), gn2)
  BY <1>1, <1>2, PlacedPop
<1>4. Len(ac2) = Len(ac) /\ Reason(ac2, Len(ac2))
  BY <1>1, ReasonKept, FrameTypes
<1>5. CASE fr[Len(fr)].root
  <2>1. Front(ac2) \in Seq(ActT) /\ Len(Front(ac2)) = Len(ac2) - 1
        /\ Agree(ac2, Front(ac2), 1, Len(ac2) - 1)
    BY <1>4, FrontFacts
  <2>2. Agree(ac, Front(ac2), 1, Len(Front(ac2)))
    BY <2>1, <1>4 DEF Agree
  <2>3. Sound(Front(fr), tr2, Front(ac2), s)
    BY <1>2, <1>4, <1>5, <2>1, <2>2, ActivationLeft
  <2>4. Good(ExecuteReturns(VMOf(Front(fr), tr2, ac2), ok), s, gn2)
    BY <1>2, <1>3, <1>4, <2>3, ReturnsGood
  <2> QED
    BY <1>5, <2>4
<1>6. CASE ~fr[Len(fr)].root
  <2>1. Sound(Front(fr), tr2, ac2, s)
    BY <1>2, <1>6, FrameLeft
  <2>2. Good(VMOf(Front(fr), tr2, ac2), s, gn2)
    BY <2>1, <1>3, <1>4, GoodVM
  <2> QED
    BY <1>6, <2>2
<1> QED
  BY <1>1, <1>5, <1>6

LEMMA ThrowNext ==
  ASSUME NEW fr, NEW tr, NEW ac, State(fr, tr, ac), InScript, v' = Throw(v)
  PROVE  Good(v', susp, gens)
<1>1. v = VMOf(fr, tr, ac) /\ Sound(fr, tr, ac, susp) /\ Placed(fr, gens)
      /\ Len(ac) <= MaxNative
  BY DEF State
<1>2. Len(ac) > 0 /\ ac[Len(ac)].kind = "exec"
  BY StateParts
<1>3. Good(Throw(VMOf(fr, tr, ac)), susp, gens)
  BY <1>1, <1>2, ThrowGood
<1> QED
  BY <1>1, <1>3

LEMMA CallScriptNext ==
  ASSUME NEW fr, NEW tr, NEW ac, State(fr, tr, ac), CallScript
  PROVE  Good(v', susp, gens)
<1> DEFINE f == Frame("script", None, 0, FALSE)
           fr2 == Append(fr, f)
<1>1. v = VMOf(fr, tr, ac) /\ Sound(fr, tr, ac, susp) /\ Placed(fr, gens)
      /\ Len(ac) <= MaxNative
      /\ fr \in Seq(FrameT) /\ tr \in Seq(TrapT) /\ ac \in Seq(ActT)
  BY DEF State
<1>2. Len(ac) > 0 /\ ac[Len(ac)].kind = "exec"
  BY StateParts DEF CallScript
<1>3. f \in FrameT /\ f.kind = "script" /\ f.gen = None /\ f.etraps = 0 /\ ~f.root
  <2>1. 0 \in 0 .. MaxTraps
    BY Bounds
  <2> QED
    BY <2>1 DEF Frame, FrameT
<1>4. v' = VMOf(fr2, tr, ac)
  <2>1. v' = EnterFrame(VMOf(fr, tr, ac), f)
    BY <1>1 DEF CallScript
  <2> HIDE DEF f
  <2> QED
    BY <2>1, <1>1, <1>3, VMFrames
<1> HIDE DEF f
<1>5. fr2 \in Seq(FrameT) /\ Len(fr2) = Len(fr) + 1 /\ fr2[Len(fr2)] = f
      /\ Agree(fr, fr2, 1, Len(fr))
  BY <1>1, <1>3, AppendFacts
<1> HIDE DEF fr2
<1>6. OnTop(tr, tr, Len(fr2), 0)
  BY <1>1 DEF OnTop
<1>7. Retop(ac, ac, 0) /\ 0 \in Int
  BY <1>1, <1>2, RetopSame
<1>8. Sound(fr2, tr, ac, susp)
  BY <1>1, <1>2, <1>3, <1>5, <1>6, <1>7, FrameEntered
<1>9. Placed(fr2, gens)
  BY <1>1, <1>3, <1>5, PlacedPush
<1> QED
  BY <1>1, <1>4, <1>8, <1>9, GoodVM

LEMMA CallNativeNext ==
  ASSUME NEW fr, NEW tr, NEW ac, State(fr, tr, ac), CallNative
  PROVE  Good(v', susp, gens)
<1> DEFINE f == Frame("native", None, 0, FALSE)
           a == Activation("native", 0, FALSE, "script")
           fr2 == Append(fr, f)
           ac2 == Append(ac, a)
<1>1. v = VMOf(fr, tr, ac) /\ Sound(fr, tr, ac, susp) /\ Placed(fr, gens)
      /\ Len(ac) <= MaxNative
      /\ fr \in Seq(FrameT) /\ tr \in Seq(TrapT) /\ ac \in Seq(ActT)
  BY DEF State
<1>2. Len(ac) > 0 /\ ac[Len(ac)].kind = "exec" /\ (CanNest(v) <=> Len(ac) + 1 <= MaxNative)
  BY StateParts DEF CallNative
<1>3. CASE ~CanNest(v)
  <2>1. v' = Throw(v) /\ InScript
    BY <1>3 DEF CallNative
  <2> QED
    BY <2>1, ThrowNext
<1>4. CASE CanNest(v)
  <2>1. f \in FrameT /\ f.gen = None
    <3>1. 0 \in 0 .. MaxTraps
      BY Bounds
    <3> QED
      BY <3>1 DEF Frame, FrameT
  <2>2. a \in ActT /\ a.kind = "native" /\ a.why = "script"
    BY DEF Activation, ActT
  <2>3. v' = Enter(EnterFrame(VMOf(fr, tr, ac), f), a)
    BY <1>1, <1>4 DEF CallNative
  <2>4. f = Frame("native", None, 0, FALSE)
    OBVIOUS
  <2> HIDE DEF f, a
  <2>5. v' = VMOf(fr2, tr, ac2)
    <3>1. EnterFrame(VMOf(fr, tr, ac), f) = VMOf(fr2, tr, ac)
      BY <1>1, <2>1, VMFrames
    <3>2. Enter(VMOf(fr2, tr, ac), a) = VMOf(fr2, tr, ac2)
      BY <1>1, <2>2, VMActs
    <3> QED
      BY <2>3, <3>1, <3>2
  <2>6. fr2 \in Seq(FrameT) /\ Len(fr2) = Len(fr) + 1 /\ fr2[Len(fr2)] = f
        /\ Agree(fr, fr2, 1, Len(fr))
    BY <1>1, <2>1, AppendFacts
  <2>7. ac2 \in Seq(ActT) /\ Len(ac2) = Len(ac) + 1 /\ ac2[Len(ac2)] = a
        /\ Agree(ac, ac2, 1, Len(ac))
    BY <1>1, <2>2, AppendFacts
  <2> HIDE DEF fr2, ac2
  <2>8. Reason(ac2, Len(ac2))
    BY <2>2, <2>7 DEF Reason
  <2>9. Sound(fr2, tr, ac2, susp)
    BY <1>1, <1>2, <2>2, <2>4, <2>6, <2>7, <2>8, NativeEntered
  <2>10. Placed(fr2, gens)
    BY <1>1, <2>1, <2>6, PlacedPush
  <2>11. Len(ac2) <= MaxNative
    BY <1>2, <1>4, <2>7
  <2> QED
    BY <2>5, <2>9, <2>10, <2>11, GoodVM
<1> QED
  BY <1>3, <1>4

LEMMA ExecuteNext ==
  ASSUME NEW fr, NEW tr, NEW ac, State(fr, tr, ac),
         \/ CallMetaMethod
         \/ \E raise \in BOOLEAN : NativeCall(raise) \/ HostCall(raise)
  PROVE  Good(v', susp, gens)
<1>1. v = VMOf(fr, tr, ac) /\ Sound(fr, tr, ac, susp) /\ Placed(fr, gens)
      /\ (CanNest(v) <=> Len(ac) + 1 <= MaxNative)
  BY StateParts DEF State
<1>2. CASE CallMetaMethod
  <2>1. Len(ac) > 0 /\ ac[Len(ac)].kind = "exec" /\ InScript
    BY <1>2, StateParts DEF CallMetaMethod
  <2>2. CASE ~CanNest(v)
    <3>1. v' = Throw(v)
      BY <1>2, <2>2 DEF CallMetaMethod
    <3> QED
      BY <2>1, <3>1, ThrowNext
  <2>3. CASE CanNest(v)
    <3>1. v' = Execute(VMOf(fr, tr, ac), FALSE, "metamethod")
      BY <1>1, <1>2, <2>3 DEF CallMetaMethod
    <3>2. Good(Execute(VMOf(fr, tr, ac), FALSE, "metamethod"), susp, gens)
      BY <1>1, <2>1, <2>3, ExecuteGood
    <3> QED
      BY <3>1, <3>2
  <2> QED
    BY <2>2, <2>3
<1>3. ASSUME NEW raise \in BOOLEAN, NativeCall(raise) PROVE Good(v', susp, gens)
  <2>1. v' = Execute(VMOf(fr, tr, ac), raise, "native") /\ CanNest(v)
    BY <1>1, <1>3 DEF NativeCall
  <2>2. Good(Execute(VMOf(fr, tr, ac), raise, "native"), susp, gens)
    BY <1>1, <2>1, ExecuteGood
  <2> QED
    BY <2>1, <2>2
<1>4. ASSUME NEW raise \in BOOLEAN, HostCall(raise) PROVE Good(v', susp, gens)
  <2>1. v' = Execute(VMOf(fr, tr, ac), raise, "host") /\ CanNest(v)
    BY <1>1, <1>4 DEF HostCall
  <2>2. Good(Execute(VMOf(fr, tr, ac), raise, "host"), susp, gens)
    BY <1>1, <2>1, ExecuteGood
  <2> QED
    BY <2>1, <2>2
<1> QED
  BY <1>2, <1>3, <1>4

LEMMA NativeLeaves ==
  ASSUME NEW fr, NEW tr, NEW ac, State(fr, tr, ac), InNative
  PROVE  /\ LeaveFrame(Leave(v)) = VMOf(Front(fr), tr, Front(ac))
         /\ Leave(v) = VMOf(fr, tr, Front(ac))
         /\ Sound(Front(fr), tr, Front(ac), susp) /\ Placed(Front(fr), gens)
         /\ Front(fr) \in Seq(FrameT) /\ Front(ac) \in Seq(ActT)
         /\ Len(Front(fr)) = Len(fr) - 1 /\ Len(Front(ac)) = Len(ac) - 1
         /\ Len(Front(fr)) > 0 /\ Len(Front(ac)) > 0 /\ Len(Front(ac)) <= MaxNative
         /\ Agree(fr, Front(fr), 1, Len(fr) - 1)
         /\ Front(ac)[Len(Front(ac))] = ac[Len(ac) - 1]
         /\ ac[Len(ac) - 1].kind = "exec"
         /\ fr[Len(fr)] = Frame("native", None, 0, FALSE)
<1>1. v = VMOf(fr, tr, ac) /\ Sound(fr, tr, ac, susp) /\ Placed(fr, gens)
      /\ Len(ac) <= MaxNative
      /\ fr \in Seq(FrameT) /\ tr \in Seq(TrapT) /\ ac \in Seq(ActT)
  BY DEF State
<1>2. Len(ac) > 0 /\ ac[Len(ac)].kind = "native"
  BY StateParts
<1>3. Len(ac) > 1 /\ ac[Len(ac) - 1].kind = "exec" /\ Len(fr) > 1
      /\ fr[Len(fr)] = Frame("native", None, 0, FALSE) /\ ac[Len(ac)] \in ActT
  BY <1>1, <1>2, TopFrame
<1>4. Front(fr) \in Seq(FrameT) /\ Len(Front(fr)) = Len(fr) - 1
      /\ Agree(fr, Front(fr), 1, Len(fr) - 1)
  BY <1>1, <1>3, FrontFacts
<1>5. Front(ac) \in Seq(ActT) /\ Len(Front(ac)) = Len(ac) - 1
      /\ Agree(ac, Front(ac), 1, Len(ac) - 1)
  BY <1>1, <1>2, FrontFacts
<1>6. Leave(v) = VMOf(fr, tr, Front(ac)) /\ LeaveFrame(Leave(v)) = VMOf(Front(fr), tr, Front(ac))
  <2>1. Leave(VMOf(fr, tr, ac)) = VMOf(fr, tr, Front(ac))
    BY <1>1, <1>2, <1>3, VMActs
  <2>2. LeaveFrame(VMOf(fr, tr, Front(ac))) = VMOf(Front(fr), tr, Front(ac))
    <3>1. fr[Len(fr)] \in FrameT /\ Len(fr) > 0
      BY <1>1, <1>2, TopFrame
    <3> QED
      BY <1>1, <3>1, VMFrames
  <2> QED
    BY <1>1, <2>1, <2>2
<1>7. fr[Len(fr)].etraps = 0 /\ fr[Len(fr)].gen = None
  BY <1>3 DEF Frame
<1>8. Sound(Front(fr), tr, Front(ac), susp)
  <2>1. Len(tr) = Len(tr) - fr[Len(fr)].etraps /\ Agree(tr, tr, 1, Len(tr))
    BY <1>1, <1>7 DEF Agree
  <2>2. Agree(fr, Front(fr), 1, Len(Front(fr))) /\ Agree(ac, Front(ac), 1, Len(Front(ac)))
    BY <1>4, <1>5
  <2>3. ~(ac[Len(ac)].kind = "exec")
    BY <1>2
  <2> QED
    BY <1>1, <1>2, <1>4, <1>5, <2>1, <2>2, <2>3, ActivationLeft
<1>9. Placed(Front(fr), gens)
  <2>1. SameStates(gens, gens, fr[Len(fr)].gen)
    BY DEF SameStates
  <2>2. Agree(fr, Front(fr), 1, Len(Front(fr))) /\ Len(fr) > 0
    BY <1>3, <1>4
  <2> QED
    BY <1>1, <1>4, <1>7, <2>1, <2>2, PlacedPop
<1>10. Front(ac)[Len(Front(ac))] = ac[Len(ac) - 1]
  <2>1. Len(ac) - 1 \in 1 .. Len(ac) - 1
    BY <1>1, <1>3
  <2> QED
    BY <2>1, <1>5 DEF Agree
<1>11. Len(Front(fr)) > 0 /\ Len(Front(ac)) > 0 /\ Len(Front(ac)) <= MaxNative
  BY <1>1, <1>3, <1>4, <1>5, Bounds
<1> QED
  BY <1>3, <1>4, <1>5, <1>6, <1>8, <1>9, <1>10, <1>11

LEMMA NativeReturnNext ==
  ASSUME NEW fr, NEW tr, NEW ac, State(fr, tr, ac), NativeReturn
  PROVE  Good(v', susp, gens)
<1>1. InNative /\ v' = LeaveFrame(Leave(v))
  BY DEF NativeReturn
<1>2. /\ v' = VMOf(Front(fr), tr, Front(ac)) /\ Len(Front(ac)) <= MaxNative
      /\ Sound(Front(fr), tr, Front(ac), susp) /\ Placed(Front(fr), gens)
  BY <1>1, NativeLeaves
<1> QED
  BY <1>2, GoodVM

LEMMA NativeFailNext ==
  ASSUME NEW fr, NEW tr, NEW ac, State(fr, tr, ac), NativeFail
  PROVE  Good(v', susp, gens)
<1>1. InNative /\ v' = Throw(LeaveFrame(Leave(v)))
  BY DEF NativeFail
<1>2. /\ v' = Throw(VMOf(Front(fr), tr, Front(ac))) /\ Len(Front(ac)) <= MaxNative
      /\ Sound(Front(fr), tr, Front(ac), susp) /\ Placed(Front(fr), gens)
      /\ Len(Front(ac)) > 0 /\ Front(ac)[Len(Front(ac))].kind = "exec"
  BY <1>1, NativeLeaves
<1>3. Good(Throw(VMOf(Front(fr), tr, Front(ac))), susp, gens)
  BY <1>2, ThrowGood
<1> QED
  BY <1>2, <1>3

LEMMA FrameIs ==
  ASSUME NEW kind, NEW g, NEW n, NEW root,
         NEW f \in [kind : {kind}, gen : {g}, etraps : {n}, root : {root}]
  PROVE  f = Frame(kind, g, n, root)
BY DEF Frame

LEMMA NativeTailCallNext ==
  ASSUME NEW fr, NEW tr, NEW ac, State(fr, tr, ac), NativeTailCall
  PROVE  Good(v', susp, gens)
<1> DEFINE f == Frame("script", None, 0, FALSE)
           fr2 == [fr EXCEPT ![Len(fr)] = f]
<1>1. InNative /\ v' = [Leave(v) EXCEPT !.frames[Len(v.frames)].kind = "script"]
      /\ v.frames = fr /\ fr \in Seq(FrameT) /\ tr \in Seq(TrapT) /\ Placed(fr, gens)
  BY StateParts DEF NativeTailCall, State
<1>2. /\ Leave(v) = VMOf(fr, tr, Front(ac)) /\ Len(Front(ac)) <= MaxNative
      /\ Sound(Front(fr), tr, Front(ac), susp)
      /\ Front(fr) \in Seq(FrameT) /\ Front(ac) \in Seq(ActT)
      /\ Len(Front(fr)) = Len(fr) - 1 /\ Len(Front(fr)) > 0
      /\ Agree(fr, Front(fr), 1, Len(fr) - 1)
      /\ Len(Front(ac)) > 0 /\ Front(ac)[Len(Front(ac))].kind = "exec"
      /\ fr[Len(fr)] = Frame("native", None, 0, FALSE)
  <2>0. InNative
    BY <1>1
  <2>1. /\ Leave(v) = VMOf(fr, tr, Front(ac)) /\ Len(Front(ac)) <= MaxNative
        /\ Sound(Front(fr), tr, Front(ac), susp)
    BY <2>0, NativeLeaves
  <2>3. /\ Front(fr) \in Seq(FrameT) /\ Front(ac) \in Seq(ActT)
        /\ Len(Front(fr)) = Len(fr) - 1 /\ Len(Front(fr)) > 0
    BY <2>0, NativeLeaves
  <2>4. /\ Agree(fr, Front(fr), 1, Len(fr) - 1) /\ Len(Front(ac)) > 0
        /\ fr[Len(fr)] = Frame("native", None, 0, FALSE)
    BY <2>0, NativeLeaves
  <2>2. Front(ac)[Len(Front(ac))] = ac[Len(ac) - 1] /\ ac[Len(ac) - 1].kind = "exec"
    BY <2>0, NativeLeaves
  <2> QED
    BY <2>1, <2>2, <2>3, <2>4
<1>3. f \in FrameT /\ f.kind = "script" /\ f.gen = None /\ f.etraps = 0 /\ f.root = FALSE
  <2>1. 0 \in 0 .. MaxTraps
    BY Bounds
  <2> QED
    BY <2>1 DEF Frame, FrameT
<1>4. f = [fr[Len(fr)] EXCEPT !.kind = "script"]
  <2>1. f = [Frame("native", None, 0, FALSE) EXCEPT !.kind = "script"]
    <3>1. [Frame("native", None, 0, FALSE) EXCEPT !.kind = "script"]
             \in [kind : {"script"}, gen : {None}, etraps : {0}, root : {FALSE}]
      BY DEF Frame
    <3>2. [Frame("native", None, 0, FALSE) EXCEPT !.kind = "script"]
             = Frame("script", None, 0, FALSE)
      BY <3>1, FrameIs
    <3> QED
      BY <3>2
  <2> QED
    BY <2>1, <1>2
<1> HIDE DEF f
<1>5. Len(fr) > 0
  BY <1>1, <1>2
<1>6. fr2 \in Seq(FrameT) /\ Len(fr2) = Len(fr) /\ fr2[Len(fr2)] = f
      /\ Agree(fr, fr2, 1, Len(fr) - 1)
  BY <1>1, <1>3, <1>5, ExceptTop
<1>7. v' = VMOf(fr2, tr, Front(ac))
  <2>1. \A w : w.frames = fr =>
          [w EXCEPT !.frames[Len(fr)].kind = "script"] = [w EXCEPT !.frames = fr2]
    BY <1>1, <1>4
  <2>2. v' = [VMOf(fr, tr, Front(ac)) EXCEPT !.frames = fr2]
    <3> DEFINE w == VMOf(fr, tr, Front(ac))
    <3>1. w.frames = fr /\ v' = [w EXCEPT !.frames[Len(fr)].kind = "script"]
      BY <1>1, <1>2, VMParts
    <3> HIDE DEF w, fr2
    <3>2. v' = [w EXCEPT !.frames = fr2]
      BY <3>1, <2>1
    <3> QED
      BY <3>2 DEF w
  <2>3. v' \in VMSet(fr2, tr, Front(ac))
    BY <2>2, <1>6 DEF VMOf, VMSet
  <2> QED
    BY <2>3, VMIs
<1> HIDE DEF fr2
<1>8. Agree(Front(fr), fr2, 1, Len(Front(fr))) /\ Len(fr2) = Len(Front(fr)) + 1
  BY <1>1, <1>2, <1>6 DEF Agree
<1>9. OnTop(tr, tr, Len(fr2), 0)
  BY <1>1 DEF OnTop
<1>10. Retop(Front(ac), Front(ac), 0) /\ 0 \in Int
  BY <1>2, RetopSame
<1>11. Sound(fr2, tr, Front(ac), susp)
  BY <1>1, <1>2, <1>3, <1>6, <1>8, <1>9, <1>10, FrameEntered
<1>12. Placed(fr2, gens)
  <2>1. fr2[Len(fr)].gen = fr[Len(fr)].gen /\ fr2[Len(fr)].root = fr[Len(fr)].root
    <3>1. fr2[Len(fr)] = f /\ fr[Len(fr)].gen = None /\ fr[Len(fr)].root = FALSE
      BY <1>2, <1>6 DEF Frame
    <3> QED
      BY <3>1, <1>3
  <2> QED
    BY <1>1, <1>5, <1>6, <2>1, PlacedSame
<1> QED
  BY <1>2, <1>7, <1>11, <1>12, GoodVM

-----------------------------------------------------------------------------
(* The actions on traps.                                                   *)

(* The topmost frame has e traps now, and all others are as they were.     *)
LEMMA TrapsNext ==
  ASSUME NEW fr, NEW tr, NEW ac, State(fr, tr, ac),
         Len(ac) > 0, ac[Len(ac)].kind = "exec",
         NEW e \in 0 .. MaxTraps, NEW fr2, TopCounts(fr, fr2, e),
         NEW tr2 \in Seq(TrapT), TrapsFor(tr, tr2, Len(fr), fr[Len(fr)].etraps, e),
         NEW ac2 \in Seq(ActT), Retop(ac, ac2, e - fr[Len(fr)].etraps)
  PROVE  Good(VMOf(fr2, tr2, ac2), susp, gens) /\ Len(fr2) = Len(fr) /\ Len(ac2) = Len(ac)
<1> DEFINE f == [fr[Len(fr)] EXCEPT !.etraps = e]
           n == Len(tr) - fr[Len(fr)].etraps
           mid == SubSeq(tr, 1, n)
<1>1. Sound(fr, tr, ac, susp) /\ Placed(fr, gens) /\ Len(ac) <= MaxNative
      /\ fr \in Seq(FrameT) /\ tr \in Seq(TrapT) /\ ac \in Seq(ActT)
  BY DEF State
<1>2. Len(fr) > 0 /\ fr[Len(fr)] \in FrameT /\ fr[Len(fr)].etraps \in Nat
      /\ fr[Len(fr)].etraps <= Len(tr)
  BY <1>1, TopFrame
<1>3. f \in FrameT /\ f.etraps = e /\ f.kind = fr[Len(fr)].kind
      /\ f.root = fr[Len(fr)].root /\ f.gen = fr[Len(fr)].gen
  BY <1>2 DEF FrameT
<1>4. fr2 = [fr EXCEPT ![Len(fr)] = f]
  BY DEF TopCounts
<1> HIDE DEF f
<1>5. fr2 \in Seq(FrameT) /\ Len(fr2) = Len(fr) /\ fr2[Len(fr)] = f
      /\ Agree(fr, fr2, 1, Len(fr) - 1)
  <2>1. /\ [fr EXCEPT ![Len(fr)] = f] \in Seq(FrameT)
        /\ Len([fr EXCEPT ![Len(fr)] = f]) = Len(fr)
        /\ [fr EXCEPT ![Len(fr)] = f][Len(fr)] = f
        /\ Agree(fr, [fr EXCEPT ![Len(fr)] = f], 1, Len(fr) - 1)
    BY <1>1, <1>2, <1>3, ExceptTop
  <2> QED
    BY <2>1, <1>4
<1>6. n \in 0 .. Len(tr)
  BY <1>1, <1>2
<1>7. mid \in Seq(TrapT) /\ Len(mid) = n /\ Agree(tr, mid, 1, n)
  BY <1>1, <1>6, LowerTraps
<1>a. Len(tr2) = n + e /\ (\A p \in 1 .. n : tr2[p] = tr[p])
      /\ \A k \in 1 .. e : tr2[n + k] = [base |-> Len(fr), nest |-> k]
  BY DEF TrapsFor, Agree
<1> HIDE DEF mid
<1>8. OnTop(mid, tr2, Len(fr2), fr2[Len(fr2)].etraps)
  <2> HIDE DEF n
  <2>1. Len(tr2) = Len(mid) + e /\ \A k \in 1 .. e : tr2[Len(mid) + k] = [base |-> Len(fr2), nest |-> k]
    BY <1>a, <1>5, <1>7
  <2>2. \A p \in 1 .. Len(mid) : tr2[p] = mid[p]
    BY <1>a, <1>7 DEF Agree
  <2>3. fr2[Len(fr2)].etraps = e
    BY <1>3, <1>5
  <2> QED
    BY <2>1, <2>2, <2>3 DEF OnTop
<1>9. Len(mid) = Len(tr) - fr[Len(fr)].etraps /\ Agree(tr, mid, 1, Len(mid))
  BY <1>7
<1>10. Retop(ac, ac2, fr2[Len(fr)].etraps - fr[Len(fr)].etraps)
  BY <1>3, <1>5
<1> HIDE DEF n
<1>11. Sound(fr2, tr2, ac2, susp)
  <2>1. fr2[Len(fr)].kind = fr[Len(fr)].kind /\ fr2[Len(fr)].root = fr[Len(fr)].root
    BY <1>3, <1>5
  <2> QED
    BY <1>1, <1>5, <1>7, <1>8, <1>9, <1>10, <2>1, TrapsChanged
<1>12. Placed(fr2, gens)
  BY <1>1, <1>2, <1>3, <1>5, PlacedSame
<1>13. Len(ac2) = Len(ac)
  BY DEF Retop
<1> QED
  BY <1>1, <1>5, <1>11, <1>12, <1>13, GoodVM

LEMMA PushTrapNext ==
  ASSUME NEW fr, NEW tr, NEW ac, State(fr, tr, ac), PushTrap
  PROVE  Good(v', susp, gens)
<1> DEFINE e == fr[Len(fr)].etraps + 1
           t == [base |-> Len(fr), nest |-> e]
           tr2 == Append(tr, t)
           fr2 == [fr EXCEPT ![Len(fr)] = [fr[Len(fr)] EXCEPT !.etraps = e]]
           ac2 == [ac EXCEPT ![Len(ac)] = [ac[Len(ac)] EXCEPT !.traps = ac[Len(ac)].traps + 1]]
<1>1. v = VMOf(fr, tr, ac) /\ Sound(fr, tr, ac, susp)
      /\ fr \in Seq(FrameT) /\ tr \in Seq(TrapT) /\ ac \in Seq(ActT)
  BY DEF State
<1>2. Len(ac) > 0 /\ ac[Len(ac)].kind = "exec" /\ v.frames = fr /\ v.etraps = tr /\ v.acts = ac
      /\ v.base = Len(fr) /\ Ci(v) = fr[Len(fr)]
  BY StateParts DEF PushTrap
<1>3. Len(fr) > 0 /\ fr[Len(fr)].etraps \in Nat /\ fr[Len(fr)].etraps <= Len(tr)
      /\ TopTraps(tr, Len(fr), fr[Len(fr)].etraps)
  BY <1>1, <1>2, TopFrame
<1>4. e \in 0 .. MaxTraps /\ e \in 1 .. MaxTraps
  <2>1. Len(tr) < MaxTraps
    BY <1>2 DEF PushTrap
  <2> QED
    BY <2>1, <1>1, <1>3, Bounds
<1>5. t \in TrapT
  BY <1>1, <1>4 DEF TrapT
<1>6. v' = [v EXCEPT !.etraps = tr2, !.frames = fr2, !.acts = ac2]
  BY <1>2 DEF PushTrap
<1>7. t = [base |-> Len(fr), nest |-> e] /\ e = fr[Len(fr)].etraps + 1
  OBVIOUS
<1>f. TopCounts(fr, fr2, e)
  BY DEF TopCounts
<1>c. ac2 = [ac EXCEPT ![Len(ac)] = [ac[Len(ac)] EXCEPT !.traps = ac[Len(ac)].traps + 1]]
  OBVIOUS
<1> HIDE DEF fr2, ac2
<1>8. tr2 \in Seq(TrapT) /\ Len(tr2) = Len(tr) + 1 /\ tr2[Len(tr) + 1] = t
      /\ Agree(tr, tr2, 1, Len(tr))
  <2> HIDE DEF t
  <2> QED
    BY <1>1, <1>5, AppendFacts
<1> HIDE DEF tr2, t, e
<1>9. ac2 \in Seq(ActT) /\ Retop(ac, ac2, 1)
  <2>1. 1 \in Int
    OBVIOUS
  <2> QED
    BY <1>1, <1>2, <1>c, <2>1, RetopTraps
<1>l. Len(tr) \in Nat /\ e \in Nat
  BY <1>1, <1>4
<1>10. Len(tr2) = (Len(tr) - fr[Len(fr)].etraps) + e
  BY <1>3, <1>7, <1>8, <1>l
<1>11. Agree(tr, tr2, 1, Len(tr) - fr[Len(fr)].etraps)
  BY <1>3, <1>8, <1>l DEF Agree
<1>12. ASSUME NEW k \in 1 .. e
       PROVE  tr2[(Len(tr) - fr[Len(fr)].etraps) + k] = [base |-> Len(fr), nest |-> k]
  <2>1. CASE k = e
    <3>1. (Len(tr) - fr[Len(fr)].etraps) + k = Len(tr) + 1
      BY <2>1, <1>l, <1>3, <1>7
    <3> QED
      BY <3>1, <2>1, <1>7, <1>8
  <2>2. CASE k \in 1 .. fr[Len(fr)].etraps
    <3> DEFINE p == (Len(tr) - fr[Len(fr)].etraps) + k
    <3>1. p \in 1 .. Len(tr)
      BY <2>2, <1>l, <1>3
    <3>2. tr[p] = [base |-> Len(fr), nest |-> k]
      BY <2>2, <1>3 DEF TopTraps
    <3> HIDE DEF p
    <3>3. tr2[p] = tr[p]
      BY <3>1, <1>8 DEF Agree
    <3> QED
      BY <3>2, <3>3 DEF p
  <2> QED
    BY <2>1, <2>2, <1>3, <1>7
<1>t. TrapsFor(tr, tr2, Len(fr), fr[Len(fr)].etraps, e)
  BY <1>10, <1>11, <1>12 DEF TrapsFor
<1>13. Retop(ac, ac2, e - fr[Len(fr)].etraps)
  <2>1. e - fr[Len(fr)].etraps = 1
    BY <1>3, <1>7
  <2> QED
    BY <2>1, <1>9
<1>14. Good(VMOf(fr2, tr2, ac2), susp, gens) /\ Len(fr2) = Len(fr) /\ Len(ac2) = Len(ac)
  BY <1>2, <1>4, <1>f, <1>8, <1>9, <1>t, <1>13, TrapsNext
<1>15. v' = VMOf(fr2, tr2, ac2)
  <2>1. v' \in VMSet(fr2, tr2, ac2)
    BY <1>1, <1>6, <1>14 DEF VMOf, VMSet
  <2> QED
    BY <2>1, VMIs
<1> QED
  BY <1>14, <1>15

(* The n topmost traps of the topmost frame go.                            *)
LEMMA FewerTraps ==
  ASSUME NEW fr, NEW tr, NEW ac, State(fr, tr, ac),
         Len(ac) > 0, ac[Len(ac)].kind = "exec",
         NEW n \in 1 .. fr[Len(fr)].etraps, NEW fr2,
         TopCounts(fr, fr2, fr[Len(fr)].etraps - n),
         NEW tr2, Lowered(tr, tr2, n),
         NEW ac2 \in Seq(ActT), Retop(ac, ac2, 0 - n)
  PROVE  Good(VMOf(fr2, tr2, ac2), susp, gens) /\ Len(fr2) = Len(fr) /\ Len(ac2) = Len(ac)
<1> DEFINE e == fr[Len(fr)].etraps - n
<1>1. Sound(fr, tr, ac, susp)
      /\ fr \in Seq(FrameT) /\ tr \in Seq(TrapT) /\ ac \in Seq(ActT)
  BY DEF State
<1>2. fr[Len(fr)].etraps \in Nat /\ fr[Len(fr)].etraps <= Len(tr)
      /\ fr[Len(fr)].etraps <= MaxTraps
      /\ TopTraps(tr, Len(fr), fr[Len(fr)].etraps)
  BY <1>1, TopFrame
<1>l. Len(tr) \in Nat /\ n \in Nat /\ n > 0 /\ n <= fr[Len(fr)].etraps
  BY <1>1, <1>2
<1>3. e \in 0 .. MaxTraps /\ e = fr[Len(fr)].etraps - n /\ e \in Nat
  BY <1>2, <1>l, Bounds
<1>5. tr2 \in Seq(TrapT) /\ Len(tr2) = Len(tr) - n /\ Agree(tr, tr2, 1, Len(tr) - n)
  BY DEF Lowered
<1>f. TopCounts(fr, fr2, e)
  OBVIOUS
<1> HIDE DEF e
<1>6. Len(tr2) = (Len(tr) - fr[Len(fr)].etraps) + e
  <2>1. Len(tr2) = Len(tr) - n
    BY <1>5
  <2> HIDE DEF e
  <2> QED
    BY <2>1, <1>l, <1>2, <1>3
<1>7. Agree(tr, tr2, 1, Len(tr) - fr[Len(fr)].etraps)
  <2>1. Len(tr) - fr[Len(fr)].etraps <= Len(tr) - n
    BY <1>l, <1>2
  <2>2. \A p \in 1 .. Len(tr) - fr[Len(fr)].etraps : p \in 1 .. Len(tr) - n
    BY <2>1, <1>l, <1>2
  <2> QED
    BY <2>2, <1>5 DEF Agree
<1>8. ASSUME NEW k \in 1 .. e
      PROVE  tr2[(Len(tr) - fr[Len(fr)].etraps) + k] = [base |-> Len(fr), nest |-> k]
  <2> DEFINE p == (Len(tr) - fr[Len(fr)].etraps) + k
  <2>k. k \in Nat /\ k > 0 /\ k <= fr[Len(fr)].etraps - n
    BY <1>3
  <2>1. p \in 1 .. Len(tr) - n /\ k \in 1 .. fr[Len(fr)].etraps
    BY <1>l, <1>2, <2>k, SMTT(30)
  <2>2. tr[p] = [base |-> Len(fr), nest |-> k]
    BY <2>1, <1>2 DEF TopTraps
  <2> HIDE DEF p
  <2>3. tr2[p] = tr[p]
    BY <2>1, <1>5 DEF Agree
  <2> QED
    BY <2>2, <2>3 DEF p
<1>t. TrapsFor(tr, tr2, Len(fr), fr[Len(fr)].etraps, e)
  BY <1>6, <1>7, <1>8 DEF TrapsFor
<1>9. Retop(ac, ac2, e - fr[Len(fr)].etraps)
  <2>1. e - fr[Len(fr)].etraps = 0 - n
    BY <1>2, <1>l, <1>3
  <2> QED
    BY <2>1
<1> QED
  BY <1>3, <1>f, <1>5, <1>t, <1>9, TrapsNext

LEMMA PopTrapNext ==
  ASSUME NEW fr, NEW tr, NEW ac, State(fr, tr, ac), PopTrap
  PROVE  Good(v', susp, gens)
<1>1. v = VMOf(fr, tr, ac) /\ Sound(fr, tr, ac, susp)
      /\ fr \in Seq(FrameT) /\ tr \in Seq(TrapT) /\ ac \in Seq(ActT)
  BY DEF State
<1>2. Len(ac) > 0 /\ ac[Len(ac)].kind = "exec" /\ v.frames = fr /\ v.etraps = tr /\ v.acts = ac
      /\ Ci(v) = fr[Len(fr)]
  BY StateParts DEF PopTrap
<1>3. PICK n \in 1 .. fr[Len(fr)].etraps :
         v' = [v EXCEPT !.etraps = SubSeq(@, 1, Len(@) - n),
                        !.frames[Len(v.frames)].etraps = @ - n,
                        !.acts[Len(v.acts)].traps = @ - n]
  BY <1>2 DEF PopTrap
<1> DEFINE tr2 == SubSeq(tr, 1, Len(tr) - n)
           fr2 == [fr EXCEPT ![Len(fr)] = [fr[Len(fr)] EXCEPT !.etraps = fr[Len(fr)].etraps - n]]
           ac2 == [ac EXCEPT ![Len(ac)] = [ac[Len(ac)] EXCEPT !.traps = ac[Len(ac)].traps + (0 - n)]]
<1>n. n \in Nat /\ 0 - n \in Int
  <2>1. fr[Len(fr)].etraps \in Nat
    BY <1>1, <1>2, TopFrame
  <2> QED
    BY <2>1
<1>4. v' = [v EXCEPT !.etraps = tr2, !.frames = fr2, !.acts = ac2]
  <2>1. ac[Len(ac)].traps - n = ac[Len(ac)].traps + (0 - n)
    <3>1. ac[Len(ac)] \in ActT
      BY <1>1, <1>2, TopFrame
    <3>2. ac[Len(ac)].traps \in Int
      BY <3>1, ActTypes
    <3> QED
      BY <3>2, <1>n
  <2> QED
    BY <1>2, <1>3, <2>1
<1>5. ac2 \in Seq(ActT) /\ Retop(ac, ac2, 0 - n)
  BY <1>1, <1>2, <1>n, RetopTraps
<1>t. Lowered(tr, tr2, n)
  <2>1. fr[Len(fr)].etraps \in Nat /\ fr[Len(fr)].etraps <= Len(tr)
    BY <1>1, <1>2, TopFrame
  <2>2. Len(tr) - n \in 0 .. Len(tr)
    BY <2>1, <1>1, <1>3
  <2> QED
    BY <2>2, <1>1, LowerTraps DEF Lowered
<1>6. TopCounts(fr, fr2, fr[Len(fr)].etraps - n)
  BY DEF TopCounts
<1> HIDE DEF tr2, fr2, ac2
<1>7. Good(VMOf(fr2, tr2, ac2), susp, gens) /\ Len(fr2) = Len(fr) /\ Len(ac2) = Len(ac)
  BY <1>2, <1>5, <1>6, <1>t, FewerTraps
<1>8. v' = VMOf(fr2, tr2, ac2)
  <2>1. v' \in VMSet(fr2, tr2, ac2)
    BY <1>1, <1>4, <1>7 DEF VMOf, VMSet
  <2> QED
    BY <2>1, VMIs
<1> QED
  BY <1>7, <1>8

LEMMA CatchNext ==
  ASSUME NEW fr, NEW tr, NEW ac, State(fr, tr, ac), Catch
  PROVE  Good(v', susp, gens)
<1> DEFINE tr2 == SubSeq(tr, 1, Len(tr) - 1)
           fr2 == [fr EXCEPT ![Len(fr)] = [fr[Len(fr)] EXCEPT !.etraps = fr[Len(fr)].etraps - 1]]
           a == [ac[Len(ac)] EXCEPT !.traps = ac[Len(ac)].traps - 1, !.throws = FALSE]
           ac2 == [ac EXCEPT ![Len(ac)] = a]
<1>1. v = VMOf(fr, tr, ac) /\ Sound(fr, tr, ac, susp)
      /\ fr \in Seq(FrameT) /\ tr \in Seq(TrapT) /\ ac \in Seq(ActT)
  BY DEF State
<1>2. Len(ac) > 0 /\ ac[Len(ac)].kind = "exec" /\ v.frames = fr /\ v.etraps = tr /\ v.acts = ac
      /\ Ci(v) = fr[Len(fr)] /\ fr[Len(fr)].etraps > 0
  BY StateParts DEF Catch
<1>3. /\ fr[Len(fr)].etraps \in Nat /\ fr[Len(fr)].etraps <= Len(tr) /\ ac[Len(ac)] \in ActT
      /\ TopTraps(tr, Len(fr), fr[Len(fr)].etraps)
  BY <1>1, <1>2, TopFrame
<1>4. Last(tr).base = Len(fr)
  <2>1. fr[Len(fr)].etraps \in 1 .. fr[Len(fr)].etraps
        /\ (Len(tr) - fr[Len(fr)].etraps) + fr[Len(fr)].etraps = Len(tr)
    BY <1>1, <1>2, <1>3
  <2>2. tr[Len(tr)] = [base |-> Len(fr), nest |-> fr[Len(fr)].etraps]
    BY <2>1, <1>3 DEF TopTraps
  <2> QED
    BY <2>2 DEF Last
<1>5. a \in ActT /\ a.kind = ac[Len(ac)].kind /\ a.why = ac[Len(ac)].why
      /\ a.traps = ac[Len(ac)].traps + (0 - 1)
  <2>1. ac[Len(ac)].traps - 1 = ac[Len(ac)].traps + (0 - 1) /\ ac[Len(ac)].traps - 1 \in Int
    BY <1>3, ActTypes
  <2> QED
    BY <1>3, <2>1 DEF ActT
<1>6. v' = [v EXCEPT !.base = Len(fr), !.etraps = tr2, !.frames = fr2, !.acts = ac2]
  <2>1. v' = [v EXCEPT !.base = Last(v.etraps).base, !.etraps = Front(@),
                       !.frames[Len(v.frames)].etraps = @ - 1,
                       !.acts[Len(v.acts)].traps = @ - 1, !.acts[Len(v.acts)].throws = FALSE]
    BY DEF Catch
  <2>2. Front(tr) = tr2
    BY DEF Front
  <2> QED
    BY <1>2, <1>4, <2>1, <2>2, ZenonT(40)
<1> HIDE DEF a
<1>7. ac2 \in Seq(ActT) /\ Len(ac2) = Len(ac) /\ ac2[Len(ac)] = a
      /\ Agree(ac, ac2, 1, Len(ac) - 1)
  BY <1>1, <1>2, <1>5, ExceptTop
<1>8. Retop(ac, ac2, 0 - 1)
  <2> HIDE DEF ac2
  <2> QED
    BY <1>5, <1>7 DEF Retop, SameActs, Agree
<1>t. Lowered(tr, tr2, 1)
  <2>1. Len(tr) - 1 \in 0 .. Len(tr)
    BY <1>1, <1>2, <1>3
  <2> QED
    BY <2>1, <1>1, LowerTraps DEF Lowered
<1>9. TopCounts(fr, fr2, fr[Len(fr)].etraps - 1) /\ 1 \in 1 .. fr[Len(fr)].etraps
  BY <1>2, <1>3 DEF TopCounts
<1> HIDE DEF tr2, fr2, ac2
<1>10. Good(VMOf(fr2, tr2, ac2), susp, gens) /\ Len(fr2) = Len(fr) /\ Len(ac2) = Len(ac)
  BY <1>2, <1>7, <1>8, <1>9, <1>t, FewerTraps
<1>11. v' = VMOf(fr2, tr2, ac2)
  <2>1. v' \in VMSet(fr2, tr2, ac2)
    BY <1>1, <1>6, <1>10 DEF VMOf, VMSet
  <2> QED
    BY <2>1, VMIs
<1> QED
  BY <1>10, <1>11

-----------------------------------------------------------------------------
(* Generators.                                                             *)

Listing(f, n, S) == f \in [1 .. n -> S]
Listed(f, n, S) == f \in Seq(S) /\ Len(f) = n

LEMMA SameLength ==
  ASSUME NEW a \in Nat, NEW b \in Nat, 1 .. a = 1 .. b
  PROVE  a = b
<1>1. a > 0 => a \in 1 .. b
  <2>1. a > 0 => a \in 1 .. a
    OBVIOUS
  <2> QED
    BY <2>1
<1>2. b > 0 => b \in 1 .. a
  <2>1. b > 0 => b \in 1 .. b
    OBVIOUS
  <2> QED
    BY <2>1
<1> QED
  BY <1>1, <1>2

LEMMA ListingIsSeq ==
  ASSUME NEW S, NEW n \in Nat, NEW f, Listing(f, n, S)
  PROVE  Listed(f, n, S)
<1>0. f \in [1 .. n -> S]
  BY DEF Listing
<1>1. f \in Seq(S)
  BY <1>0, SeqDef
<1>2. DOMAIN f = 1 .. Len(f) /\ Len(f) \in Nat
  BY <1>1, LenProperties
<1>3. 1 .. Len(f) = 1 .. n
  BY <1>0, <1>2, SMTT(30)
<1>6. Len(f) = n
  BY <1>2, <1>3, SameLength
<1> QED
  BY <1>1, <1>6 DEF Listed

(* One generator changes.                                                  *)
LEMMA KeptSet ==
  ASSUME NEW gn, Kept(gn), NEW g \in Gen, NEW r \in GenT, KeptBy(g, r)
  PROVE  /\ Kept([gn EXCEPT ![g] = r])
         /\ [gn EXCEPT ![g] = r][g] = r
         /\ SameStates(gn, [gn EXCEPT ![g] = r], g)
<1>1. gn \in [Gen -> GenT] /\ \A h \in Gen : KeptBy(h, gn[h])
  BY DEF Kept
<1> DEFINE gn2 == [gn EXCEPT ![g] = r]
<1>2. gn2 \in [Gen -> GenT] /\ gn2[g] = r /\ \A h \in Gen \ {g} : gn2[h] = gn[h]
  BY <1>1
<1> HIDE DEF gn2
<1>3. \A h \in Gen : KeptBy(h, gn2[h])
  BY <1>1, <1>2
<1>4. Kept(gn2) /\ gn2[g] = r /\ SameStates(gn, gn2, g)
  BY <1>2, <1>3 DEF Kept, SameStates
<1> QED
  BY <1>4 DEF gn2

LEMMA GenFacts ==
  ASSUME NEW gn, Kept(gn), NEW g \in Gen
  PROVE  /\ gn[g] \in GenT /\ KeptBy(g, gn[g])
         /\ gn[g].etraps \in Seq(SavedT) /\ gn[g].root \in BOOLEAN
         /\ Saved(gn[g].etraps)
<1>1. gn[g] \in GenT /\ KeptBy(g, gn[g])
  BY DEF Kept
<1> QED
  BY <1>1 DEF GenT, KeptBy

LEMMA NoTraps ==
  /\ <<>> \in Seq(SavedT) /\ Saved(<<>>)
<1>1. Len(<<>>) = 0
  OBVIOUS
<1> QED
  BY <1>1, Bounds DEF Saved

LEMMA KillKept ==
  ASSUME Kept(gens), NEW g \in Gen \cup {None}
  PROVE  /\ Kept(Kill(g)) /\ SameStates(gens, Kill(g), g)
         /\ g # None => Kill(g)[g].state # "running"
<1>1. CASE g = None
  BY <1>1 DEF Kill, SameStates
<1>2. CASE g # None
  <2> DEFINE r == [gens[g] EXCEPT !.state = "dead"]
  <2>1. g \in Gen /\ Kill(g) = [gens EXCEPT ![g] = r]
    BY <1>2 DEF Kill
  <2>2. gens[g] \in GenT /\ KeptBy(g, gens[g])
    BY <2>1, GenFacts
  <2>3. r \in GenT /\ r.state = "dead" /\ r.root = gens[g].root /\ r.etraps = gens[g].etraps
    BY <2>2 DEF GenT
  <2> HIDE DEF r
  <2>4. KeptBy(g, r)
    BY <2>2, <2>3 DEF KeptBy
  <2>5. /\ Kept([gens EXCEPT ![g] = r]) /\ [gens EXCEPT ![g] = r][g] = r
        /\ SameStates(gens, [gens EXCEPT ![g] = r], g)
    <3>1. g \in Gen /\ r \in GenT /\ KeptBy(g, r)
      BY <2>1, <2>3, <2>4
    <3> QED
      BY ONLY Kept(gens), <3>1, KeptSet
  <2> DEFINE gn2 == [gens EXCEPT ![g] = r]
  <2>6. Kept(Kill(g)) /\ SameStates(gens, Kill(g), g) /\ Kill(g)[g] = r
    <3>1. Kept(gn2) /\ SameStates(gens, gn2, g) /\ gn2[g] = r /\ Kill(g) = gn2
      BY <2>1, <2>5
    <3> HIDE DEF gn2
    <3> QED
      BY <3>1
  <2> QED
    BY <2>3, <2>6
<1> QED
  BY <1>1, <1>2

LEMMA ResumedKept ==
  ASSUME Kept(gens), NEW g \in Gen
  PROVE  /\ Kept(Resumed(g)) /\ SameStates(gens, Resumed(g), g)
         /\ Resumed(g)[g].state = "running"
<1> DEFINE r == [gens[g] EXCEPT !.state = "running", !.etraps = <<>>]
<1>1. Resumed(g) = [gens EXCEPT ![g] = r]
  BY DEF Resumed
<1>2. gens[g] \in GenT /\ KeptBy(g, gens[g])
  BY GenFacts
<1>3. r \in GenT /\ r.state = "running" /\ r.root = gens[g].root /\ r.etraps = <<>>
  BY <1>2, NoTraps DEF GenT
<1> HIDE DEF r
<1>4. KeptBy(g, r)
  BY <1>2, <1>3, NoTraps DEF KeptBy
<1>5. /\ Kept([gens EXCEPT ![g] = r]) /\ [gens EXCEPT ![g] = r][g] = r
      /\ SameStates(gens, [gens EXCEPT ![g] = r], g)
  BY <1>3, <1>4, KeptSet
<1> QED
  BY <1>1, <1>3, <1>5

(* The traps that leave with a generator.                                  *)
LEMMA TrapsTaken ==
  ASSUME NEW tr \in Seq(TrapT), NEW b \in Nat, NEW n \in 0 .. MaxTraps, n <= Len(tr),
         TopTraps(tr, b, n), NEW ts,
         ts = Reverse(Rebase(SubSeq(tr, (Len(tr) - n) + 1, Len(tr)), -b))
  PROVE  ts \in Seq(SavedT) /\ Len(ts) = n /\ Saved(ts)
<1> DEFINE q == SubSeq(tr, (Len(tr) - n) + 1, Len(tr))
           p == Rebase(q, -b)
<1>n. n \in Nat /\ n <= MaxTraps /\ Len(tr) \in Nat /\ MaxTraps \in Nat /\ Len(tr) - n \in Nat
  BY Bounds
<1>1. q \in Seq(TrapT) /\ Len(q) = n
      /\ \A k \in 1 .. n : q[k] = tr[(Len(tr) - n) + k]
  <2> DEFINE m == (Len(tr) - n) + 1
  <2>1. m \in Int /\ Len(tr) \in Int /\ (\A i \in m .. Len(tr) : tr[i] \in TrapT)
    BY <1>n
  <2>2. Len(tr) - m + 1 = n /\ (m <= Len(tr) <=> n > 0)
        /\ \A k \in 1 .. n : m + k - 1 = (Len(tr) - n) + k
    BY <1>n
  <2> HIDE DEF m
  <2>3. /\ SubSeq(tr, m, Len(tr)) \in Seq(TrapT)
        /\ Len(SubSeq(tr, m, Len(tr))) = IF m <= Len(tr) THEN Len(tr) - m + 1 ELSE 0
        /\ \A i \in 1 .. Len(tr) - m + 1 : SubSeq(tr, m, Len(tr))[i] = tr[m + i - 1]
    BY <2>1, SubSeqProperties
  <2>4. Len(SubSeq(tr, m, Len(tr))) = n
    BY <2>2, <2>3, <1>n
  <2>5. \A k \in 1 .. n : SubSeq(tr, m, Len(tr))[k] = tr[(Len(tr) - n) + k]
    BY <2>2, <2>3
  <2> QED
    BY <2>3, <2>4, <2>5 DEF m
<1>2. \A k \in 1 .. n : q[k] = [base |-> b, nest |-> k]
  BY <1>1 DEF TopTraps
<1> HIDE DEF q
<1>3. DOMAIN q = 1 .. n
  BY <1>1
<1>4. p = [i \in 1 .. n |-> [q[i] EXCEPT !.base = @ + (-b)]]
  BY <1>3 DEF Rebase
<1>5. \A k \in 1 .. n : p[k] = [base |-> 0, nest |-> k]
  <2> SUFFICES ASSUME NEW k \in 1 .. n PROVE p[k] = [base |-> 0, nest |-> k]
    OBVIOUS
  <2>1. p[k] = [q[k] EXCEPT !.base = q[k].base + (-b)]
    BY <1>4
  <2>2. q[k] = [base |-> b, nest |-> k]
    BY <1>2
  <2>3. b + (-b) = 0
    OBVIOUS
  <2> HIDE DEF p
  <2>4. [q[k] EXCEPT !.base = q[k].base + (-b)] = [[base |-> b, nest |-> k] EXCEPT !.base = 0]
    BY <2>2, <2>3
  <2> QED
    BY <2>1, <2>4
<1>6. p \in Seq(SavedT) /\ Len(p) = n
  <2>1. p \in [1 .. n -> SavedT]
    <3>1. \A k \in 1 .. n : [base |-> 0, nest |-> k] \in SavedT
      BY <1>n DEF SavedT
    <3>2. \A k \in 1 .. n : p[k] \in SavedT
      BY <3>1, <1>5
    <3>3. p \in [1 .. n -> SavedT] <=> \A k \in 1 .. n : p[k] \in SavedT
      BY <1>4
    <3> QED
      BY <3>2, <3>3
  <2>2. Listing(p, n, SavedT)
    BY <2>1 DEF Listing
  <2> HIDE DEF p
  <2>9. Listed(p, n, SavedT)
    BY <2>2, <1>n, ListingIsSeq
  <2> QED
    BY <2>9 DEF Listed
<1> HIDE DEF p
<1>7. ts = [i \in 1 .. n |-> p[(n - i) + 1]]
  BY <1>6 DEF Reverse, p, q
<1>8. \A j \in 1 .. n : ts[j] = [base |-> 0, nest |-> (n - j) + 1]
  <2> SUFFICES ASSUME NEW j \in 1 .. n PROVE ts[j] = [base |-> 0, nest |-> (n - j) + 1]
    OBVIOUS
  <2>1. (n - j) + 1 \in 1 .. n
    BY <1>n
  <2>2. ts[j] = p[(n - j) + 1]
    BY <1>7
  <2> QED
    BY <2>1, <2>2, <1>5
<1>9. ts \in Seq(SavedT) /\ Len(ts) = n
  <2>1. \A j \in 1 .. n : (n - j) + 1 \in 1 .. n
    BY <1>n
  <2>2. \A j \in 1 .. n : p[(n - j) + 1] \in SavedT
    BY <2>1, <1>6
  <2>3. ts \in [1 .. n -> SavedT]
    BY <2>2, <1>7
  <2>4. Listing(ts, n, SavedT)
    BY <2>3 DEF Listing
  <2>9. Listed(ts, n, SavedT)
    BY <2>4, <1>n, ListingIsSeq
  <2> QED
    BY <2>9 DEF Listed
<1> QED
  BY <1>8, <1>9, <1>n DEF Saved

(* The traps that come back with a generator.                              *)
LEMMA TrapsBack ==
  ASSUME NEW ts \in Seq(SavedT), Saved(ts), NEW b \in Nat, NEW tr \in Seq(TrapT), NEW tr2,
         tr2 = tr \o Rebase(Reverse(ts), b)
  PROVE  tr2 \in Seq(TrapT) /\ OnTop(tr, tr2, b, Len(ts)) /\ Len(Reverse(ts)) = Len(ts)
<1> DEFINE n == Len(ts)
           q == Reverse(ts)
           p == Rebase(q, b)
<1>n. n \in Nat /\ n <= MaxTraps /\ Len(tr) \in Nat /\ MaxTraps \in Nat
  BY Bounds DEF Saved
<1>1. \A j \in 1 .. n : ts[j] = [base |-> 0, nest |-> (n - j) + 1]
  BY DEF Saved
<1> HIDE DEF n
<1>2. q = [i \in 1 .. n |-> ts[(n - i) + 1]]
  BY DEF Reverse, n
<1>3. \A k \in 1 .. n : q[k] = [base |-> 0, nest |-> k]
  <2> SUFFICES ASSUME NEW k \in 1 .. n PROVE q[k] = [base |-> 0, nest |-> k]
    OBVIOUS
  <2>1. (n - k) + 1 \in 1 .. n /\ (n - ((n - k) + 1)) + 1 = k
    BY <1>n
  <2>2. q[k] = ts[(n - k) + 1]
    BY <1>2
  <2> QED
    BY <2>1, <2>2, <1>1
<1>4. DOMAIN q = 1 .. n
  BY <1>2
<1>l. Len(q) = n
  <2>1. q \in [1 .. n -> SavedT]
    <3>1. \A k \in 1 .. n : (n - k) + 1 \in 1 .. n
      BY <1>n
    <3>2. \A k \in 1 .. n : ts[(n - k) + 1] \in SavedT
      BY <3>1 DEF n
    <3> QED
      BY <3>2, <1>2
  <2>2. Listing(q, n, SavedT)
    BY <2>1 DEF Listing
  <2> HIDE DEF q
  <2>9. Listed(q, n, SavedT)
    BY <2>2, <1>n, ListingIsSeq
  <2> QED
    BY <2>9 DEF Listed
<1> HIDE DEF q
<1>5. p = [i \in 1 .. n |-> [q[i] EXCEPT !.base = @ + b]]
  BY <1>4 DEF Rebase
<1>6. \A k \in 1 .. n : p[k] = [base |-> b, nest |-> k]
  <2> SUFFICES ASSUME NEW k \in 1 .. n PROVE p[k] = [base |-> b, nest |-> k]
    OBVIOUS
  <2>1. p[k] = [q[k] EXCEPT !.base = q[k].base + b]
    BY <1>5
  <2>2. q[k] = [base |-> 0, nest |-> k]
    BY <1>3
  <2> HIDE DEF p
  <2>3. [q[k] EXCEPT !.base = q[k].base + b] = [[base |-> 0, nest |-> k] EXCEPT !.base = b]
    BY <2>2
  <2> QED
    BY <2>1, <2>3
<1>7. p \in Seq(TrapT) /\ Len(p) = n
  <2>1. \A k \in 1 .. n : [base |-> b, nest |-> k] \in TrapT
    BY <1>n DEF TrapT
  <2>2. \A k \in 1 .. n : p[k] \in TrapT
    BY <2>1, <1>6
  <2>3. p \in [1 .. n -> TrapT] <=> \A k \in 1 .. n : p[k] \in TrapT
    BY <1>5
  <2>4. Listing(p, n, TrapT)
    BY <2>2, <2>3 DEF Listing
  <2> HIDE DEF p
  <2>9. Listed(p, n, TrapT)
    BY <2>4, <1>n, ListingIsSeq
  <2> QED
    BY <2>9 DEF Listed
<1>8. tr2 = tr \o p
  BY DEF q
<1> HIDE DEF p
<1>9. /\ tr \o p \in Seq(TrapT) /\ Len(tr \o p) = Len(tr) + Len(p)
      /\ \A i \in 1 .. Len(tr) + Len(p) :
            (tr \o p)[i] = IF i <= Len(tr) THEN tr[i] ELSE p[i - Len(tr)]
  BY <1>7, ConcatProperties
<1>10. tr2 \in Seq(TrapT) /\ Len(tr2) = Len(tr) + n
       /\ \A i \in 1 .. Len(tr) + n : tr2[i] = IF i <= Len(tr) THEN tr[i] ELSE p[i - Len(tr)]
  BY <1>7, <1>8, <1>9
<1>11. \A i \in 1 .. Len(tr) : tr2[i] = tr[i]
  BY <1>10, <1>n
<1>12. \A k \in 1 .. n : tr2[Len(tr) + k] = [base |-> b, nest |-> k]
  <2> SUFFICES ASSUME NEW k \in 1 .. n PROVE tr2[Len(tr) + k] = [base |-> b, nest |-> k]
    OBVIOUS
  <2>1. Len(tr) + k \in 1 .. Len(tr) + n /\ ~(Len(tr) + k <= Len(tr))
        /\ (Len(tr) + k) - Len(tr) = k
    BY <1>n
  <2>2. tr2[Len(tr) + k] = p[k]
    BY <2>1, <1>10
  <2> QED
    BY <2>2, <1>6
<1>13. OnTop(tr, tr2, b, n)
  BY <1>10, <1>11, <1>12 DEF OnTop
<1> QED
  BY <1>10, <1>13, <1>l DEF n, q

LEMMA ReturnNext ==
  ASSUME NEW fr, NEW tr, NEW ac, State(fr, tr, ac), Kept(gens), Return
  PROVE  Good(v', susp, gens') /\ Kept(gens')
<1>1. v = VMOf(fr, tr, ac) /\ Sound(fr, tr, ac, susp) /\ Placed(fr, gens)
      /\ Len(ac) <= MaxNative
      /\ fr \in Seq(FrameT) /\ tr \in Seq(TrapT) /\ ac \in Seq(ActT)
  BY DEF State
<1>2. Len(ac) > 0 /\ ac[Len(ac)].kind = "exec" /\ Ci(v) = fr[Len(fr)]
  BY StateParts DEF Return
<1>3. Len(fr) > 0 /\ fr[Len(fr)] \in FrameT /\ fr[Len(fr)].etraps = 0
  BY <1>1, <1>2, TopFrame DEF Return
<1>4. fr[Len(fr)].gen \in Gen \cup {None}
  BY <1>3 DEF FrameT
<1>5. gens' = Kill(fr[Len(fr)].gen)
  BY <1>2 DEF Return
<1>6. /\ Kept(gens') /\ SameStates(gens, gens', fr[Len(fr)].gen)
      /\ fr[Len(fr)].gen # None => gens'[fr[Len(fr)].gen].state # "running"
  BY <1>4, <1>5, KillKept
<1>7. LeaveFrame(v) = VMOf(Front(fr), tr, ac)
  BY <1>1, <1>3, VMFrames
<1>8. v' = IF fr[Len(fr)].root THEN ExecuteReturns(VMOf(Front(fr), tr, ac), TRUE)
           ELSE VMOf(Front(fr), tr, ac)
  BY <1>2, <1>7 DEF Return
<1>9. Len(tr) = Len(tr) - fr[Len(fr)].etraps /\ Agree(tr, tr, 1, Len(tr))
      /\ Agree(ac, ac, 1, Len(ac) - 1)
  BY <1>1, <1>3 DEF Agree
<1>10. Retop(ac, ac, 0 - fr[Len(fr)].etraps)
  <2>1. 0 - fr[Len(fr)].etraps = 0
    BY <1>3
  <2> QED
    BY <2>1, <1>1, <1>2, RetopSame
<1>11. Good(IF fr[Len(fr)].root THEN ExecuteReturns(VMOf(Front(fr), tr, ac), TRUE)
            ELSE VMOf(Front(fr), tr, ac), susp, gens')
  BY <1>1, <1>2, <1>6, <1>9, <1>10, LeaveGood
<1> QED
  BY <1>6, <1>8, <1>11

LEMMA UnwindNext ==
  ASSUME NEW fr, NEW tr, NEW ac, State(fr, tr, ac), Kept(gens), Unwind
  PROVE  Good(v', susp, gens') /\ Kept(gens')
<1>1. v = VMOf(fr, tr, ac) /\ Sound(fr, tr, ac, susp) /\ Placed(fr, gens)
      /\ Len(ac) <= MaxNative
      /\ fr \in Seq(FrameT) /\ tr \in Seq(TrapT) /\ ac \in Seq(ActT)
  BY DEF State
<1>2. Len(ac) > 0 /\ ac[Len(ac)].kind = "exec" /\ Ci(v) = fr[Len(fr)]
  BY StateParts DEF Unwind
<1>3. Len(fr) > 0 /\ fr[Len(fr)] \in FrameT /\ fr[Len(fr)].etraps = 0
      /\ (Len(fr) = 1 => fr[Len(fr)].root)
  BY <1>1, <1>2, TopFrame DEF Unwind
<1>4. fr[Len(fr)].gen \in Gen \cup {None}
  BY <1>3 DEF FrameT
<1>5. gens' = Kill(fr[Len(fr)].gen)
  BY <1>2 DEF Unwind
<1>6. /\ Kept(gens') /\ SameStates(gens, gens', fr[Len(fr)].gen)
      /\ fr[Len(fr)].gen # None => gens'[fr[Len(fr)].gen].state # "running"
  BY <1>4, <1>5, KillKept
<1>7. LeaveFrame(v) = VMOf(Front(fr), tr, ac) /\ LeaveFrame(v).frames = Front(fr)
  <2>1. LeaveFrame(v) = VMOf(Front(fr), tr, ac)
    BY <1>1, <1>3, VMFrames
  <2> QED
    BY <2>1, VMParts
<1>e. Front(fr) = <<>> => fr[Len(fr)].root
  <2>1. Len(Front(fr)) = Len(fr) - 1 /\ Len(fr) \in Nat
    BY <1>1, <1>3, FrontFacts
  <2>2. Front(fr) = <<>> => Len(Front(fr)) = 0
    OBVIOUS
  <2> QED
    BY <2>1, <2>2, <1>3
<1>8. v' = IF fr[Len(fr)].root THEN ExecuteReturns(VMOf(Front(fr), tr, ac), FALSE)
           ELSE VMOf(Front(fr), tr, ac)
  BY <1>2, <1>7, <1>e DEF Unwind
<1>9. Len(tr) = Len(tr) - fr[Len(fr)].etraps /\ Agree(tr, tr, 1, Len(tr))
      /\ Agree(ac, ac, 1, Len(ac) - 1)
  BY <1>1, <1>3 DEF Agree
<1>10. Retop(ac, ac, 0 - fr[Len(fr)].etraps)
  <2>1. 0 - fr[Len(fr)].etraps = 0
    BY <1>3
  <2> QED
    BY <2>1, <1>1, <1>2, RetopSame
<1>11. Good(IF fr[Len(fr)].root THEN ExecuteReturns(VMOf(Front(fr), tr, ac), FALSE)
            ELSE VMOf(Front(fr), tr, ac), susp, gens')
  BY <1>1, <1>2, <1>6, <1>9, <1>10, LeaveGood
<1> QED
  BY <1>6, <1>8, <1>11

LEMMA YieldNext ==
  ASSUME NEW fr, NEW tr, NEW ac, State(fr, tr, ac), Kept(gens), Yield
  PROVE  Good(v', susp, gens') /\ Kept(gens')
<1> DEFINE n == fr[Len(fr)].etraps
           g == fr[Len(fr)].gen
           rest == Len(tr) - n
           tr2 == SubSeq(tr, 1, rest)
           ac2 == [ac EXCEPT ![Len(ac)] = [ac[Len(ac)] EXCEPT !.traps = ac[Len(ac)].traps + (0 - n)]]
           ts == Reverse(Rebase(SubSeq(tr, rest + 1, Len(tr)), -Len(fr)))
           r == [state |-> "suspended", etraps |-> ts, root |-> fr[Len(fr)].root]
           mid == [v EXCEPT !.etraps = SubSeq(@, 1, rest), !.acts[Len(v.acts)].traps = @ - n]
<1>1. v = VMOf(fr, tr, ac) /\ Sound(fr, tr, ac, susp) /\ Placed(fr, gens)
      /\ Len(ac) <= MaxNative
      /\ fr \in Seq(FrameT) /\ tr \in Seq(TrapT) /\ ac \in Seq(ActT)
  BY DEF State
<1>2. Len(ac) > 0 /\ ac[Len(ac)].kind = "exec" /\ v.frames = fr /\ v.etraps = tr /\ v.acts = ac
      /\ v.base = Len(fr) /\ Ci(v) = fr[Len(fr)]
  BY StateParts DEF Yield
<1>3. Len(fr) > 0 /\ fr[Len(fr)] \in FrameT /\ n \in Nat /\ n <= Len(tr) /\ n <= MaxTraps
      /\ TopTraps(tr, Len(fr), n) /\ ac[Len(ac)] \in ActT
  BY <1>1, <1>2, TopFrame
<1>4. /\ g # None /\ (n > 0 => g \in TryGen)
      /\ gens' = [gens EXCEPT ![g] = r]
      /\ v' = IF fr[Len(fr)].root THEN ExecuteReturns(LeaveFrame(mid), TRUE) ELSE LeaveFrame(mid)
  BY <1>2 DEF Yield
<1>5. g \in Gen /\ fr[Len(fr)].root \in BOOLEAN
  BY <1>3, <1>4 DEF FrameT
<1>6. fr[Len(fr)].root => g \in ApiGen
  <2>1. Len(fr) \in 1 .. Len(fr)
    BY <1>1, <1>3
  <2> QED
    BY <2>1, <1>1, <1>4 DEF Placed
<1>l. Len(tr) \in Nat /\ Len(fr) \in Nat /\ n \in 0 .. MaxTraps /\ rest \in 0 .. Len(tr)
      /\ 0 - n \in Int
  <2>1. Len(tr) \in Nat /\ Len(fr) \in Nat
    BY <1>1
  <2> QED
    BY <2>1, <1>3, Bounds
<1>7. tr2 \in Seq(TrapT) /\ Len(tr2) = rest /\ Agree(tr, tr2, 1, rest)
  <2> HIDE DEF rest
  <2> QED
    BY <1>1, <1>l, LowerTraps
<1>8. ts \in Seq(SavedT) /\ Len(ts) = n /\ Saved(ts)
  <2>1. ts = Reverse(Rebase(SubSeq(tr, (Len(tr) - n) + 1, Len(tr)), -Len(fr)))
    OBVIOUS
  <2> HIDE DEF ts, n
  <2> QED
    BY <2>1, <1>1, <1>3, <1>l, TrapsTaken
<1>c. ac2 = [ac EXCEPT ![Len(ac)] = [ac[Len(ac)] EXCEPT !.traps = ac[Len(ac)].traps + (0 - n)]]
  OBVIOUS
<1>9. ac2 \in Seq(ActT) /\ Retop(ac, ac2, 0 - n) /\ Agree(ac, ac2, 1, Len(ac) - 1)
      /\ Len(ac2) = Len(ac)
  <2> HIDE DEF ac2, n
  <2> QED
    BY <1>1, <1>2, <1>c, <1>l, RetopTraps
<1>10. mid = VMOf(fr, tr2, ac2)
  <2>1. ac[Len(ac)].traps - n = ac[Len(ac)].traps + (0 - n)
    <3>1. ac[Len(ac)].traps \in Int
      BY <1>3, ActTypes
    <3> HIDE DEF n
    <3> QED
      BY <3>1, <1>l
  <2>2. mid = [v EXCEPT !.etraps = tr2, !.acts = ac2]
    <3> HIDE DEF n, rest
    <3> QED
      BY <1>2, <2>1
  <2> HIDE DEF tr2, ac2, mid
  <2>3. mid \in VMSet(fr, tr2, ac2)
    BY <1>1, <2>2, <1>9 DEF VMOf, VMSet
  <2> QED
    BY <2>3, VMIs
<1> HIDE DEF mid, tr2, ac2, ts
<1>11. LeaveFrame(mid) = VMOf(Front(fr), tr2, ac2)
  BY <1>1, <1>3, <1>10, VMFrames
<1>12. r \in GenT /\ KeptBy(g, r) /\ r.state = "suspended"
  <2>1. r \in GenT /\ r.state = "suspended"
    BY <1>5, <1>8 DEF GenT
  <2>2. ts # <<>> => n > 0
    BY <1>8
  <2>3. KeptBy(g, r)
    BY <2>2, <1>4, <1>6, <1>8 DEF KeptBy
  <2> QED
    BY <2>1, <2>3
<1> HIDE DEF r, g
<1>13. Kept(gens') /\ SameStates(gens, gens', g) /\ gens'[g].state # "running"
  <2>1. Kept([gens EXCEPT ![g] = r]) /\ [gens EXCEPT ![g] = r][g] = r
        /\ SameStates(gens, [gens EXCEPT ![g] = r], g)
    BY <1>5, <1>12, KeptSet
  <2> QED
    BY <2>1, <1>4, <1>12
<1>14. SameStates(gens, gens', fr[Len(fr)].gen)
       /\ (fr[Len(fr)].gen # None => gens'[fr[Len(fr)].gen].state # "running")
  BY <1>13 DEF g
<1>15. Len(tr2) = Len(tr) - fr[Len(fr)].etraps /\ Agree(tr, tr2, 1, Len(tr2))
       /\ Retop(ac, ac2, 0 - fr[Len(fr)].etraps)
  BY <1>7, <1>9
<1>16. Good(IF fr[Len(fr)].root THEN ExecuteReturns(VMOf(Front(fr), tr2, ac2), TRUE)
            ELSE VMOf(Front(fr), tr2, ac2), susp, gens')
  BY <1>1, <1>2, <1>7, <1>9, <1>14, <1>15, LeaveGood
<1> QED
  BY <1>4, <1>11, <1>13, <1>16

LEMMA NewGeneratorNext ==
  ASSUME NEW fr, NEW tr, NEW ac, State(fr, tr, ac), Kept(gens),
         NEW g \in Gen, NewGenerator(g)
  PROVE  Good(v', susp, gens') /\ Kept(gens')
<1> DEFINE r == [NoGen EXCEPT !.state = "suspended"]
<1>1. v' = VMOf(fr, tr, ac) /\ Sound(fr, tr, ac, susp) /\ Placed(fr, gens)
      /\ Len(ac) <= MaxNative /\ fr \in Seq(FrameT)
  BY DEF State, NewGenerator
<1>2. gens' = [gens EXCEPT ![g] = r] /\ gens[g].state # "running"
  BY DEF NewGenerator
<1>3. r \in GenT /\ r.state = "suspended" /\ KeptBy(g, r)
  BY NoTraps DEF NoGen, GenT, KeptBy
<1> HIDE DEF r
<1>4. Kept(gens') /\ SameStates(gens, gens', g) /\ gens'[g].state # "running"
  <2>1. Kept([gens EXCEPT ![g] = r]) /\ [gens EXCEPT ![g] = r][g] = r
        /\ SameStates(gens, [gens EXCEPT ![g] = r], g)
    BY <1>3, KeptSet
  <2> QED
    BY <2>1, <1>2, <1>3
<1>5. Placed(fr, gens')
  <2>1. \A i \in 1 .. Len(fr) : fr[i].gen # None =>
          fr[i].gen \in Gen /\ fr[i].gen # g
    BY <1>1, <1>2, GenOfFrame DEF Placed
  <2>2. \A i \in 1 .. Len(fr) : fr[i].gen # None => gens'[fr[i].gen].state = "running"
    BY <1>1, <1>4, <2>1 DEF Placed, SameStates
  <2>3. \A h \in Gen : gens'[h].state = "running" => gens[h].state = "running"
    BY <1>4 DEF SameStates
  <2> QED
    BY <2>2, <2>3, <1>1 DEF Placed
<1> QED
  BY <1>1, <1>4, <1>5, GoodVM

(* A generator comes back on top of the stack.                             *)
LEMMA FrameBack ==
  ASSUME NEW fr \in Seq(FrameT), NEW tr \in Seq(TrapT), NEW ac, Kept(gens), NEW g \in Gen
  PROVE  \E tr2 \in Seq(TrapT) :
            /\ OnTop(tr, tr2, Len(fr) + 1, Len(gens[g].etraps))
            /\ ResumeFrame(VMOf(fr, tr, ac), g)
                 = VMOf(Append(fr, Frame("script", g, Len(gens[g].etraps), gens[g].root)), tr2, ac)
            /\ Len(gens[g].etraps) \in 0 .. MaxTraps /\ gens[g].root \in BOOLEAN
            /\ gens[g].root => g \in ApiGen
            /\ UsageTraps /\ g \in ForeachGen => Len(gens[g].etraps) = 0
<1> DEFINE ts == gens[g].etraps
           tr2 == tr \o Rebase(Reverse(ts), Len(fr) + 1)
           f == Frame("script", g, Len(Reverse(ts)), gens[g].root)
           fr2 == Append(fr, f)
           u == EnterFrame(VMOf(fr, tr, ac), f)
<1>1. ts \in Seq(SavedT) /\ Saved(ts) /\ gens[g].root \in BOOLEAN /\ KeptBy(g, gens[g])
  BY GenFacts
<1>2. Len(fr) + 1 \in Nat
  OBVIOUS
<1>3. tr2 \in Seq(TrapT) /\ OnTop(tr, tr2, Len(fr) + 1, Len(ts)) /\ Len(Reverse(ts)) = Len(ts)
  <2> HIDE DEF ts
  <2> QED
    BY <1>1, <1>2, TrapsBack
<1>4. Len(ts) \in 0 .. MaxTraps
  <2> HIDE DEF ts
  <2> QED
    BY <1>1, Bounds DEF Saved
<1>5. f \in FrameT /\ f = Frame("script", g, Len(ts), gens[g].root)
  <2> HIDE DEF ts
  <2> QED
    BY <1>1, <1>3, <1>4, NewFrames
<1>6. ResumeFrame(VMOf(fr, tr, ac), g) = [u EXCEPT !.etraps = @ \o Rebase(Reverse(ts), u.base)]
  BY DEF ResumeFrame
<1> HIDE DEF f
<1>7. u = VMOf(fr2, tr, ac) /\ Len(fr2) = Len(fr) + 1
  BY <1>5, VMFrames, AppendFacts
<1>8. u.etraps = tr /\ u.base = Len(fr) + 1
  <2> HIDE DEF u, fr2
  <2> QED
    BY <1>7, VMParts
<1>9. ResumeFrame(VMOf(fr, tr, ac), g) = [VMOf(fr2, tr, ac) EXCEPT !.etraps = tr2]
  <2> HIDE DEF u, fr2, ts
  <2> QED
    BY <1>6, <1>7, <1>8
<1>10. ResumeFrame(VMOf(fr, tr, ac), g) = VMOf(fr2, tr2, ac)
  <2> HIDE DEF fr2, tr2
  <2>1. [VMOf(fr2, tr, ac) EXCEPT !.etraps = tr2] \in VMSet(fr2, tr2, ac)
    BY DEF VMOf, VMSet
  <2>2. [VMOf(fr2, tr, ac) EXCEPT !.etraps = tr2] = VMOf(fr2, tr2, ac)
    BY <2>1, VMIs
  <2> QED
    BY <1>9, <2>2
<1>11. gens[g].root => g \in ApiGen
  BY <1>1 DEF KeptBy
<1>12. UsageTraps /\ g \in ForeachGen => Len(ts) = 0
  <2>1. UsageTraps /\ g \in ForeachGen => ts = <<>>
    BY <1>1 DEF KeptBy, UsageTraps
  <2> QED
    BY <2>1
<1>13. fr2 = Append(fr, Frame("script", g, Len(gens[g].etraps), gens[g].root))
  BY <1>5
<1> HIDE DEF tr2, fr2
<1> QED
  BY <1>1, <1>3, <1>4, <1>10, <1>11, <1>12, <1>13

LEMMA ResumeNext ==
  ASSUME UsageRoot, NEW fr, NEW tr, NEW ac, State(fr, tr, ac), Kept(gens),
         NEW g \in Gen, Resume(g)
  PROVE  Good(v', susp, gens') /\ Kept(gens')
<1>1. v = VMOf(fr, tr, ac) /\ Sound(fr, tr, ac, susp) /\ Placed(fr, gens)
      /\ Len(ac) <= MaxNative
      /\ fr \in Seq(FrameT) /\ tr \in Seq(TrapT) /\ ac \in Seq(ActT)
  BY DEF State
<1>2. Len(ac) > 0 /\ ac[Len(ac)].kind = "exec" /\ v.acts = ac
  BY StateParts DEF Resume
<1>3. CASE gens[g].state # "suspended"
  <2>1. InScript /\ v' = Throw(v) /\ gens' = gens
    BY <1>3 DEF Resume
  <2>2. Good(v', susp, gens)
    BY <2>1, ThrowNext
  <2> QED
    BY <2>1, <2>2
<1>4. CASE gens[g].state = "suspended"
  <2> DEFINE n == Len(gens[g].etraps)
             f == Frame("script", g, n, gens[g].root)
             fr2 == Append(fr, f)
             ac2 == [ac EXCEPT ![Len(ac)] = [ac[Len(ac)] EXCEPT !.traps = ac[Len(ac)].traps + n]]
  <2>1. v' = [ResumeFrame(v, g) EXCEPT !.acts[Len(ac)].traps = @ + n] /\ gens' = Resumed(g)
        /\ g \in ResumeGen
    BY <1>2, <1>4 DEF Resume
  <2>2. PICK tr2 \in Seq(TrapT) :
          /\ OnTop(tr, tr2, Len(fr) + 1, n)
          /\ ResumeFrame(VMOf(fr, tr, ac), g) = VMOf(fr2, tr2, ac)
          /\ n \in 0 .. MaxTraps /\ gens[g].root \in BOOLEAN
          /\ gens[g].root => g \in ApiGen
    BY <1>1, FrameBack
  <2>3. ~gens[g].root
    BY <2>1, <2>2 DEF UsageRoot
  <2>4. f \in FrameT /\ f.kind = "script" /\ f.gen = g /\ f.etraps = n /\ f.root = gens[g].root
    <3> HIDE DEF n
    <3> QED
      BY <2>2, NewFrames
  <2>n. n \in Int
    BY <2>2
  <2>c. ac2 = [ac EXCEPT ![Len(ac)] = [ac[Len(ac)] EXCEPT !.traps = ac[Len(ac)].traps + n]]
    OBVIOUS
  <2> HIDE DEF f, n
  <2>5. fr2 \in Seq(FrameT) /\ Len(fr2) = Len(fr) + 1 /\ fr2[Len(fr2)] = f
        /\ Agree(fr, fr2, 1, Len(fr))
    BY <1>1, <2>4, AppendFacts
  <2>6. ac2 \in Seq(ActT) /\ Retop(ac, ac2, n) /\ Len(ac2) = Len(ac)
    <3> HIDE DEF ac2
    <3> QED
      BY <1>1, <1>2, <2>c, <2>n, RetopTraps
  <2>7. v' = VMOf(fr2, tr2, ac2)
    <3> HIDE DEF fr2
    <3>1. v' = [VMOf(fr2, tr2, ac) EXCEPT !.acts[Len(ac)].traps = @ + n]
      BY <1>1, <2>1, <2>2
    <3>2. v' = [VMOf(fr2, tr2, ac) EXCEPT !.acts = ac2]
      <4>1. VMOf(fr2, tr2, ac).acts = ac
        BY VMParts
      <4> QED
        BY <3>1, <4>1
    <3> HIDE DEF ac2
    <3>3. v' \in VMSet(fr2, tr2, ac2)
      BY <3>2, <2>6 DEF VMOf, VMSet
    <3> QED
      BY <3>3, VMIs
  <2> HIDE DEF fr2, ac2
  <2>8. OnTop(tr, tr2, Len(fr2), fr2[Len(fr2)].etraps)
    BY <2>2, <2>4, <2>5
  <2>9. Sound(fr2, tr2, ac2, susp)
    BY <1>1, <1>2, <2>2, <2>3, <2>4, <2>5, <2>6, <2>8, <2>n, FrameEntered
  <2>10. Kept(gens') /\ SameStates(gens, gens', g) /\ gens'[g].state = "running"
    BY <2>1, ResumedKept
  <2>11. Placed(fr2, gens')
    BY <1>1, <1>4, <2>3, <2>4, <2>5, <2>10, PlacedRun
  <2>12. Len(ac2) <= MaxNative
    BY <1>1, <2>6
  <2> QED
    BY <2>7, <2>9, <2>10, <2>11, <2>12, GoodVM
<1> QED
  BY <1>3, <1>4

LEMMA ForeachNext ==
  ASSUME UsageRoot, NEW fr, NEW tr, NEW ac, State(fr, tr, ac), Kept(gens),
         NEW g \in Gen, ForeachStep(g)
  PROVE  Good(v', susp, gens') /\ Kept(gens')
<1>1. v = VMOf(fr, tr, ac) /\ Sound(fr, tr, ac, susp) /\ Placed(fr, gens)
      /\ Len(ac) <= MaxNative
      /\ fr \in Seq(FrameT) /\ tr \in Seq(TrapT) /\ ac \in Seq(ActT)
  BY DEF State
<1>2. Len(ac) > 0 /\ ac[Len(ac)].kind = "exec"
  BY StateParts DEF ForeachStep
<1>3. CASE gens[g].state # "suspended"
  <2>1. InScript /\ v' = Throw(v) /\ gens' = gens
    BY <1>3 DEF ForeachStep
  <2>2. Good(v', susp, gens)
    BY <2>1, ThrowNext
  <2> QED
    BY <2>1, <2>2
<1>4. CASE gens[g].state = "suspended"
  <2> DEFINE n == Len(gens[g].etraps)
             f == Frame("script", g, n, gens[g].root)
             fr2 == Append(fr, f)
  <2>1. v' = ResumeFrame(v, g) /\ gens' = Resumed(g) /\ g \in ForeachGen
    BY <1>4 DEF ForeachStep
  <2>2. PICK tr2 \in Seq(TrapT) :
          /\ OnTop(tr, tr2, Len(fr) + 1, n)
          /\ ResumeFrame(VMOf(fr, tr, ac), g) = VMOf(fr2, tr2, ac)
          /\ n \in 0 .. MaxTraps /\ gens[g].root \in BOOLEAN
          /\ gens[g].root => g \in ApiGen
          /\ UsageTraps /\ g \in ForeachGen => n = 0
    BY <1>1, FrameBack
  <2>3. ~gens[g].root
    BY <2>1, <2>2 DEF UsageRoot
  <2>4. f \in FrameT /\ f.kind = "script" /\ f.gen = g /\ f.etraps = n /\ f.root = gens[g].root
    <3> HIDE DEF n
    <3> QED
      BY <2>2, NewFrames
  <2> HIDE DEF f, n
  <2>5. fr2 \in Seq(FrameT) /\ Len(fr2) = Len(fr) + 1 /\ fr2[Len(fr2)] = f
        /\ Agree(fr, fr2, 1, Len(fr))
    BY <1>1, <2>4, AppendFacts
  <2>6. Retop(ac, ac, 0) /\ 0 \in Int
    BY <1>1, <1>2, RetopSame
  <2>7. v' = VMOf(fr2, tr2, ac)
    BY <1>1, <2>1, <2>2
  <2> HIDE DEF fr2
  <2>8. OnTop(tr, tr2, Len(fr2), fr2[Len(fr2)].etraps)
    BY <2>2, <2>4, <2>5
  <2>t. UsageTraps => 0 = fr2[Len(fr2)].etraps
    BY <2>1, <2>2, <2>4, <2>5
  <2>9. Sound(fr2, tr2, ac, susp)
    BY <1>1, <1>2, <2>2, <2>3, <2>4, <2>5, <2>6, <2>8, <2>t, FrameEntered
  <2>10. Kept(gens') /\ SameStates(gens, gens', g) /\ gens'[g].state = "running"
    BY <2>1, ResumedKept
  <2>11. Placed(fr2, gens')
    BY <1>1, <1>4, <2>3, <2>4, <2>5, <2>10, PlacedRun
  <2> QED
    BY <1>1, <2>7, <2>9, <2>10, <2>11, GoodVM
<1> QED
  BY <1>3, <1>4

LEMMA HostResumeNext ==
  ASSUME NEW fr, NEW tr, NEW ac, State(fr, tr, ac), Kept(gens),
         NEW g \in Gen, NEW raise \in BOOLEAN, HostResume(g, raise)
  PROVE  Good(v', susp, gens') /\ Kept(gens')
<1> DEFINE n == Len(gens[g].etraps)
           why == IF Idle THEN "host" ELSE "native"
           a == Activation("exec", n, raise, why)
           ac2 == Append(ac, a)
           h == Frame("script", g, n, gens[g].root)
           f == Frame("script", g, n, TRUE)
           fr1 == Append(fr, h)
           fr2 == [fr1 EXCEPT ![Len(fr1)] = f]
           w == ResumeFrame(Enter(v, a), g)
<1>1. v = VMOf(fr, tr, ac) /\ Sound(fr, tr, ac, susp) /\ Placed(fr, gens)
      /\ fr \in Seq(FrameT) /\ tr \in Seq(TrapT) /\ ac \in Seq(ActT)
  BY DEF State
<1>2. CanNest(v) <=> Len(ac) + 1 <= MaxNative
  BY StateParts
<1>3. /\ g \in ApiGen /\ CanNest(v) /\ gens[g].state = "suspended"
      /\ v' = [w EXCEPT !.frames[Len(w.frames)].root = TRUE]
      /\ gens' = Resumed(g)
  BY DEF HostResume
<1>4. PICK tr2 \in Seq(TrapT) :
         /\ OnTop(tr, tr2, Len(fr) + 1, n)
         /\ ResumeFrame(VMOf(fr, tr, ac2), g) = VMOf(fr1, tr2, ac2)
         /\ n \in 0 .. MaxTraps /\ gens[g].root \in BOOLEAN
  BY <1>1, FrameBack
<1>w. why \in {"host", "script", "native", "metamethod", "handler"}
      /\ why \notin {"metamethod", "handler"}
  OBVIOUS
<1>n. n \in Int
  BY <1>4
<1> HIDE DEF why, n
<1>5. a \in ActT /\ a.kind = "exec" /\ a.traps = n /\ a.why = why
  BY <1>w, <1>n, NewParts
<1>h. h \in FrameT
  BY <1>4, NewFrames
<1>6. f \in FrameT /\ f.kind = "script" /\ f.gen = g /\ f.etraps = n /\ f.root = TRUE
  <2>1. n \in 0 .. MaxTraps
    BY <1>4
  <2> QED
    BY <2>1 DEF Frame, FrameT
<1>7. f = [h EXCEPT !.root = TRUE]
  <2> DEFINE x == [h EXCEPT !.root = TRUE]
  <2>1. x \in [kind : {"script"}, gen : {g}, etraps : {n}, root : {TRUE}]
    BY DEF Frame
  <2> HIDE DEF x
  <2>2. x = Frame("script", g, n, TRUE)
    BY <2>1, FrameIs
  <2> QED
    BY <2>2 DEF x
<1> HIDE DEF a, f, h
<1>8. ac2 \in Seq(ActT) /\ Len(ac2) = Len(ac) + 1 /\ ac2[Len(ac2)] = a
      /\ Agree(ac, ac2, 1, Len(ac))
  BY <1>1, <1>5, AppendFacts
<1>9. w = VMOf(fr1, tr2, ac2) /\ w.frames = fr1
  <2>1. Enter(v, a) = VMOf(fr, tr, ac2)
    BY <1>1, <1>5, VMActs
  <2>2. w = VMOf(fr1, tr2, ac2)
    BY <2>1, <1>4
  <2> HIDE DEF w, fr1, ac2
  <2> QED
    BY <2>2, VMParts
<1>10. fr1 \in Seq(FrameT) /\ Len(fr1) = Len(fr) + 1 /\ fr1[Len(fr1)] = h
       /\ Agree(fr, fr1, 1, Len(fr))
  BY <1>1, <1>h, AppendFacts
<1> HIDE DEF fr1
<1>11. fr2 \in Seq(FrameT) /\ Len(fr2) = Len(fr) + 1 /\ fr2[Len(fr2)] = f
       /\ Agree(fr, fr2, 1, Len(fr))
  <2>1. Len(fr1) > 0 /\ Len(fr1) - 1 = Len(fr)
    BY <1>1, <1>10
  <2>3. fr1 \in Seq(FrameT) /\ Len(fr1) > 0 /\ f \in FrameT
    BY <1>6, <1>10, <2>1
  <2>2. fr2 \in Seq(FrameT) /\ Len(fr2) = Len(fr1) /\ fr2[Len(fr1)] = f
        /\ Agree(fr1, fr2, 1, Len(fr1) - 1)
    BY <2>3, ExceptTop
  <2> HIDE DEF fr2
  <2>4. Agree(fr, fr2, 1, Len(fr))
    BY <1>10, <2>1, <2>2 DEF Agree
  <2> QED
    BY <1>10, <2>2, <2>4
<1>12. fr2 = [fr1 EXCEPT ![Len(fr1)] = f]
  OBVIOUS
<1> HIDE DEF w, fr1, fr2, ac2
<1>13. v' = VMOf(fr2, tr2, ac2)
  <2>1. v' = [w EXCEPT !.frames[Len(fr1)].root = TRUE]
    BY <1>3, <1>9
  <2>2. v' = [w EXCEPT !.frames = fr2]
    BY <2>1, <1>7, <1>9, <1>10, <1>12
  <2>3. v' = [VMOf(fr1, tr2, ac2) EXCEPT !.frames = fr2]
    BY <2>2, <1>9
  <2>4. v' \in VMSet(fr2, tr2, ac2)
    BY <2>3, <1>10, <1>11 DEF VMOf, VMSet
  <2> QED
    BY <2>4, VMIs
<1>14. OnTop(tr, tr2, Len(fr2), fr2[Len(fr2)].etraps)
  BY <1>4, <1>6, <1>11
<1>15. Reason(ac2, Len(ac2))
  BY <1>5, <1>8, <1>w DEF Reason
<1>16. Sound(fr2, tr2, ac2, susp)
  BY <1>1, <1>4, <1>5, <1>6, <1>8, <1>11, <1>14, <1>15, ExecEntered
<1>17. Kept(gens') /\ SameStates(gens, gens', g) /\ gens'[g].state = "running"
  BY <1>3, ResumedKept
<1>18. Placed(fr2, gens')
  BY <1>1, <1>3, <1>6, <1>11, <1>17, PlacedRun
<1>19. Len(ac2) <= MaxNative
  BY <1>2, <1>3, <1>8
<1> QED
  BY <1>13, <1>16, <1>17, <1>18, <1>19, GoodVM

LEMMA SuspendNext ==
  ASSUME NEW fr, NEW tr, NEW ac, State(fr, tr, ac), Suspend
  PROVE  Good(v', susp', gens) /\ susp' \in SuspT
<1> DEFINE w == LeaveFrame(Leave(v))
           fr2 == Front(fr)
           ac1 == Front(ac)
           ac2 == Front(ac1)
<1>1. InNative /\ ~susp.on /\ v.nnative = 2
      /\ susp' = [on |-> TRUE, root |-> Ci(w).root, traps |-> Top(w).traps]
      /\ v' = ExecuteReturns(w, TRUE)
  BY DEF Suspend
<1>2. tr \in Seq(TrapT) /\ v.nnative = Len(ac)
  BY StateParts DEF State
<1>3. /\ w = VMOf(fr2, tr, ac1) /\ Sound(fr2, tr, ac1, susp) /\ Placed(fr2, gens)
      /\ fr2 \in Seq(FrameT) /\ ac1 \in Seq(ActT)
      /\ Len(fr2) > 0 /\ Len(ac1) = Len(ac) - 1 /\ Len(ac1) <= MaxNative
  BY <1>1, NativeLeaves
<1>4. ac1[Len(ac1)].kind = "exec"
  <2>1. ac1[Len(ac1)] = ac[Len(ac) - 1] /\ ac[Len(ac) - 1].kind = "exec"
    BY <1>1, NativeLeaves
  <2> QED
    BY <2>1
<1>5. Len(ac1) = 1 /\ Len(ac1) > 0 /\ 1 \in 1 .. Len(ac1) /\ Len(fr2) \in 1 .. Len(fr2)
  <2>1. Len(ac1) = 1
    BY <1>1, <1>2, <1>3
  <2>2. Len(fr2) \in 1 .. Len(fr2)
    BY <1>3
  <2> QED
    BY <2>1, <2>2
<1> HIDE DEF w, fr2, ac1
<1>6. ac2 \in Seq(ActT) /\ Len(ac2) = 0
  <2>1. ac2 \in Seq(ActT) /\ Len(ac2) = Len(ac1) - 1
    BY <1>3, <1>5, FrontFacts
  <2> QED
    BY <2>1, <1>5
<1>7. Ci(w) = fr2[Len(fr2)] /\ Top(w) = ac1[1]
  <2>1. w.frames = fr2 /\ w.acts = ac1
    BY <1>3, VMParts
  <2> QED
    BY <2>1, <1>5 DEF Ci, Top, Last
<1>8. susp'.on /\ susp'.root = fr2[Len(fr2)].root /\ susp'.traps = ac1[1].traps
  BY <1>1, <1>7
<1>9. susp' \in SuspT
  <2>1. fr2[Len(fr2)] \in FrameT /\ ac1[1] \in ActT
    BY <1>3, <1>5
  <2>2. fr2[Len(fr2)].root \in BOOLEAN /\ ac1[1].traps \in Int
    BY <2>1, ActTypes DEF FrameT
  <2> QED
    BY <2>2, <1>1, <1>7 DEF SuspT
<1>10. v' = VMOf(fr2, tr, ac2)
  <2>1. v' = Leave(w)
    BY <1>1 DEF ExecuteReturns
  <2>2. ac1[1] \in ActT
    BY <1>3, <1>5
  <2>3. Leave(VMOf(fr2, tr, ac1)) = VMOf(fr2, tr, ac2)
    BY <1>3, <1>5, <2>2, VMActs
  <2> QED
    BY <2>1, <2>3, <1>3
<1> HIDE DEF ac2
<1>11. Sound(fr2, tr, ac2, susp')
  <2>1. ac1[1].kind = "exec"
    BY <1>4, <1>5
  <2> QED
    BY <1>1, <1>3, <1>5, <1>6, <1>8, <2>1, Slept
<1>12. Len(ac2) <= MaxNative
  BY <1>6, Bounds
<1> QED
  BY <1>3, <1>9, <1>10, <1>11, <1>12, GoodVM

LEMMA WakeUpNext ==
  ASSUME NEW fr, NEW tr, NEW ac, State(fr, tr, ac), susp \in SuspT,
         NEW raise \in BOOLEAN, NEW throw \in BOOLEAN, WakeUp(raise, throw)
  PROVE  Good(v', susp', gens) /\ susp' \in SuspT
<1> DEFINE a == Activation("exec", susp.traps, raise, "host")
           ac2 == Append(ac, a)
           w == [Enter(v, a) EXCEPT !.frames[Len(v.frames)].root = susp.root]
<1>1. v = VMOf(fr, tr, ac) /\ Sound(fr, tr, ac, susp) /\ Placed(fr, gens)
      /\ fr \in Seq(FrameT) /\ tr \in Seq(TrapT) /\ ac \in Seq(ActT)
  BY DEF State
<1>2. v.frames = fr /\ (CanNest(v) <=> Len(ac) + 1 <= MaxNative) /\ (Idle <=> Len(ac) = 0)
  BY StateParts
<1>3. /\ Len(ac) = 0 /\ susp.on /\ Len(ac) + 1 <= MaxNative
      /\ susp' = [susp EXCEPT !.on = FALSE]
      /\ v' = IF throw THEN Throw(w) ELSE w
  BY <1>2 DEF WakeUp
<1>4. susp' \in SuspT /\ ~susp'.on
  BY <1>3 DEF SuspT
<1>5. susp.traps \in Int
  BY DEF SuspT
<1>6. a \in ActT /\ a.kind = "exec" /\ a.traps = susp.traps /\ a.why = "host"
  BY <1>5, NewParts
<1> HIDE DEF a
<1>7. ac2 \in Seq(ActT) /\ Len(ac2) = Len(ac) + 1 /\ ac2[Len(ac2)] = a
  BY <1>1, <1>6, AppendFacts
<1>8. Enter(v, a) = VMOf(fr, tr, ac2)
  BY <1>1, <1>6, VMActs
<1> HIDE DEF ac2
<1>9. Len(ac2) = 1 /\ ac2[1] = a /\ Reason(ac2, 1)
  <2>1. Len(ac2) = 1
    BY <1>3, <1>7
  <2>2. ac2[1] = a
    BY <2>1, <1>7
  <2> QED
    BY <2>1, <2>2, <1>6 DEF Reason
<1>10. Sound(fr, tr, ac2, susp') /\ Len(fr) > 0 /\ fr[Len(fr)].root = susp.root
  <2>1. Len(ac2) = 1 /\ ac2[1].kind = "exec" /\ ac2[1].traps = susp.traps
    BY <1>6, <1>9
  <2>2. Len(ac) = 0 /\ susp.on /\ Sound(fr, tr, ac, susp)
    BY <1>1, <1>3
  <2> QED
    BY <1>4, <1>7, <1>9, <2>1, <2>2, Woken
<1>11. w = VMOf(fr, tr, ac2)
  <2> DEFINE u == VMOf(fr, tr, ac2)
  <2>1. w = [u EXCEPT !.frames[Len(fr)].root = susp.root] /\ u.frames = fr
    BY <1>2, <1>8, VMParts
  <2>2. [fr[Len(fr)] EXCEPT !.root = susp.root] = fr[Len(fr)]
    <3>1. fr[Len(fr)] \in FrameT
      BY <1>1, <1>10
    <3> QED
      BY <3>1, <1>10 DEF FrameT
  <2>3. [fr EXCEPT ![Len(fr)] = fr[Len(fr)]] = fr
    BY <1>1, <1>10
  <2> HIDE DEF u, w
  <2>4. w = [u EXCEPT !.frames = fr]
    BY <2>1, <2>2, <2>3
  <2>5. w \in VMSet(fr, tr, ac2)
    BY <2>4 DEF u, VMOf, VMSet
  <2> QED
    BY <2>5, VMIs
<1> HIDE DEF w
<1>12. Len(ac2) <= MaxNative
  BY <1>3, <1>7
<1>13. CASE throw
  <2>1. Good(Throw(VMOf(fr, tr, ac2)), susp', gens)
    <3>1. Len(ac2) > 0 /\ ac2[Len(ac2)].kind = "exec"
      BY <1>6, <1>9
    <3> QED
      BY <3>1, <1>1, <1>10, <1>12, ThrowGood
  <2> QED
    BY <2>1, <1>3, <1>4, <1>11, <1>13
<1>14. CASE ~throw
  <2>1. Good(VMOf(fr, tr, ac2), susp', gens)
    BY <1>1, <1>10, <1>12, GoodVM
  <2> QED
    BY <2>1, <1>3, <1>4, <1>11, <1>14
<1> QED
  BY <1>13, <1>14

LEMMA InitGood ==
  ASSUME Init
  PROVE  IInv
<1>1. v = VMOf(<<>>, <<>>, <<>>)
  BY DEF Init, VMOf
<1>2. <<>> \in Seq(FrameT) /\ <<>> \in Seq(TrapT) /\ <<>> \in Seq(ActT)
  OBVIOUS
<1>l. Len(<<>>) = 0
  OBVIOUS
<1>3. susp \in SuspT /\ ~susp.on
  BY DEF Init, SuspT
<1>4. Kept(gens)
  <2>1. NoGen \in GenT
    BY NoTraps DEF NoGen, GenT
  <2>2. \A g \in Gen : KeptBy(g, NoGen)
    BY NoTraps DEF NoGen, KeptBy
  <2> QED
    BY <2>1, <2>2 DEF Init, Kept
<1>5. Sound(<<>>, <<>>, <<>>, susp)
  <2> DEFINE off == [i \in 0 .. Len(<<>>) |-> 0]
  <2>0. off \in [0 .. Len(<<>>) -> Nat] /\ off[0] = 0
    BY <1>l
  <2> HIDE DEF off
  <2>1. Laid(<<>>, <<>>, off)
    BY <2>0, <1>l DEF Laid
  <2>2. Matched(<<>>, <<>>, susp, off)
    <3>1. Rising(off, 0)
      BY DEF Rising
    <3>2. Sleeping(<<>>, susp, 0)
      BY <1>3 DEF Sleeping, OneRoot
    <3> QED
      BY <3>1, <3>2, <2>0, <1>l DEF Matched
  <2>3. Counted(<<>>, susp, off, off)
    BY <1>l, <1>3 DEF Counted
  <2>4. SoundBy(<<>>, <<>>, <<>>, susp, off, off)
    BY <2>1, <2>2, <2>3 DEF SoundBy
  <2>5. Reasons(<<>>)
    BY <1>l DEF Reasons
  <2> QED
    BY <2>0, <2>4, <2>5, <1>2 DEF Sound
<1>6. Placed(<<>>, gens)
  <2>1. \A g \in Gen : gens[g].state # "running"
    BY DEF Init, NoGen
  <2> QED
    BY <2>1, <1>l DEF Placed
<1>7. Good(VMOf(<<>>, <<>>, <<>>), susp, gens)
  <2>1. Len(<<>>) <= MaxNative
    BY <1>l, Bounds
  <2> QED
    BY <2>1, <1>5, <1>6, GoodVM
<1> QED
  BY <1>1, <1>3, <1>4, <1>7 DEF IInv

LEMMA NextGood ==
  ASSUME UsageRoot, IInv, [Next]_vars
  PROVE  IInv'
<1> DEFINE fr == v.frames
           tr == v.etraps
           ac == v.acts
<1>1. State(fr, tr, ac) /\ Kept(gens) /\ susp \in SuspT
  BY Named DEF IInv
<1> HIDE DEF fr, tr, ac
<1> SUFFICES Good(v', susp', gens') /\ Kept(gens') /\ susp' \in SuspT
  BY DEF IInv, Good, Kept, KeptBy, Saved
<1>2. ASSUME NEW g \in Gen, NewGenerator(g)
      PROVE  Good(v', susp', gens') /\ Kept(gens') /\ susp' \in SuspT
  <2>1. susp' = susp
    BY <1>2 DEF NewGenerator
  <2> QED
    BY <2>1, <1>1, <1>2, NewGeneratorNext
<1>3. ASSUME NEW g \in Gen, Resume(g)
      PROVE  Good(v', susp', gens') /\ Kept(gens') /\ susp' \in SuspT
  <2>1. susp' = susp
    BY <1>3 DEF Resume
  <2> QED
    BY <2>1, <1>1, <1>3, ResumeNext
<1>4. ASSUME NEW g \in Gen, ForeachStep(g)
      PROVE  Good(v', susp', gens') /\ Kept(gens') /\ susp' \in SuspT
  <2>1. susp' = susp
    BY <1>4 DEF ForeachStep
  <2> QED
    BY <2>1, <1>1, <1>4, ForeachNext
<1>5. ASSUME NEW g \in Gen, NEW raise \in BOOLEAN, HostResume(g, raise)
      PROVE  Good(v', susp', gens') /\ Kept(gens') /\ susp' \in SuspT
  <2>1. susp' = susp
    BY <1>5 DEF HostResume
  <2> QED
    BY <2>1, <1>1, <1>5, HostResumeNext
<1>6. CASE Yield
  <2>1. susp' = susp
    BY <1>6 DEF Yield
  <2> QED
    BY <2>1, <1>1, <1>6, YieldNext
<1>7. CASE Return
  <2>1. susp' = susp
    BY <1>7 DEF Return
  <2> QED
    BY <2>1, <1>1, <1>7, ReturnNext
<1>8. CASE Unwind
  <2>1. susp' = susp
    BY <1>8 DEF Unwind
  <2> QED
    BY <2>1, <1>1, <1>8, UnwindNext
<1>9. CASE CallScript
  <2>1. susp' = susp /\ gens' = gens
    BY <1>9 DEF CallScript
  <2> QED
    BY <2>1, <1>1, <1>9, CallScriptNext
<1>10. CASE CallNative
  <2>1. susp' = susp /\ gens' = gens
    BY <1>10 DEF CallNative
  <2> QED
    BY <2>1, <1>1, <1>10, CallNativeNext
<1>11. CASE CallMetaMethod
  <2>1. susp' = susp /\ gens' = gens
    BY <1>11 DEF CallMetaMethod
  <2> QED
    BY <2>1, <1>1, <1>11, ExecuteNext
<1>12. CASE PushTrap
  <2>1. susp' = susp /\ gens' = gens
    BY <1>12 DEF PushTrap
  <2> QED
    BY <2>1, <1>1, <1>12, PushTrapNext
<1>13. CASE PopTrap
  <2>1. susp' = susp /\ gens' = gens
    BY <1>13 DEF PopTrap
  <2> QED
    BY <2>1, <1>1, <1>13, PopTrapNext
<1>14. CASE ThrowOp
  <2>1. susp' = susp /\ gens' = gens /\ InScript /\ v' = Throw(v)
    BY <1>14 DEF ThrowOp
  <2> QED
    BY <2>1, <1>1, ThrowNext
<1>15. CASE Catch
  <2>1. susp' = susp /\ gens' = gens
    BY <1>15 DEF Catch
  <2> QED
    BY <2>1, <1>1, <1>15, CatchNext
<1>16. CASE NativeReturn
  <2>1. susp' = susp /\ gens' = gens
    BY <1>16 DEF NativeReturn
  <2> QED
    BY <2>1, <1>1, <1>16, NativeReturnNext
<1>17. CASE NativeFail
  <2>1. susp' = susp /\ gens' = gens
    BY <1>17 DEF NativeFail
  <2> QED
    BY <2>1, <1>1, <1>17, NativeFailNext
<1>18. CASE NativeTailCall
  <2>1. susp' = susp /\ gens' = gens
    BY <1>18 DEF NativeTailCall
  <2> QED
    BY <2>1, <1>1, <1>18, NativeTailCallNext
<1>19. CASE Suspend
  <2>1. gens' = gens
    BY <1>19 DEF Suspend
  <2> QED
    BY <2>1, <1>1, <1>19, SuspendNext
<1>20. ASSUME NEW raise \in BOOLEAN, NativeCall(raise) \/ HostCall(raise)
       PROVE  Good(v', susp', gens') /\ Kept(gens') /\ susp' \in SuspT
  <2>1. susp' = susp /\ gens' = gens
    BY <1>20 DEF NativeCall, HostCall
  <2> QED
    BY <2>1, <1>1, <1>20, ExecuteNext
<1>21. ASSUME NEW raise \in BOOLEAN, NEW throw \in BOOLEAN, WakeUp(raise, throw)
       PROVE  Good(v', susp', gens') /\ Kept(gens') /\ susp' \in SuspT
  <2>1. gens' = gens
    BY <1>21 DEF WakeUp
  <2> QED
    BY <2>1, <1>1, <1>21, WakeUpNext
<1>22. CASE UNCHANGED vars
  <2>1. susp' = susp /\ gens' = gens /\ v' = v
    BY <1>22 DEF vars
  <2>2. Good(v, susp, gens)
    BY DEF IInv
  <2> QED
    BY <2>1, <2>2, <1>1
<1> QED
  BY <1>2, <1>3, <1>4, <1>5, <1>6, <1>7, <1>8, <1>9, <1>10, <1>11, <1>12, <1>13, <1>14,
     <1>15, <1>16, <1>17, <1>18, <1>19, <1>20, <1>21, <1>22 DEF Next

(* The frames, the traps, the generators and the C++ stack fit together in *)
(* every state: the inductive invariant of the call stack.                 *)
THEOREM Invariance ==
  ASSUME UsageRoot
  PROVE  Spec => []IInv
<1>1. Init => IInv
  BY InitGood
<1>2. IInv /\ [Next]_vars => IInv'
  BY NextGood
<1> QED
  BY <1>1, <1>2, PTL DEF Spec

-----------------------------------------------------------------------------
(* Counting frames and activations.                                        *)

LEMMA LeastNumber ==
  ASSUME NEW T \in SUBSET Nat, T # {}
  PROVE  \E x \in T : \A y \in T : x <= y
<1> DEFINE R == OpToRel(<, Nat)
<1>1. IsWellFoundedOn(R, Nat)
  BY NatLessThanWellFounded
<1>2. \A x, y \in Nat : y < x => <<y, x>> \in R
  BY DEF OpToRel
<1> HIDE DEF R
<1>3. PICK x \in T : \A y \in T : ~(<<y, x>> \in R)
  BY <1>1, WFMin
<1>4. ASSUME NEW y \in T PROVE x <= y
  <2>1. x \in Nat /\ y \in Nat /\ ~(<<y, x>> \in R)
    BY <1>3
  <2>2. ~(y < x)
    BY <2>1, <1>2
  <2> QED
    BY <2>1, <2>2
<1> QED
  BY <1>4

(* A frame that no suspended Execute owns is one of some activation.       *)
LEMMA OwnerOf ==
  ASSUME NEW fr, NEW ac, NEW s, NEW seg \in [0 .. Len(ac) -> Nat], Len(ac) \in Nat,
         Matched(fr, ac, s, seg), NEW i \in 1 .. Len(fr), seg[0] < i
  PROVE  \E k \in 1 .. Len(ac) : seg[k - 1] < i /\ i <= seg[k]
<1> DEFINE T == {k \in 0 .. Len(ac) : i <= seg[k]}
<1>0. i \in Int /\ \A k \in 0 .. Len(ac) : seg[k] \in Nat
  OBVIOUS
<1>1. Len(ac) \in T
  BY DEF Matched
<1>2. T \in SUBSET Nat /\ T # {}
  BY <1>1
<1> HIDE DEF T
<1>3. PICK k \in T : \A y \in T : k <= y
  BY <1>2, LeastNumber
<1>4. k \in 0 .. Len(ac) /\ i <= seg[k]
  BY DEF T
<1>5. k # 0
  BY <1>0, <1>4
<1>6. k \in 1 .. Len(ac) /\ k - 1 \in 0 .. Len(ac) /\ ~(k <= k - 1)
  BY <1>4, <1>5
<1>7. k - 1 \notin T
  BY <1>3, <1>6
<1>8. ~(i <= seg[k - 1])
  BY <1>6, <1>7 DEF T
<1> QED
  BY <1>0, <1>4, <1>6, <1>8

LEMMA SegOrder ==
  ASSUME NEW m \in Nat, NEW seg \in [0 .. m -> Nat], Rising(seg, m),
         NEW j \in 0 .. m, NEW k \in 0 .. m
  PROVE  /\ seg[j] \in Nat /\ seg[k] \in Nat
         /\ j < k => seg[j] < seg[k]
         /\ j <= k => seg[j] <= seg[k]
<1>1. seg[j] \in Nat /\ seg[k] \in Nat
  OBVIOUS
<1>2. j < k => seg[j] < seg[k]
  BY DEF Rising
<1>3. j <= k => j < k \/ j = k
  OBVIOUS
<1> QED
  BY <1>1, <1>2, <1>3

LEMMA FiniteParts ==
  ASSUME NEW n \in Nat, NEW T \in SUBSET (1 .. n)
  PROVE  IsFiniteSet(T) /\ Cardinality(T) \in Nat
<1>1. IsFiniteSet(1 .. n)
  BY FS_Interval
<1>2. IsFiniteSet(T)
  BY <1>1, FS_Subset
<1> QED
  BY <1>2, FS_CardinalityType

(* A one-to-one map, by its three laws.                                    *)
Into(f, A, B) == f \in [A -> B]
OneToOne(f, A) == \A x, y \in A : f[x] = f[y] => x = y
Onto(f, A, B) == \A y \in B : \E x \in A : f[x] = y

LEMMA SameSize ==
  ASSUME NEW A, NEW B, NEW f, IsFiniteSet(A), Into(f, A, B), OneToOne(f, A), Onto(f, A, B)
  PROVE  Cardinality(B) = Cardinality(A)
<1>1. f \in [A -> B] /\ DOMAIN f = A
  BY DEF Into
<1>2. IsInjective(f)
  BY <1>1 DEF OneToOne, IsInjective
<1>3. f \in Injection(A, B)
  BY <1>1, <1>2 DEF Injection
<1>4. f \in Surjection(A, B)
  BY <1>1 DEF Onto, Surjection
<1>5. ExistsBijection(A, B)
  BY <1>3, <1>4 DEF ExistsBijection, Bijection
<1> QED
  BY <1>5, FS_Bijection

(* Frame b is one of activation k, or of the suspended Execute if k = 0.   *)
PartOf(s, seg, k, b) ==
    /\ b <= seg[k]
    /\ k > 0 => seg[k - 1] < b
    /\ k = 0 => (b > 0 <=> s.on)

(* The roots up to a frame are the Executes up to its activation.          *)
LEMMA CountRoots ==
  ASSUME NEW fr \in Seq(FrameT), NEW ac \in Seq(ActT), NEW s,
         NEW seg \in [0 .. Len(ac) -> Nat], Matched(fr, ac, s, seg),
         NEW k \in 0 .. Len(ac), NEW b \in 0 .. Len(fr), PartOf(s, seg, k, b)
  PROVE  UpTo(Roots(fr), b) = Asleep(s) + UpTo(Execs(ac), k)
<1>p. b <= seg[k] /\ (k > 0 => seg[k - 1] < b) /\ (k = 0 => (b > 0 <=> s.on))
  BY DEF PartOf
<1> DEFINE R == {j \in Roots(fr) : j <= b}
           X == {j \in Execs(ac) : j <= k}
           A == {j \in R : j <= seg[0]}
           B == {j \in R : seg[0] < j}
           f == [m \in X |-> seg[m - 1] + 1]
<1>l. Len(fr) \in Nat /\ Len(ac) \in Nat /\ b \in Nat /\ k \in Nat /\ seg[0] \in Nat
  OBVIOUS
<1>1. /\ seg[Len(ac)] = Len(fr) /\ Rising(seg, Len(ac))
      /\ \A m \in 1 .. Len(ac) : Segment(fr, ac, seg, m)
      /\ OneRoot(fr, 1, seg[0]) /\ (s.on <=> seg[0] > 0)
  BY DEF Matched, Sleeping
<1>2. DOMAIN fr = 1 .. Len(fr) /\ DOMAIN ac = 1 .. Len(ac)
  OBVIOUS
<1>3. /\ \A j : j \in R <=> j \in 1 .. Len(fr) /\ fr[j].root /\ j <= b
      /\ \A j : j \in X <=> j \in 1 .. Len(ac) /\ ac[j].kind = "exec" /\ j <= k
  BY <1>2 DEF Roots, Execs
<1>4. seg[0] <= Len(fr) /\ (s.on => b > 0)
  <2>1. 0 \in 0 .. Len(ac) /\ Len(ac) \in 0 .. Len(ac) /\ 0 <= Len(ac)
    BY <1>l
  <2>2. seg[0] <= seg[Len(ac)]
    BY <1>1, <1>l, <2>1, SegOrder
  <2>3. k > 0 => b > 0
    <3>1. k > 0 => k - 1 \in 0 .. Len(ac)
      BY <1>l
    <3>2. k > 0 => seg[k - 1] \in Nat
      BY <3>1
    <3> QED
      BY <3>2, <1>l, <1>p
  <2>4. k = 0 \/ k > 0
    BY <1>l
  <2> QED
    BY <1>1, <1>l, <1>p, <2>2, <2>3, <2>4
<1>5. A = IF s.on THEN {1} ELSE {}
  <2>1. CASE s.on
    <3>1. 1 \in 1 .. Len(fr) /\ 1 \in 1 .. seg[0] /\ 1 <= b
      BY <1>1, <1>l, <1>4, <2>1
    <3>2. fr[1].root
      BY <1>1, <3>1 DEF OneRoot
    <3>3. 1 \in A
      BY <1>3, <3>1, <3>2
    <3>4. ASSUME NEW j \in A PROVE j = 1
      <4>1. j \in 1 .. seg[0] /\ fr[j].root
        BY <1>3, <1>l
      <4> QED
        BY <4>1, <1>1 DEF OneRoot
    <3> QED
      BY <2>1, <3>3, <3>4
  <2>2. CASE ~s.on
    <3>1. seg[0] = 0
      BY <1>1, <1>l, <2>2
    <3>2. \A j \in R : j \in Nat /\ j > 0
      BY <1>3
    <3>3. \A j \in R : ~(j <= seg[0])
      BY <3>1, <3>2
    <3> QED
      BY <2>2, <3>3
  <2> QED
    BY <2>1, <2>2
<1> HIDE DEF R, X
<1>6. Into(f, X, B)
  <2> SUFFICES ASSUME NEW m \in X PROVE seg[m - 1] + 1 \in B
    BY DEF Into
  <2>1. m \in 1 .. Len(ac) /\ ac[m].kind = "exec" /\ m <= k /\ m - 1 \in 0 .. Len(ac)
        /\ m \in 0 .. Len(ac) /\ 0 \in 0 .. Len(ac) /\ m - 1 < m /\ 0 <= m - 1
    <3>1. m \in 1 .. Len(ac) /\ ac[m].kind = "exec" /\ m <= k
      BY <1>3
    <3> QED
      BY <3>1, <1>l
  <2>2. seg[m - 1] \in Nat /\ seg[m] \in Nat /\ seg[m - 1] < seg[m] /\ seg[0] <= seg[m - 1]
    BY <1>1, <1>l, <2>1, SegOrder
  <2>3. seg[m] <= Len(fr)
    <3>1. Len(ac) \in 0 .. Len(ac) /\ m <= Len(ac)
      BY <1>l, <2>1
    <3> QED
      BY <1>1, <1>l, <2>1, <3>1, SegOrder
  <2>4. OneRoot(fr, seg[m - 1] + 1, seg[m])
    BY <1>1, <2>1 DEF Segment
  <2>5. fr[seg[m - 1] + 1].root
    <3>1. seg[m - 1] + 1 \in seg[m - 1] + 1 .. seg[m]
      BY <2>2
    <3> QED
      BY <2>4, <3>1 DEF OneRoot
  <2>6. seg[m - 1] < b
    <3>1. CASE m = k
      BY <3>1, <2>1, <2>2, <1>l, <1>p
    <3>2. CASE m < k
      <4>1. k - 1 \in 0 .. Len(ac) /\ m <= k - 1 /\ k > 0
        BY <1>l, <2>1, <3>2
      <4>2. seg[m] <= seg[k - 1] /\ seg[k - 1] \in Nat
        BY <1>1, <1>l, <2>1, <4>1, SegOrder
      <4> QED
        BY <1>l, <1>p, <2>2, <4>1, <4>2
    <3> QED
      BY <1>l, <2>1, <3>1, <3>2
  <2>7. seg[m - 1] + 1 \in 1 .. Len(fr) /\ seg[m - 1] + 1 <= b /\ seg[0] < seg[m - 1] + 1
    BY <1>l, <2>2, <2>3, <2>6
  <2> QED
    BY <1>3, <2>5, <2>7
<1>7. OneToOne(f, X)
  <2> SUFFICES ASSUME NEW x \in X, NEW y \in X, f[x] = f[y] PROVE x = y
    BY DEF OneToOne
  <2>1. x \in 1 .. Len(ac) /\ y \in 1 .. Len(ac)
    BY <1>3
  <2>2. x - 1 \in 0 .. Len(ac) /\ y - 1 \in 0 .. Len(ac)
    BY <1>l, <2>1
  <2>3. seg[x - 1] \in Nat /\ seg[y - 1] \in Nat
        /\ (x - 1 < y - 1 => seg[x - 1] < seg[y - 1])
        /\ (y - 1 < x - 1 => seg[y - 1] < seg[x - 1])
    BY <1>1, <1>l, <2>2, SegOrder
  <2>4. seg[x - 1] + 1 = seg[y - 1] + 1
    OBVIOUS
  <2> QED
    BY <2>1, <2>3, <2>4
<1>8. Onto(f, X, B)
  <2> SUFFICES ASSUME NEW j \in B PROVE \E x \in X : f[x] = j
    BY DEF Onto
  <2>1. j \in 1 .. Len(fr) /\ fr[j].root /\ j <= b /\ seg[0] < j
    BY <1>3
  <2>2. PICK m \in 1 .. Len(ac) : seg[m - 1] < j /\ j <= seg[m]
    BY <1>l, <2>1, OwnerOf
  <2>3. m \in 0 .. Len(ac) /\ m - 1 \in 0 .. Len(ac)
    BY <1>l
  <2>4. m <= k
    <3> SUFFICES ASSUME ~(m <= k) PROVE FALSE
      OBVIOUS
    <3>1. k <= m - 1
      BY <1>l
    <3>2. seg[k] <= seg[m - 1] /\ seg[k] \in Nat /\ seg[m - 1] \in Nat
      BY <1>1, <1>l, <2>3, <3>1, SegOrder
    <3> QED
      BY <1>l, <1>p, <2>1, <2>2, <3>2
  <2>5. ac[m].kind = "exec"
    <3> SUFFICES ASSUME ac[m].kind # "exec" PROVE FALSE
      OBVIOUS
    <3>1. ac[m].kind = "native"
      BY ActTypes
    <3>2. seg[m] = seg[m - 1] + 1 /\ fr[seg[m]] = Frame("native", None, 0, FALSE)
      BY <1>1, <3>1 DEF Segment
    <3>3. seg[m - 1] \in Nat
      BY <2>3
    <3>4. j = seg[m]
      BY <2>1, <2>2, <3>2, <3>3
    <3> QED
      BY <2>1, <3>2, <3>4 DEF Frame
  <2>6. j = seg[m - 1] + 1
    <3>1. OneRoot(fr, seg[m - 1] + 1, seg[m])
      BY <1>1, <2>5 DEF Segment
    <3>2. seg[m - 1] \in Nat /\ seg[m] \in Nat
      BY <2>3
    <3>3. j \in seg[m - 1] + 1 .. seg[m]
      BY <2>1, <2>2, <3>2
    <3> QED
      BY <2>1, <3>1, <3>3 DEF OneRoot
  <2>7. m \in X
    BY <1>3, <2>4, <2>5
  <2> QED
    BY <2>6, <2>7
<1>9. IsFiniteSet(X) /\ IsFiniteSet(A) /\ IsFiniteSet(B) /\ Cardinality(X) \in Nat
  <2>1. X \in SUBSET (1 .. Len(ac)) /\ A \in SUBSET (1 .. Len(fr)) /\ B \in SUBSET (1 .. Len(fr))
    BY <1>3
  <2> HIDE DEF A, B
  <2> QED
    BY <2>1, <1>l, FiniteParts
<1>10. R = A \cup B /\ A \cap B = {}
  <2>1. \A j \in R : j \in Nat
    BY <1>3
  <2>2. \A j \in R : (j <= seg[0]) <=> ~(seg[0] < j)
    BY <2>1, <1>l
  <2> QED
    BY <2>2
<1> HIDE DEF A, B, f
<1>11. Cardinality(B) = Cardinality(X)
  BY <1>6, <1>7, <1>8, <1>9, SameSize
<1>12. Cardinality(A) = Asleep(s)
  <2>1. Cardinality({1}) = 1 /\ Cardinality({}) = 0
    BY FS_Singleton, FS_EmptySet
  <2> QED
    BY <2>1, <1>5 DEF Asleep
<1>13. Cardinality(R) = Cardinality(A) + Cardinality(B)
  <2>1. Cardinality(A \cup B) = Cardinality(A) + Cardinality(B) - Cardinality(A \cap B)
    BY <1>9, FS_Union
  <2>2. Cardinality(A \cap B) = 0
    BY <1>10, FS_EmptySet
  <2>3. Cardinality(A) \in Nat /\ Cardinality(B) \in Nat
    BY <1>9, FS_CardinalityType
  <2> QED
    BY <1>10, <2>1, <2>2, <2>3
<1>14. UpTo(Roots(fr), b) = Cardinality(R) /\ UpTo(Execs(ac), k) = Cardinality(X)
  BY DEF UpTo, R, X
<1> QED
  BY <1>11, <1>12, <1>13, <1>14

(* An Execute is counted only from its own activation on.                  *)
LEMMA CountGrows ==
  ASSUME NEW ac \in Seq(ActT), NEW j \in 0 .. Len(ac), NEW k \in Execs(ac), j < k
  PROVE  /\ UpTo(Execs(ac), j) \in Nat /\ UpTo(Execs(ac), k) \in Nat
         /\ UpTo(Execs(ac), j) < UpTo(Execs(ac), k)
<1> DEFINE X == {m \in Execs(ac) : m <= j}
           Y == {m \in Execs(ac) : m <= k}
<1>1. DOMAIN ac = 1 .. Len(ac) /\ Len(ac) \in Nat
  OBVIOUS
<1>2. k \in 1 .. Len(ac) /\ \A m \in Execs(ac) : m \in 1 .. Len(ac)
  BY <1>1 DEF Execs
<1>3. X \in SUBSET (1 .. Len(ac)) /\ Y \in SUBSET (1 .. Len(ac))
  BY <1>2
<1>4. X \subseteq Y
  <2> SUFFICES ASSUME NEW m \in X PROVE m \in Y
    OBVIOUS
  <2>1. m \in Execs(ac) /\ m <= j
    OBVIOUS
  <2>2. m \in Nat /\ j \in Nat /\ k \in Nat
    BY <1>1, <1>2, <2>1
  <2>3. m <= k
    BY <2>1, <2>2
  <2> QED
    BY <2>1, <2>3
<1>5. k \in Y /\ k \notin X
  BY <1>1, <1>2
<1>6. UpTo(Execs(ac), j) = Cardinality(X) /\ UpTo(Execs(ac), k) = Cardinality(Y)
  BY DEF UpTo
<1> HIDE DEF X, Y
<1>7. IsFiniteSet(X) /\ Cardinality(X) \in Nat /\ IsFiniteSet(Y) /\ Cardinality(Y) \in Nat
  BY <1>1, <1>3, FiniteParts
<1>8. Cardinality(X) <= Cardinality(Y) /\ (Cardinality(Y) = Cardinality(X) => Y = X)
  BY <1>4, <1>7, FS_Subset
<1>9. Cardinality(X) # Cardinality(Y)
  BY <1>5, <1>8
<1> QED
  BY <1>6, <1>7, <1>8, <1>9

LEMMA CountNone ==
  ASSUME NEW ac \in Seq(ActT)
  PROVE  UpTo(Execs(ac), 0) = 0
<1>1. \A m \in Execs(ac) : m \in Nat /\ m > 0
  BY DEF Execs
<1>2. {m \in Execs(ac) : m <= 0} = {}
  BY <1>1
<1> QED
  BY <1>2, FS_EmptySet DEF UpTo

(* The frames of native functions are their activations.                   *)
LEMMA CountNatives ==
  ASSUME NEW fr \in Seq(FrameT), NEW ac \in Seq(ActT), NEW s,
         NEW seg \in [0 .. Len(ac) -> Nat], Matched(fr, ac, s, seg)
  PROVE  Cardinality(Natives(fr)) = Cardinality(DOMAIN ac \ Execs(ac))
<1> DEFINE X == DOMAIN ac \ Execs(ac)
           B == Natives(fr)
           f == [m \in X |-> seg[m]]
<1>l. Len(fr) \in Nat /\ Len(ac) \in Nat /\ seg[0] \in Nat
  OBVIOUS
<1>1. /\ seg[Len(ac)] = Len(fr) /\ Rising(seg, Len(ac))
      /\ \A m \in 1 .. Len(ac) : Segment(fr, ac, seg, m)
      /\ OneRoot(fr, 1, seg[0])
  BY DEF Matched, Sleeping
<1>2. DOMAIN fr = 1 .. Len(fr) /\ DOMAIN ac = 1 .. Len(ac)
  OBVIOUS
<1>3. /\ \A j : j \in B <=> j \in 1 .. Len(fr) /\ fr[j].kind = "native"
      /\ \A j : j \in X <=> j \in 1 .. Len(ac) /\ ac[j].kind = "native"
  <2>1. \A j : j \in B <=> j \in 1 .. Len(fr) /\ fr[j].kind = "native"
    BY <1>2 DEF Natives
  <2>2. \A j \in 1 .. Len(ac) : ac[j].kind = "native" <=> ac[j].kind # "exec"
    BY ActTypes
  <2>3. \A j : j \in X <=> j \in 1 .. Len(ac) /\ ac[j].kind # "exec"
    BY <1>2 DEF Execs
  <2> QED
    BY <2>1, <2>2, <2>3
<1> HIDE DEF X, B
<1>4. Into(f, X, B)
  <2> SUFFICES ASSUME NEW m \in X PROVE seg[m] \in B
    BY DEF Into
  <2>1. m \in 1 .. Len(ac) /\ ac[m].kind = "native"
    BY <1>3
  <2>2. seg[m] = seg[m - 1] + 1 /\ fr[seg[m]] = Frame("native", None, 0, FALSE)
    BY <1>1, <2>1 DEF Segment
  <2>3. m \in 0 .. Len(ac) /\ m - 1 \in 0 .. Len(ac) /\ Len(ac) \in 0 .. Len(ac) /\ m <= Len(ac)
    BY <1>l, <2>1
  <2>4. seg[m] \in Nat /\ seg[m - 1] \in Nat /\ seg[m] <= Len(fr)
    BY <1>1, <1>l, <2>3, SegOrder
  <2>5. seg[m] \in 1 .. Len(fr)
    BY <1>l, <2>2, <2>4
  <2>6. fr[seg[m]].kind = "native"
    BY <2>2 DEF Frame
  <2> QED
    BY <1>3, <2>5, <2>6
<1>5. OneToOne(f, X)
  <2> SUFFICES ASSUME NEW x \in X, NEW y \in X, f[x] = f[y] PROVE x = y
    BY DEF OneToOne
  <2>1. x \in 1 .. Len(ac) /\ y \in 1 .. Len(ac)
    BY <1>3
  <2>2. x \in 0 .. Len(ac) /\ y \in 0 .. Len(ac)
    BY <1>l, <2>1
  <2>3. seg[x] \in Nat /\ seg[y] \in Nat
        /\ (x < y => seg[x] < seg[y]) /\ (y < x => seg[y] < seg[x])
    BY <1>1, <1>l, <2>2, SegOrder
  <2>4. seg[x] = seg[y]
    OBVIOUS
  <2> QED
    BY <2>1, <2>3, <2>4
<1>6. Onto(f, X, B)
  <2> SUFFICES ASSUME NEW j \in B PROVE \E x \in X : f[x] = j
    BY DEF Onto
  <2>1. j \in 1 .. Len(fr) /\ fr[j].kind = "native"
    BY <1>3
  <2>2. seg[0] < j
    <3> SUFFICES ASSUME ~(seg[0] < j) PROVE FALSE
      OBVIOUS
    <3>1. j \in 1 .. seg[0]
      BY <1>l, <2>1
    <3> QED
      BY <1>1, <2>1, <3>1 DEF OneRoot
  <2>3. PICK m \in 1 .. Len(ac) : seg[m - 1] < j /\ j <= seg[m]
    BY <1>l, <2>1, <2>2, OwnerOf
  <2>4. seg[m - 1] \in Nat /\ seg[m] \in Nat
    <3>1. m \in 0 .. Len(ac) /\ m - 1 \in 0 .. Len(ac)
      BY <1>l
    <3> QED
      BY <3>1
  <2>5. ac[m].kind = "native"
    <3> SUFFICES ASSUME ac[m].kind # "native" PROVE FALSE
      OBVIOUS
    <3>1. ac[m].kind = "exec"
      BY ActTypes
    <3>2. OneRoot(fr, seg[m - 1] + 1, seg[m])
      BY <1>1, <3>1 DEF Segment
    <3>3. j \in seg[m - 1] + 1 .. seg[m]
      BY <2>1, <2>3, <2>4
    <3> QED
      BY <2>1, <3>2, <3>3 DEF OneRoot
  <2>6. seg[m] = seg[m - 1] + 1
    BY <1>1, <2>5 DEF Segment
  <2>7. j = seg[m] /\ m \in X
    BY <1>3, <2>1, <2>3, <2>4, <2>5, <2>6
  <2> QED
    BY <2>7
<1>7. IsFiniteSet(X)
  <2>1. X \in SUBSET (1 .. Len(ac))
    BY <1>3
  <2> QED
    BY <2>1, <1>l, FiniteParts
<1> HIDE DEF f
<1>8. Cardinality(B) = Cardinality(X)
  BY <1>4, <1>5, <1>6, <1>7, SameSize
<1> QED
  BY <1>8 DEF X, B

(* The traps below activation k.                                           *)
Below(off, seg, k) == IF k = 0 THEN 0 ELSE off[seg[k - 1]]

(* The activations that own script frames; 0 is the suspended Execute.     *)
Bearers(ac) == Execs(ac) \cup {0}

LaidOut(fr, tr, ac, s, off, seg) ==
    /\ fr \in Seq(FrameT) /\ tr \in Seq(TrapT) /\ ac \in Seq(ActT)
    /\ off \in [0 .. Len(fr) -> Nat] /\ seg \in [0 .. Len(ac) -> Nat]
    /\ SoundBy(fr, tr, ac, s, off, seg)

OwnTraps(fr, tr, ac, s, off, seg, k) ==
    \A p \in 1 .. Len(tr) : (UpTo(Roots(fr), tr[p].base) = RootOf(ac, s, k))
                                <=> p \in Below(off, seg, k) + 1 .. off[seg[k]]

(* A trap belongs to the Execute that owns its frame.                      *)
LEMMA TrapsOwned ==
  ASSUME NEW fr \in Seq(FrameT), NEW tr \in Seq(TrapT), NEW ac \in Seq(ActT), NEW s,
         NEW off \in [0 .. Len(fr) -> Nat], NEW seg \in [0 .. Len(ac) -> Nat],
         SoundBy(fr, tr, ac, s, off, seg),
         NEW k \in Bearers(ac)
  PROVE  OwnTraps(fr, tr, ac, s, off, seg, k)
<1> SUFFICES ASSUME NEW p \in 1 .. Len(tr)
             PROVE  (UpTo(Roots(fr), tr[p].base) = RootOf(ac, s, k))
                       <=> p \in Below(off, seg, k) + 1 .. off[seg[k]]
  BY DEF OwnTraps
<1> DEFINE b == tr[p].base
           owns(m) == (m > 0 => seg[m - 1] < b) /\ b <= seg[m]
<1>l. Len(fr) \in Nat /\ Len(ac) \in Nat /\ p \in Nat
  OBVIOUS
<1>1. /\ seg[Len(ac)] = Len(fr) /\ Rising(seg, Len(ac)) /\ Matched(fr, ac, s, seg)
      /\ \A m \in 1 .. Len(ac) : Segment(fr, ac, seg, m)
      /\ (s.on <=> seg[0] > 0)
  BY DEF SoundBy, Matched, Sleeping
<1>2. /\ b \in 1 .. Len(fr) /\ tr[p].nest <= fr[b].etraps /\ p = off[b - 1] + tr[p].nest
      /\ off[0] = 0
  BY DEF SoundBy, Laid
<1>3. tr[p].nest \in Nat /\ tr[p].nest > 0 /\ fr[b].etraps \in Nat
  <2>1. tr[p] \in TrapT
    BY <1>l
  <2>2. tr[p].nest \in 1 .. MaxTraps
    BY <2>1 DEF TrapT
  <2>3. fr[b] \in FrameT
    BY <1>2, <1>l
  <2> HIDE DEF b
  <2>4. fr[b].etraps \in 0 .. MaxTraps
    BY <2>3 DEF FrameT
  <2> QED
    BY <2>2, <2>4, Bounds
<1>4. off[b] = off[b - 1] + fr[b].etraps
  BY <1>2 DEF SoundBy, Laid
<1>5. \A i, j \in 0 .. Len(fr) : i <= j => off[i] <= off[j]
  BY DEF SoundBy, Laid
<1> HIDE DEF b
<1>b. b \in 0 .. Len(fr) /\ b - 1 \in 0 .. Len(fr) /\ b \in Nat /\ b > 0
  BY <1>2, <1>l
<1>6. off[b - 1] < p /\ p <= off[b] /\ off[b] \in Nat /\ off[b - 1] \in Nat
  <2>1. off[b] \in Nat /\ off[b - 1] \in Nat
    BY <1>b
  <2> QED
    BY <2>1, <1>2, <1>3, <1>4, SMTT(30)
<1>7. k \in 0 .. Len(ac) /\ (k > 0 => k \in Execs(ac))
  <2>1. \A m \in Execs(ac) : m \in 1 .. Len(ac)
    BY DEF Execs
  <2> QED
    BY <2>1, <1>l DEF Bearers
<1>8. \A m \in 0 .. Len(ac) : seg[m] \in Nat /\ seg[m] <= Len(fr) /\ seg[m] \in 0 .. Len(fr)
  <2> SUFFICES ASSUME NEW m \in 0 .. Len(ac)
               PROVE  seg[m] \in Nat /\ seg[m] <= Len(fr) /\ seg[m] \in 0 .. Len(fr)
    OBVIOUS
  <2>1. Len(ac) \in 0 .. Len(ac) /\ m <= Len(ac)
    BY <1>l
  <2>2. seg[m] \in Nat /\ seg[m] <= Len(fr)
    BY <1>1, <1>l, <2>1, SegOrder
  <2> QED
    BY <2>2, <1>l
<1>9. PICK m \in 0 .. Len(ac) : owns(m)
  <2>1. CASE b <= seg[0]
    <3>1. 0 \in 0 .. Len(ac) /\ ~(0 > 0)
      BY <1>l
    <3> QED
      BY <2>1, <3>1
  <2>2. CASE ~(b <= seg[0])
    <3>1. seg[0] < b
      <4>1. seg[0] \in Nat
        BY <1>8, <1>l
      <4> QED
        BY <4>1, <1>b, <2>2
    <3>2. PICK m \in 1 .. Len(ac) : seg[m - 1] < b /\ b <= seg[m]
      BY <1>1, <1>2, <1>l, <3>1, OwnerOf
    <3>3. m \in 0 .. Len(ac)
      BY <1>l
    <3> QED
      BY <3>2, <3>3
  <2> QED
    BY <2>1, <2>2
<1>m. m \in Nat /\ (m > 0 => m - 1 \in 0 .. Len(ac) /\ m \in 1 .. Len(ac))
  BY <1>l
<1>10. UpTo(Roots(fr), b) = Asleep(s) + UpTo(Execs(ac), m)
  <2>1. m > 0 => seg[m - 1] < b
    BY <1>9
  <2>2. b <= seg[m]
    BY <1>9
  <2>3. m = 0 => (b > 0 <=> s.on)
    <3>1. m = 0 => seg[0] > 0
      <4>1. seg[0] \in Nat
        BY <1>8, <1>l
      <4> QED
        BY <4>1, <2>2, <1>b
    <3> QED
      BY <3>1, <1>1, <1>b
  <2>4. Matched(fr, ac, s, seg) /\ m \in 0 .. Len(ac) /\ b \in 0 .. Len(fr)
    BY <1>1, <1>b
  <2>5. PartOf(s, seg, m, b)
    BY <2>1, <2>2, <2>3 DEF PartOf
  <2> HIDE DEF owns
  <2>6. \A i \in 0 .. Len(ac) : \A j \in 0 .. Len(fr) :
            PartOf(s, seg, i, j) => UpTo(Roots(fr), j) = Asleep(s) + UpTo(Execs(ac), i)
    BY <2>4, CountRoots
  <2> QED
    BY <2>4, <2>5, <2>6
<1>11. m > 0 => m \in Execs(ac)
  <2> SUFFICES ASSUME m > 0, m \notin Execs(ac) PROVE FALSE
    OBVIOUS
  <2>1. m \in 1 .. Len(ac) /\ seg[m - 1] \in Nat
    BY <1>m, <1>8
  <2>2. ac[m].kind = "native"
    <3>1. ac[m].kind # "exec"
      BY <2>1 DEF Execs
    <3> QED
      BY <2>1, <3>1, ActTypes
  <2>3. seg[m] = seg[m - 1] + 1 /\ fr[seg[m]] = Frame("native", None, 0, FALSE)
    BY <1>1, <2>1, <2>2 DEF Segment
  <2>4. b = seg[m]
    BY <1>9, <1>b, <2>1, <2>3
  <2>5. fr[b].etraps = 0
    BY <2>3, <2>4 DEF Frame
  <2> QED
    BY <1>2, <1>3, <2>5
<1>12. RootOf(ac, s, k) = Asleep(s) + UpTo(Execs(ac), k) /\ Asleep(s) \in Nat
  BY DEF RootOf, Asleep
<1>o. /\ off[seg[m]] \in Nat /\ off[seg[k]] \in Nat /\ Below(off, seg, m) \in Nat
      /\ Below(off, seg, k) \in Nat
      /\ Below(off, seg, m) < p /\ p <= off[seg[m]]
  <2>1. off[seg[m]] \in Nat /\ off[seg[k]] \in Nat
    BY <1>7, <1>8
  <2>2. k > 0 => k - 1 \in 0 .. Len(ac)
    BY <1>7, <1>l
  <2>3. Below(off, seg, m) \in Nat /\ Below(off, seg, k) \in Nat
    <3>1. \A j \in 0 .. Len(ac) : off[seg[j]] \in Nat
      BY <1>8
    <3>2. (m # 0 => m > 0) /\ (k # 0 => k > 0)
      BY <1>m, <1>7, <1>l
    <3>3. 0 \in Nat
      OBVIOUS
    <3> QED
      BY <3>1, <3>2, <3>3, <2>2, <1>m DEF Below
  <2>4. p <= off[seg[m]]
    <3>1. off[b] <= off[seg[m]]
      BY <1>5, <1>8, <1>9, <1>b
    <3> QED
      BY <3>1, <2>1, <1>6, <1>l
  <2>5. Below(off, seg, m) < p
    <3>1. CASE m = 0
      BY <3>1, <1>6, <1>l DEF Below
    <3>2. CASE m > 0
      <4>1. seg[m - 1] \in 0 .. Len(fr) /\ seg[m - 1] \in Nat /\ seg[m - 1] < b
        BY <3>2, <1>m, <1>8, <1>9
      <4>2. seg[m - 1] <= b - 1
        BY <4>1, <1>b
      <4>3. off[seg[m - 1]] <= off[b - 1] /\ off[seg[m - 1]] \in Nat
        BY <4>1, <4>2, <1>5, <1>b
      <4>4. Below(off, seg, m) = off[seg[m - 1]]
        BY <3>2 DEF Below
      <4> QED
        BY <4>3, <4>4, <1>6, <1>l
    <3> QED
      BY <3>1, <3>2, <1>m
  <2> QED
    BY <2>1, <2>3, <2>4, <2>5
<1> HIDE DEF owns
<1>13. \A i, j \in 0 .. Len(ac) : i < j => off[seg[i]] <= Below(off, seg, j)
  <2> SUFFICES ASSUME NEW i \in 0 .. Len(ac), NEW j \in 0 .. Len(ac), i < j
               PROVE  off[seg[i]] <= Below(off, seg, j)
    OBVIOUS
  <2>1. j # 0 /\ j - 1 \in 0 .. Len(ac) /\ i <= j - 1
    BY <1>l
  <2>2. seg[i] <= seg[j - 1]
    BY <1>1, <1>l, <2>1, SegOrder
  <2>3. off[seg[i]] <= off[seg[j - 1]]
    BY <1>5, <1>8, <2>1, <2>2
  <2> QED
    BY <2>1, <2>3 DEF Below
<1>14. CASE m = k
  <2>1. UpTo(Roots(fr), tr[p].base) = RootOf(ac, s, k)
    BY <1>10, <1>12, <1>14 DEF b
  <2>2. p \in Below(off, seg, k) + 1 .. off[seg[k]]
    BY <1>o, <1>l, <1>14
  <2> QED
    BY <2>1, <2>2
<1>15. CASE m < k
  <2>1. k > 0 /\ k \in Execs(ac)
    BY <1>7, <1>15, <1>m, <1>l
  <2>2. UpTo(Execs(ac), m) < UpTo(Execs(ac), k)
        /\ UpTo(Execs(ac), m) \in Nat /\ UpTo(Execs(ac), k) \in Nat
    BY <1>15, <2>1, CountGrows
  <2>3. off[seg[m]] <= Below(off, seg, k)
    BY <1>7, <1>13, <1>15
  <2>4. p <= Below(off, seg, k)
    BY <2>3, <1>o, <1>l
  <2> QED
    BY <2>2, <2>4, <1>10, <1>12, <1>o, <1>l DEF b
<1>16. CASE k < m
  <2>1. m \in Execs(ac)
    BY <1>7, <1>11, <1>16, <1>m, <1>l
  <2>2. UpTo(Execs(ac), k) < UpTo(Execs(ac), m)
        /\ UpTo(Execs(ac), m) \in Nat /\ UpTo(Execs(ac), k) \in Nat
    BY <1>7, <1>16, <2>1, CountGrows
  <2>3. off[seg[k]] <= Below(off, seg, m)
    BY <1>7, <1>13, <1>16
  <2>4. off[seg[k]] < p
    BY <2>3, <1>o, <1>l
  <2> QED
    BY <2>2, <2>4, <1>10, <1>12, <1>o, <1>l, SMTT(30) DEF b
<1> QED
  BY <1>7, <1>14, <1>15, <1>16, <1>m, <1>l

-----------------------------------------------------------------------------
(* The properties, from the inductive invariant.                           *)

(* IInv, with its two functions named.                                     *)
OpenState(fr, tr, ac, off, seg) ==
    /\ State(fr, tr, ac)
    /\ off \in [0 .. Len(fr) -> Nat] /\ seg \in [0 .. Len(ac) -> Nat]
    /\ SoundBy(fr, tr, ac, susp, off, seg)

LEMMA Opening ==
  ASSUME IInv
  PROVE  \E off, seg : OpenState(v.frames, v.etraps, v.acts, off, seg)
<1>1. State(v.frames, v.etraps, v.acts)
  BY Named
<1>2. Sound(v.frames, v.etraps, v.acts, susp)
  BY DEF IInv, Good
<1>3. PICK off \in [0 .. Len(v.frames) -> Nat], seg \in [0 .. Len(v.acts) -> Nat] :
         SoundBy(v.frames, v.etraps, v.acts, susp, off, seg)
  BY <1>2, Opened
<1> QED
  BY <1>1, <1>3 DEF OpenState

LEMMA OpenParts ==
  ASSUME NEW fr, NEW tr, NEW ac, NEW off, NEW seg, OpenState(fr, tr, ac, off, seg)
  PROVE  /\ v.frames = fr /\ v.etraps = tr /\ v.acts = ac
         /\ fr \in Seq(FrameT) /\ tr \in Seq(TrapT) /\ ac \in Seq(ActT)
         /\ off \in [0 .. Len(fr) -> Nat] /\ seg \in [0 .. Len(ac) -> Nat]
         /\ SoundBy(fr, tr, ac, susp, off, seg) /\ Laid(fr, tr, off)
         /\ Matched(fr, ac, susp, seg)
         /\ State(fr, tr, ac) /\ Reasons(ac) /\ Sound(fr, tr, ac, susp)
         /\ Len(fr) \in Nat /\ Len(tr) \in Nat /\ Len(ac) \in Nat
         /\ DOMAIN fr = 1 .. Len(fr) /\ DOMAIN tr = 1 .. Len(tr) /\ DOMAIN ac = 1 .. Len(ac)
<1>1. State(fr, tr, ac)
  BY DEF OpenState
<1>2. Sound(fr, tr, ac, susp) /\ fr \in Seq(FrameT) /\ tr \in Seq(TrapT) /\ ac \in Seq(ActT)
  BY <1>1 DEF State
<1>3. Reasons(ac)
  BY <1>2, Opened
<1>4. v.frames = fr /\ v.etraps = tr /\ v.acts = ac
  BY <1>1, StateParts
<1>5. SoundBy(fr, tr, ac, susp, off, seg) /\ Laid(fr, tr, off) /\ Matched(fr, ac, susp, seg)
  BY DEF OpenState, SoundBy
<1>6. off \in [0 .. Len(fr) -> Nat] /\ seg \in [0 .. Len(ac) -> Nat]
  BY DEF OpenState
<1>7. /\ Len(fr) \in Nat /\ Len(tr) \in Nat /\ Len(ac) \in Nat
      /\ DOMAIN fr = 1 .. Len(fr) /\ DOMAIN tr = 1 .. Len(tr) /\ DOMAIN ac = 1 .. Len(ac)
  BY <1>2
<1> QED
  BY <1>1, <1>2, <1>3, <1>4, <1>5, <1>6, <1>7

LEMMA TypesHold ==
  ASSUME IInv
  PROVE  TypeOK
<1>1. PICK fr, tr, ac : State(fr, tr, ac)
  BY Named
<1>2. /\ v.frames = fr /\ v.etraps = tr /\ v.acts = ac
      /\ v.base = Len(fr) /\ v.nnative = Len(ac)
  BY <1>1, StateParts
<1>3. /\ fr \in Seq(FrameT) /\ tr \in Seq(TrapT) /\ ac \in Seq(ActT)
      /\ Len(ac) <= MaxNative
  BY <1>1 DEF State
<1>4. Len(fr) \in Nat /\ Len(ac) \in 0 .. MaxNative
  BY <1>3, Bounds
<1>5. susp \in SuspT /\ gens \in [Gen -> GenT]
  BY DEF IInv, Kept
<1> QED
  BY <1>2, <1>3, <1>4, <1>5 DEF TypeOK, FrameT, TrapT, ActT, GenT, SavedT, SuspT

(* Where a trap lies.                                                      *)
LEMMA TrapPlace ==
  ASSUME NEW fr \in Seq(FrameT), NEW tr \in Seq(TrapT), NEW off \in [0 .. Len(fr) -> Nat],
         Laid(fr, tr, off), NEW p \in 1 .. Len(tr)
  PROVE  /\ tr[p].base \in 1 .. Len(fr) /\ tr[p].nest \in 1 .. MaxTraps
         /\ tr[p].nest <= fr[tr[p].base].etraps
         /\ off[tr[p].base - 1] \in Nat /\ off[tr[p].base] \in Nat
         /\ p = off[tr[p].base - 1] + tr[p].nest /\ p <= off[tr[p].base]
<1> DEFINE b == tr[p].base
           n == tr[p].nest
<1>l. Len(fr) \in Nat
  OBVIOUS
<1>1. b \in 1 .. Len(fr) /\ n <= fr[b].etraps /\ p = off[b - 1] + n
  BY DEF Laid
<1>2. n \in 1 .. MaxTraps
  <2>1. tr[p] \in TrapT
    OBVIOUS
  <2> QED
    BY <2>1 DEF TrapT
<1>3. off[b] = off[b - 1] + fr[b].etraps
  BY <1>1 DEF Laid
<1>4. fr[b].etraps \in Nat
  <2> HIDE DEF b
  <2> QED
    BY <1>1, FrameTypes
<1> HIDE DEF b, n
<1>5. b \in 0 .. Len(fr) /\ b - 1 \in 0 .. Len(fr)
  BY <1>1, <1>l
<1>6. off[b] \in Nat /\ off[b - 1] \in Nat
  BY <1>5
<1>7. n \in Nat
  BY <1>2
<1>8. p <= off[b]
  BY <1>1, <1>3, <1>4, <1>6, <1>7
<1> QED
  BY <1>1, <1>2, <1>6, <1>8 DEF b, n

LEMMA TrapsInOrder ==
  ASSUME NEW fr \in Seq(FrameT), NEW tr \in Seq(TrapT), NEW off \in [0 .. Len(fr) -> Nat],
         Laid(fr, tr, off), NEW p \in 1 .. Len(tr), NEW q \in 1 .. Len(tr), p < q
  PROVE  \/ tr[p].base < tr[q].base
         \/ tr[p].base = tr[q].base /\ tr[p].nest < tr[q].nest
<1> DEFINE b == tr[p].base
           c == tr[q].base
           m == tr[p].nest
           n == tr[q].nest
<1>1. /\ b \in 1 .. Len(fr) /\ m \in 1 .. MaxTraps /\ off[b - 1] \in Nat
      /\ p = off[b - 1] + m
  BY TrapPlace
<1>2. /\ c \in 1 .. Len(fr) /\ n \in 1 .. MaxTraps /\ off[c - 1] \in Nat /\ off[c] \in Nat
      /\ q = off[c - 1] + n /\ q <= off[c]
  BY TrapPlace
<1>3. \A i, j \in 0 .. Len(fr) : i <= j => off[i] <= off[j]
  BY DEF Laid
<1> HIDE DEF b, c, m, n
<1>4. b \in Nat /\ c \in Nat /\ m \in Nat /\ n \in Nat /\ m > 0
      /\ c \in 0 .. Len(fr) /\ b - 1 \in 0 .. Len(fr)
  <2>1. Len(fr) \in Nat
    OBVIOUS
  <2> QED
    BY <1>1, <1>2, <2>1, Bounds
<1>5. ~(c < b)
  <2> SUFFICES ASSUME c < b PROVE FALSE
    OBVIOUS
  <2>1. c <= b - 1
    BY <1>4
  <2>2. off[c] <= off[b - 1]
    BY <1>3, <1>4, <2>1
  <2> QED
    BY <1>1, <1>2, <1>4, <2>2, SMTT(30)
<1>6. b = c => m < n
  BY <1>1, <1>2, <1>4
<1>7. b < c \/ (b = c /\ m < n)
  BY <1>4, <1>5, <1>6
<1> QED
  BY <1>7 DEF b, c, m, n

LEMMA TrapsLaid ==
  ASSUME NEW fr \in Seq(FrameT), NEW tr \in Seq(TrapT), NEW off \in [0 .. Len(fr) -> Nat],
         Laid(fr, tr, off), NEW i \in 1 .. Len(fr), NEW k \in 1 .. fr[i].etraps
  PROVE  \E p \in 1 .. Len(tr) : tr[p] = [base |-> i, nest |-> k]
<1>1. tr[off[i - 1] + k] = [base |-> i, nest |-> k]
  BY LaidBelow
<1>2. off[i] = off[i - 1] + fr[i].etraps /\ off[Len(fr)] = Len(tr)
      /\ \A a, b \in 0 .. Len(fr) : a <= b => off[a] <= off[b]
  BY DEF Laid
<1>3. Len(fr) \in Nat /\ Len(tr) \in Nat /\ fr[i].etraps \in Nat
  BY FrameTypes
<1>4. i \in 0 .. Len(fr) /\ i - 1 \in 0 .. Len(fr) /\ Len(fr) \in 0 .. Len(fr) /\ i <= Len(fr)
  BY <1>3
<1>5. off[i] <= Len(tr) /\ off[i] \in Nat /\ off[i - 1] \in Nat
  BY <1>2, <1>4
<1>6. off[i - 1] + k \in 1 .. Len(tr)
  BY <1>2, <1>3, <1>5
<1> QED
  BY <1>1, <1>6

LEMMA TrapsHold ==
  ASSUME IInv
  PROVE  TrapsMatchFrames
<1>1. PICK fr, tr, ac, off, seg : OpenState(fr, tr, ac, off, seg)
  BY Opening
<1>2. /\ v.frames = fr /\ v.etraps = tr /\ fr \in Seq(FrameT) /\ tr \in Seq(TrapT)
      /\ off \in [0 .. Len(fr) -> Nat] /\ Laid(fr, tr, off)
      /\ DOMAIN fr = 1 .. Len(fr) /\ DOMAIN tr = 1 .. Len(tr)
  BY <1>1, OpenParts
<1> DEFINE T == {t \in [base : DOMAIN fr, nest : 1 .. MaxTraps] : t.nest <= fr[t.base].etraps}
<1>3. \A p \in 1 .. Len(tr) : tr[p] \in T
  <2> SUFFICES ASSUME NEW p \in 1 .. Len(tr) PROVE tr[p] \in T
    OBVIOUS
  <2>1. /\ tr[p].base \in 1 .. Len(fr) /\ tr[p].nest \in 1 .. MaxTraps
        /\ tr[p].nest <= fr[tr[p].base].etraps
    BY <1>2, TrapPlace
  <2>2. tr[p] = [base |-> tr[p].base, nest |-> tr[p].nest]
    BY <1>2, TrapTypes
  <2>3. tr[p] \in [base : DOMAIN fr, nest : 1 .. MaxTraps]
    BY <1>2, <2>1, <2>2
  <2> QED
    BY <2>1, <2>3
<1>4. \A t \in T : \E p \in 1 .. Len(tr) : tr[p] = t
  <2> SUFFICES ASSUME NEW t \in T PROVE \E p \in 1 .. Len(tr) : tr[p] = t
    OBVIOUS
  <2>1. /\ t = [base |-> t.base, nest |-> t.nest] /\ t.base \in 1 .. Len(fr)
        /\ t.nest \in 1 .. MaxTraps /\ t.nest <= fr[t.base].etraps
    BY <1>2
  <2>2. fr[t.base].etraps \in Nat
    BY <1>2, <2>1, FrameTypes
  <2>3. t.nest \in 1 .. fr[t.base].etraps
    BY <2>1, <2>2, Bounds
  <2>4. \E p \in 1 .. Len(tr) : tr[p] = [base |-> t.base, nest |-> t.nest]
    BY <1>2, <2>1, <2>3, TrapsLaid
  <2> QED
    BY <2>1, <2>4
<1>5. ToSet(tr) = T
  <2> HIDE DEF T
  <2> QED
    BY <1>2, <1>3, <1>4 DEF ToSet
<1>6. \A p, q \in DOMAIN tr :
         p < q => \/ tr[p].base < tr[q].base
                  \/ tr[p].base = tr[q].base /\ tr[p].nest < tr[q].nest
  BY <1>2, TrapsInOrder
<1> QED
  BY <1>2, <1>5, <1>6 DEF TrapsMatchFrames

LEMMA StackbaseHolds ==
  ASSUME IInv
  PROVE  StackbaseOfCi
BY Named, StateParts DEF StackbaseOfCi

LEMMA RootsHold ==
  ASSUME IInv
  PROVE  RootsMatchExecs
<1>1. PICK fr, tr, ac, off, seg : OpenState(fr, tr, ac, off, seg)
  BY Opening
<1>2. /\ v.frames = fr /\ v.acts = ac /\ fr \in Seq(FrameT) /\ ac \in Seq(ActT)
      /\ seg \in [0 .. Len(ac) -> Nat] /\ Matched(fr, ac, susp, seg)
      /\ Sound(fr, tr, ac, susp) /\ Len(fr) \in Nat /\ Len(ac) \in Nat
      /\ DOMAIN fr = 1 .. Len(fr) /\ DOMAIN ac = 1 .. Len(ac)
  BY <1>1, OpenParts
<1>3. /\ seg[Len(ac)] = Len(fr) /\ Rising(seg, Len(ac)) /\ (susp.on <=> seg[0] > 0)
  BY <1>2 DEF Matched, Sleeping
<1>4. Len(ac) \in 0 .. Len(ac) /\ Len(fr) \in 0 .. Len(fr)
  BY <1>2
<1>5. PartOf(susp, seg, Len(ac), Len(fr))
  <2>1. Len(ac) > 0 => seg[Len(ac) - 1] < Len(fr)
    <3>1. Len(ac) > 0 => Len(ac) - 1 \in 0 .. Len(ac) /\ Len(ac) - 1 < Len(ac)
      BY <1>2
    <3> QED
      BY <1>3, <1>4, <3>1 DEF Rising
  <2> QED
    BY <2>1, <1>2, <1>3 DEF PartOf
<1>6. UpTo(Roots(fr), Len(fr)) = Asleep(susp) + UpTo(Execs(ac), Len(ac))
  BY <1>2, <1>4, <1>5, CountRoots
<1>7. UpTo(Roots(fr), Len(fr)) = Cardinality(Roots(fr))
  <2>1. \A j \in Roots(fr) : j <= Len(fr)
    BY <1>2 DEF Roots
  <2>2. {j \in Roots(fr) : j <= Len(fr)} = Roots(fr)
    BY <2>1
  <2> QED
    BY <2>2 DEF UpTo
<1>8. UpTo(Execs(ac), Len(ac)) = Cardinality(Execs(ac))
  <2>1. \A j \in Execs(ac) : j <= Len(ac)
    BY <1>2 DEF Execs
  <2>2. {j \in Execs(ac) : j <= Len(ac)} = Execs(ac)
    BY <2>1
  <2> QED
    BY <2>2 DEF UpTo
<1>9. Cardinality(Natives(fr)) = Cardinality(DOMAIN ac \ Execs(ac))
  BY <1>2, CountNatives
<1>10. InNative <=> ~Idle /\ Ci(v).kind = "native"
  <2>1. /\ Ci(v) = fr[Len(fr)] /\ Top(v) = ac[Len(ac)] /\ (Idle <=> Len(ac) = 0)
    BY <1>1, OpenParts, StateParts
  <2>2. Len(ac) > 0 => /\ ac[Len(ac)] \in ActT
                       /\ ac[Len(ac)].kind = "exec" => fr[Len(fr)].kind = "script"
                       /\ ac[Len(ac)].kind = "native" =>
                             fr[Len(fr)] = Frame("native", None, 0, FALSE)
    <3> SUFFICES ASSUME Len(ac) > 0
                 PROVE  /\ ac[Len(ac)] \in ActT
                        /\ ac[Len(ac)].kind = "exec" => fr[Len(fr)].kind = "script"
                        /\ ac[Len(ac)].kind = "native" =>
                              fr[Len(fr)] = Frame("native", None, 0, FALSE)
      OBVIOUS
    <3> QED
      BY <1>2, TopFrame
  <2>3. Len(ac) > 0 => ac[Len(ac)].kind \in {"exec", "native"}
    BY <2>2, ActTypes
  <2>4. Frame("native", None, 0, FALSE).kind = "native"
    BY DEF Frame
  <2>5. ~Idle <=> Len(ac) > 0
    BY <1>2, <2>1
  <2> QED
    BY <2>1, <2>2, <2>3, <2>4, <2>5 DEF InNative
<1> QED
  BY <1>2, <1>6, <1>7, <1>8, <1>9, <1>10 DEF RootsMatchExecs

LEMMA GeneratorsHold ==
  ASSUME IInv
  PROVE  GeneratorInOneFrame
<1>1. PICK fr, tr, ac : State(fr, tr, ac)
  BY Named
<1>2. v.frames = fr /\ DOMAIN fr = 1 .. Len(fr) /\ Placed(fr, gens)
  <2>1. v.frames = fr
    BY <1>1, StateParts
  <2>2. fr \in Seq(FrameT) /\ Placed(fr, gens)
    BY <1>1 DEF State
  <2> QED
    BY <2>1, <2>2
<1> SUFFICES ASSUME NEW g \in Gen
             PROVE  Cardinality({i \in DOMAIN v.frames : v.frames[i].gen = g})
                       = IF gens[g].state = "running" THEN 1 ELSE 0
  BY DEF GeneratorInOneFrame
<1> DEFINE S == {i \in DOMAIN fr : fr[i].gen = g}
<1>3. g # None
  BY NoneIsNoGenerator
<1>4. CASE gens[g].state = "running"
  <2>1. PICK i \in 1 .. Len(fr) : fr[i].gen = g
    BY <1>2, <1>4 DEF Placed
  <2>2. \A j \in S : j = i
    BY <1>2, <1>3, <2>1 DEF Placed
  <2>3. S = {i}
    BY <1>2, <2>1, <2>2
  <2>4. Cardinality({i}) = 1
    BY FS_Singleton
  <2> QED
    BY <1>2, <1>4, <2>3, <2>4
<1>5. CASE gens[g].state # "running"
  <2>1. S = {}
    BY <1>2, <1>3, <1>5 DEF Placed
  <2> QED
    BY <1>2, <1>5, <2>1, FS_EmptySet
<1> QED
  BY <1>4, <1>5

LEMMA QuietHolds ==
  ASSUME IInv
  PROVE  QuietWhenIdle
<1> SUFFICES ASSUME Idle PROVE v.nnative = 0 /\ (v.frames # <<>> <=> susp.on)
  BY DEF QuietWhenIdle
<1>1. PICK fr, tr, ac, off, seg : OpenState(fr, tr, ac, off, seg)
  BY Opening
<1>2. /\ v.frames = fr /\ fr \in Seq(FrameT) /\ Matched(fr, ac, susp, seg)
      /\ Len(fr) \in Nat /\ State(fr, tr, ac)
  BY <1>1, OpenParts
<1>3. Len(ac) = 0 /\ v.nnative = Len(ac)
  BY <1>2, StateParts
<1>4. seg[0] = Len(fr) /\ (susp.on <=> seg[0] > 0)
  BY <1>2, <1>3 DEF Matched, Sleeping
<1>5. fr # <<>> <=> Len(fr) > 0
  BY <1>2
<1> QED
  BY <1>2, <1>3, <1>4, <1>5

(* The traps of an activation, counted by the roots below them, are those  *)
(* between its bounds.                                                     *)
LEMMA TrapsOfActivation ==
  ASSUME NEW fr, NEW tr, NEW ac, NEW s, NEW off, NEW seg, LaidOut(fr, tr, ac, s, off, seg),
         NEW k \in Bearers(ac)
  PROVE  TrapsOfRoot(fr, tr, RootOf(ac, s, k)) = off[seg[k]] - Below(off, seg, k)
<1> SUFFICES ASSUME fr \in Seq(FrameT), tr \in Seq(TrapT), ac \in Seq(ActT),
                    off \in [0 .. Len(fr) -> Nat], seg \in [0 .. Len(ac) -> Nat],
                    SoundBy(fr, tr, ac, s, off, seg)
             PROVE  TrapsOfRoot(fr, tr, RootOf(ac, s, k)) = off[seg[k]] - Below(off, seg, k)
  BY DEF LaidOut
<1>0. \A p \in 1 .. Len(tr) :
         (UpTo(Roots(fr), tr[p].base) = RootOf(ac, s, k))
            <=> p \in Below(off, seg, k) + 1 .. off[seg[k]]
  <2>1. OwnTraps(fr, tr, ac, s, off, seg, k)
    BY TrapsOwned
  <2> QED
    BY <2>1 DEF OwnTraps
<1> DEFINE T == {p \in DOMAIN tr : UpTo(Roots(fr), tr[p].base) = RootOf(ac, s, k)}
           a == Below(off, seg, k)
           z == off[seg[k]]
<1>1. Len(fr) \in Nat /\ Len(ac) \in Nat /\ Len(tr) \in Nat /\ DOMAIN tr = 1 .. Len(tr)
      /\ DOMAIN ac = 1 .. Len(ac)
  OBVIOUS
<1>2. /\ off[Len(fr)] = Len(tr) /\ (\A i, j \in 0 .. Len(fr) : i <= j => off[i] <= off[j])
      /\ seg[Len(ac)] = Len(fr) /\ Rising(seg, Len(ac))
  BY DEF SoundBy, Laid, Matched
<1>3. k \in 0 .. Len(ac) /\ (k # 0 => k - 1 \in 0 .. Len(ac)) /\ Len(ac) \in 0 .. Len(ac)
      /\ k <= Len(ac) /\ k - 1 <= k
  <2>1. \A m \in Execs(ac) : m \in 1 .. Len(ac)
    BY <1>1 DEF Execs
  <2> QED
    BY <1>1, <2>1 DEF Bearers
<1>4. seg[k] \in 0 .. Len(fr) /\ Len(fr) \in 0 .. Len(fr) /\ seg[k] <= Len(fr)
  <2>1. seg[k] \in Nat /\ seg[k] <= Len(fr)
    BY <1>1, <1>2, <1>3, SegOrder
  <2> QED
    BY <1>1, <2>1
<1>5. z \in Nat /\ z <= Len(tr)
  BY <1>2, <1>4
<1>6. a \in Nat /\ a <= z
  <2>1. CASE k = 0
    BY <1>5, <2>1 DEF Below
  <2>2. CASE k # 0
    <3>1. seg[k - 1] \in Nat /\ seg[k - 1] <= seg[k]
      BY <1>1, <1>2, <1>3, <2>2, SegOrder
    <3>2. seg[k - 1] \in 0 .. Len(fr)
      BY <1>1, <1>4, <3>1
    <3>3. off[seg[k - 1]] \in Nat /\ off[seg[k - 1]] <= off[seg[k]]
      BY <1>2, <1>4, <3>1, <3>2
    <3> QED
      BY <2>2, <3>3 DEF Below
  <2> QED
    BY <2>1, <2>2
<1>7. \A p \in 1 .. Len(tr) :
         (UpTo(Roots(fr), tr[p].base) = RootOf(ac, s, k)) <=> p \in a + 1 .. z
  BY <1>0
<1> HIDE DEF a, z
<1>8. T = a + 1 .. z
  <2>1. \A p \in a + 1 .. z : p \in 1 .. Len(tr)
    BY <1>1, <1>5, <1>6
  <2> QED
    BY <1>1, <1>7, <2>1
<1>9. Cardinality(a + 1 .. z) = z - a
  <2>1. a + 1 \in Int /\ z \in Int
    BY <1>5, <1>6
  <2>2. Cardinality(a + 1 .. z) = IF a + 1 > z THEN 0 ELSE z - (a + 1) + 1
    BY <2>1, FS_Interval
  <2>3. CASE a = z
    <3>1. a + 1 > z
      BY <1>6, <2>3
    <3>2. z - a = 0
      BY <1>5, <2>3
    <3> QED
      BY <2>2, <3>1, <3>2
  <2>4. CASE a # z
    <3>1. ~(a + 1 > z)
      BY <1>5, <1>6, <2>4
    <3>2. z - (a + 1) + 1 = z - a
      BY <1>5, <1>6
    <3> QED
      BY <2>2, <3>1, <3>2
  <2> QED
    BY <2>3, <2>4
<1>10. TrapsOfRoot(fr, tr, RootOf(ac, s, k)) = Cardinality(T)
  BY DEF TrapsOfRoot
<1> QED
  BY <1>8, <1>9, <1>10 DEF a, z

LEMMA TrapsCounted ==
  ASSUME UsageTraps, NEW fr, NEW tr, NEW ac, NEW off, NEW seg,
         OpenState(fr, tr, ac, off, seg)
  PROVE  /\ susp.on => susp.traps = TrapsOfRoot(fr, tr, 1)
         /\ \A k \in Execs(ac) : ac[k].traps = TrapsOfRoot(fr, tr, RootOf(ac, susp, k))
<1>1. /\ fr \in Seq(FrameT) /\ tr \in Seq(TrapT) /\ ac \in Seq(ActT)
      /\ off \in [0 .. Len(fr) -> Nat] /\ seg \in [0 .. Len(ac) -> Nat]
      /\ SoundBy(fr, tr, ac, susp, off, seg) /\ DOMAIN ac = 1 .. Len(ac)
      /\ Len(ac) \in Nat
  BY OpenParts
<1>l. LaidOut(fr, tr, ac, susp, off, seg)
  BY <1>1 DEF LaidOut
<1>2. /\ \A k \in 1 .. Len(ac) :
            ac[k].kind = "exec" => ac[k].traps = off[seg[k]] - off[seg[k - 1]]
      /\ susp.on => susp.traps = off[seg[0]]
  BY <1>1 DEF SoundBy, Counted
<1>3. ASSUME susp.on PROVE susp.traps = TrapsOfRoot(fr, tr, 1)
  <2>1. TrapsOfRoot(fr, tr, RootOf(ac, susp, 0)) = off[seg[0]] - Below(off, seg, 0)
    <3>1. 0 \in Bearers(ac)
      BY DEF Bearers
    <3> QED
      BY <1>l, <3>1, TrapsOfActivation
  <2>2. RootOf(ac, susp, 0) = 1
    <3>1. UpTo(Execs(ac), 0) = 0
      BY <1>1, CountNone
    <3> QED
      BY <3>1, <1>3 DEF RootOf, Asleep
  <2>3. Below(off, seg, 0) = 0
    BY DEF Below
  <2>4. off[seg[0]] \in Nat
    <3>1. Laid(fr, tr, off) /\ Matched(fr, ac, susp, seg)
      BY OpenParts
    <3>2. seg[0] <= Len(fr) /\ seg[0] \in Nat
      <4>1. Rising(seg, Len(ac)) /\ seg[Len(ac)] = Len(fr)
        BY <3>1 DEF Matched
      <4>2. 0 \in 0 .. Len(ac) /\ Len(ac) \in 0 .. Len(ac) /\ 0 <= Len(ac)
        BY <1>1
      <4> QED
        BY <1>1, <4>1, <4>2, SegOrder
    <3>3. seg[0] \in 0 .. Len(fr)
      BY <1>1, <3>2
    <3> QED
      BY <1>1, <3>3
  <2> QED
    BY <1>2, <1>3, <2>1, <2>2, <2>3, <2>4
<1>4. ASSUME NEW k \in Execs(ac) PROVE ac[k].traps = TrapsOfRoot(fr, tr, RootOf(ac, susp, k))
  <2>1. TrapsOfRoot(fr, tr, RootOf(ac, susp, k)) = off[seg[k]] - Below(off, seg, k)
    <3>1. k \in Bearers(ac)
      BY DEF Bearers
    <3> QED
      BY <1>l, <3>1, TrapsOfActivation
  <2>2. k \in 1 .. Len(ac) /\ ac[k].kind = "exec" /\ k # 0
    BY <1>1 DEF Execs
  <2> QED
    BY <1>2, <2>1, <2>2 DEF Below
<1> QED
  BY <1>3, <1>4

LEMMA TrapsExactHolds ==
  ASSUME UsageTraps, IInv
  PROVE  TrapsExact
<1>1. PICK fr, tr, ac, off, seg : OpenState(fr, tr, ac, off, seg)
  BY Opening
<1>2. v.frames = fr /\ v.etraps = tr /\ v.acts = ac
  BY <1>1, OpenParts
<1> QED
  BY <1>1, <1>2, TrapsCounted DEF TrapsExact

LEMMA HandlerHolds ==
  ASSUME UsageTraps, IInv
  PROVE  HandlerForUncaught
<1>1. PICK fr, tr, ac, off, seg : OpenState(fr, tr, ac, off, seg)
  BY Opening
<1>2. /\ v.frames = fr /\ v.etraps = tr /\ v.acts = ac /\ Reasons(ac)
      /\ DOMAIN ac = 1 .. Len(ac) /\ Len(ac) \in Nat
  BY <1>1, OpenParts
<1>3. ASSUME NEW k \in Execs(ac), ac[k].why = "handler"
      PROVE  /\ k - 1 \in Execs(ac)
             /\ TrapsOfRoot(fr, tr, RootOf(ac, susp, k - 1)) = 0
  <2>1. k \in 1 .. Len(ac)
    BY <1>2 DEF Execs
  <2>2. k > 1 /\ ac[k - 1].kind = "exec" /\ ac[k - 1].traps = 0
    BY <1>2, <1>3, <2>1 DEF Reasons, Reason
  <2>3. k - 1 \in Execs(ac)
    BY <1>2, <2>1, <2>2 DEF Execs
  <2>4. ac[k - 1].traps = TrapsOfRoot(fr, tr, RootOf(ac, susp, k - 1))
    BY <1>1, <2>3, TrapsCounted
  <2> QED
    BY <2>2, <2>3, <2>4
<1> QED
  BY <1>2, <1>3 DEF HandlerForUncaught

LEMMA AssertionHolds ==
  ASSUME UsageTraps, IInv
  PROVE  AssertNoTraps
<1> SUFFICES ASSUME InScript, Ci(v).root, Ci(v).etraps = 0 PROVE Top(v).traps = 0
  BY DEF AssertNoTraps
<1>1. PICK fr, tr, ac, off, seg : OpenState(fr, tr, ac, off, seg)
  BY Opening
<1>2. /\ fr \in Seq(FrameT) /\ tr \in Seq(TrapT) /\ ac \in Seq(ActT)
      /\ off \in [0 .. Len(fr) -> Nat] /\ seg \in [0 .. Len(ac) -> Nat]
      /\ SoundBy(fr, tr, ac, susp, off, seg) /\ Reasons(ac) /\ State(fr, tr, ac)
      /\ Laid(fr, tr, off) /\ Len(fr) \in Nat
  BY <1>1, OpenParts
<1>3. /\ Ci(v) = fr[Len(fr)] /\ Top(v) = ac[Len(ac)]
      /\ Len(ac) > 0 /\ ac[Len(ac)].kind = "exec"
  BY <1>2, StateParts
<1>4. /\ seg[Len(ac) - 1] \in Nat /\ seg[Len(ac) - 1] < Len(fr)
      /\ OneRoot(fr, seg[Len(ac) - 1] + 1, Len(fr))
      /\ ac[Len(ac)].traps = off[Len(fr)] - off[seg[Len(ac) - 1]]
  <2>1. /\ fr \in Seq(FrameT) /\ ac \in Seq(ActT) /\ seg \in [0 .. Len(ac) -> Nat]
        /\ SoundBy(fr, tr, ac, susp, off, seg) /\ Reasons(ac)
        /\ Len(ac) > 0 /\ ac[Len(ac)].kind = "exec"
    BY <1>2, <1>3
  <2> HIDE <1>2, <1>3
  <2>2. /\ seg[Len(ac) - 1] \in Nat /\ seg[Len(ac) - 1] < Len(fr)
        /\ OneRoot(fr, seg[Len(ac) - 1] + 1, Len(fr))
        /\ UsageTraps => ac[Len(ac)].traps = off[Len(fr)] - off[seg[Len(ac) - 1]]
    BY <2>1, TopIsExec
  <2> QED
    BY <2>2
<1>5. Len(fr) = seg[Len(ac) - 1] + 1
  <2>1. Len(fr) \in seg[Len(ac) - 1] + 1 .. Len(fr)
    BY <1>2, <1>4
  <2> QED
    BY <1>3, <1>4, <2>1 DEF OneRoot
<1>6. Len(fr) \in 1 .. Len(fr) /\ seg[Len(ac) - 1] = Len(fr) - 1 /\ Len(fr) - 1 \in 0 .. Len(fr)
  BY <1>2, <1>4, <1>5, SMTT(30)
<1>7. off[Len(fr)] = off[Len(fr) - 1] + fr[Len(fr)].etraps /\ off[Len(fr) - 1] \in Nat
  BY <1>2, <1>6 DEF Laid
<1> QED
  BY <1>3, <1>4, <1>6, <1>7

(* Every frame, trap, activation and generator is of the right form, and   *)
(* _nnativecalls is never above MAX_NATIVE_CALLS.                          *)
THEOREM TypeCorrect ==
  ASSUME UsageRoot
  PROVE  Spec => []TypeOK
<1>1. IInv => TypeOK
  BY TypesHold
<1>2. Spec => []IInv
  BY Invariance
<1> QED
  BY <1>1, <1>2, PTL

(* However often generators yield and wherever they come back, _etraps     *)
(* holds the traps of each frame in its order, with the stack base of that *)
(* frame: exception_trap finds the innermost try.                          *)
THEOREM InnermostTryCatches ==
  ASSUME UsageRoot
  PROVE  Spec => []TrapsMatchFrames
<1>1. IInv => TrapsMatchFrames
  BY TrapsHold
<1>2. Spec => []IInv
  BY Invariance
<1> QED
  BY <1>1, <1>2, PTL

(* EnterFrame, LeaveFrame, catches and generators leave _stackbase at the  *)
(* base of ci.                                                             *)
THEOREM StackbaseFollowsCi ==
  ASSUME UsageRoot
  PROVE  Spec => []StackbaseOfCi
<1>1. IInv => StackbaseOfCi
  BY StackbaseHolds
<1>2. Spec => []IInv
  BY Invariance
<1> QED
  BY <1>1, <1>2, PTL

(* An Execute returns at its own root frame, whatever calls, errors,       *)
(* yields and suspensions happen in it.                                    *)
THEOREM ExecuteOwnsItsRoot ==
  ASSUME UsageRoot
  PROVE  Spec => []RootsMatchExecs
<1>1. IInv => RootsMatchExecs
  BY RootsHold
<1>2. Spec => []IInv
  BY Invariance
<1> QED
  BY <1>1, <1>2, PTL

(* A generator has one frame on the stack while it runs, and none          *)
(* otherwise: it is not resumed twice, and unwinding kills it.             *)
THEOREM GeneratorsRunOnce ==
  ASSUME UsageRoot
  PROVE  Spec => []GeneratorInOneFrame
<1>1. IInv => GeneratorInOneFrame
  BY GeneratorsHold
<1>2. Spec => []IInv
  BY Invariance
<1> QED
  BY <1>1, <1>2, PTL

(* When the outermost Execute returns, _nnativecalls is 0 again, and no    *)
(* frame is left but those of a suspended VM.                              *)
THEOREM NothingLeftWhenIdle ==
  ASSUME UsageRoot
  PROVE  Spec => []QuietWhenIdle
<1>1. IInv => QuietWhenIdle
  BY QuietHolds
<1>2. Spec => []IInv
  BY Invariance
<1> QED
  BY <1>1, <1>2, PTL

(* The local traps of each Execute, and _suspended_traps, is the number of *)
(* traps of its frames, unless foreach runs a generator that yields inside *)
(* a try.                                                                  *)
THEOREM TrapsAreCounted ==
  ASSUME UsageRoot, UsageTraps
  PROVE  Spec => []TrapsExact
<1>1. IInv => TrapsExact
  BY TrapsExactHolds
<1>2. Spec => []IInv
  BY Invariance
<1> QED
  BY <1>1, <1>2, PTL

(* exception_trap calls the error handler only for an error that no trap   *)
(* of its Execute catches, and this stays so while the handler runs.       *)
THEOREM HandlerOnlyForUncaught ==
  ASSUME UsageRoot, UsageTraps
  PROVE  Spec => []HandlerForUncaught
<1>1. IInv => HandlerForUncaught
  BY HandlerHolds
<1>2. Spec => []IInv
  BY Invariance
<1> QED
  BY <1>1, <1>2, PTL

(* The assertions that _OP_RETURN and _OP_YIELD make of traps hold, unless *)
(* foreach runs a generator that yields inside a try: nothing else breaks  *)
(* them.                                                                   *)
THEOREM AssertionsHold ==
  ASSUME UsageRoot, UsageTraps
  PROVE  Spec => []AssertNoTraps
<1>1. IInv => AssertNoTraps
  BY AssertionHolds
<1>2. Spec => []IInv
  BY Invariance
<1> QED
  BY <1>1, <1>2, PTL
=============================================================================
