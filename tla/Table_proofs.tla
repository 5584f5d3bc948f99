---------------------------- MODULE Table_proofs ----------------------------
(***************************************************************************)
(* What a table promises, for every set of keys, every size and every      *)
(* number of bits.                                                         *)
(*                                                                         *)
(* The invariant is about the links.  It gives each node a chain, named by *)
(* a number c, and a rank r on that chain; a link goes one rank down on    *)
(* its chain and skips no node, and the main position of a key is at or    *)
(* above it.  So no chain is a cycle, and a lookup meets the key.  That    *)
(* an insertion keeps it so rests on what holds up to firstfree, nodes not *)
(* used since the array was allocated and nodes that were removed alike: a *)
(* node there without a link has a chain of its own (Alone), and a key     *)
(* there is at its main position (Native); and the main position of a key, *)
(* where it is taken, is taken by a key that belongs there (Pure).         *)
(*                                                                         *)
(* Find, Chain and InsertAll are recursive functions.  That there is a     *)
(* function with each of their equations, and what it computes, is shown   *)
(* by the least number at which it would fail.                             *)
(***************************************************************************)
EXTENDS Table, FiniteSetTheorems, WellFoundedInduction, TLAPS

(* A set of numbers that is not empty has a least and, if it is bounded, a *)
(* greatest member.                                                        *)
LEMMA LeastNumber ==
  ASSUME NEW T \in SUBSET Nat, T # {}
  PROVE  Min(T) \in T /\ \A y \in T : Min(T) <= y
<1> DEFINE R == OpToRel(<, Nat)
<1>1. IsWellFoundedOn(R, Nat)
  BY NatLessThanWellFounded
<1>2. \A x, y \in Nat : y < x => <<y, x>> \in R
  BY DEF OpToRel
<1> HIDE DEF R
<1>3. PICK x \in T : \A y \in T : ~(<<y, x>> \in R)
  BY <1>1, WFMin
<1>4. ASSUME NEW y \in T PROVE x <= y
  <2>1. x \in Nat /\ y \in Nat /\ ~(<<y, x>> \in R)
    BY <1>3
  <2>2. ~(y < x)
    BY <2>1, <1>2
  <2> QED
    BY <2>1, <2>2
<1> QED
  BY <1>4 DEF Min

LEMMA GreatestNumber ==
  ASSUME NEW T \in SUBSET Nat, T # {}, NEW n \in Nat, \A y \in T : y <= n
  PROVE  Max(T) \in T /\ \A y \in T : y <= Max(T)
<1> DEFINE U == {m \in Nat : n - m \in T /\ m <= n}
<1>1. U \in SUBSET Nat
  OBVIOUS
<1>2. PICK y \in T : TRUE
  OBVIOUS
<1>3. n - y \in U
  BY <1>2
<1> DEFINE k == Min(U)
<1>4. k \in U /\ \A z \in U : k <= z
  BY <1>1, <1>3, LeastNumber
<1> HIDE DEF k
<1>5. n - k \in T /\ k \in Nat
  BY <1>4
<1>6. ASSUME NEW z \in T PROVE z <= n - k
  <2>1. n - z \in U
    OBVIOUS
  <2>2. k <= n - z
    BY <1>4, <2>1
  <2> QED
    BY <2>2, <1>5
<1> QED
  BY <1>5, <1>6 DEF Max

-----------------------------------------------------------------------------
(* The recursion of Find, unfolded once, and the function it defines.      *)
LookupStep(tab, k, n, g) ==
    [p \in Nodes(tab) |->
        IF tab.key[p] = k THEN p
        ELSE IF tab.next[p] = Nil \/ n = 0 THEN Nil
        ELSE g[n - 1][tab.next[p]]]

Lookups(tab, k) ==
    CHOOSE f : f = [n \in 0 .. tab.size |-> LookupStep(tab, k, n, f)]

LEMMA FindIsLookup ==
  ASSUME NEW tab, NEW k
  PROVE  Find(tab, k) = Lookups(tab, k)[tab.size][Main(tab, k)]
BY Zenon DEF Find, Lookups, LookupStep

(* There is such a function: a least number at which two candidates        *)
(* disagree, or none is left, would contradict the step before it.         *)
LEMMA LookupsDef ==
  ASSUME NEW tab, NEW k, tab.size \in Nat
  PROVE  \A n \in 0 .. tab.size : Lookups(tab, k)[n] = LookupStep(tab, k, n, Lookups(tab, k))
<1> DEFINE Step(n, g) == LookupStep(tab, k, n, g)
           IsUpTo(m) == \E f : f = [n \in 0 .. m |-> Step(n, f)]
           T == {m \in Nat : ~IsUpTo(m)}
<1>1. ASSUME NEW f, NEW g PROVE Step(0, f) = Step(0, g)
  BY DEF LookupStep
<1>2. ASSUME NEW f, NEW g, NEW n \in Nat, n # 0, f[n - 1] = g[n - 1] PROVE Step(n, f) = Step(n, g)
  BY <1>2 DEF LookupStep
<1> HIDE DEF Step
<1>3. ASSUME T # {} PROVE FALSE
  <2> DEFINE m == Min(T)
  <2>1. m \in T /\ \A y \in T : m <= y
    BY <1>3, LeastNumber
  <2> HIDE DEF m
  <2>2. CASE m = 0
    <3> DEFINE f == [n \in 0 .. 0 |-> Step(0, 0)]
    <3>1. f = [n \in 0 .. 0 |-> Step(n, f)]
      BY <1>1
    <3> HIDE DEF f
    <3> QED
      BY <3>1, <2>1, <2>2
  <2>3. CASE m # 0
    <3>1. IsUpTo(m - 1)
      BY <2>1, <2>3
    <3>2. PICK f : f = [n \in 0 .. m - 1 |-> Step(n, f)]
      BY <3>1
    <3> DEFINE g == [n \in 0 .. m |-> IF n = m THEN Step(m, f) ELSE f[n]]
    <3>3. m \in Nat /\ m - 1 \in Nat
      BY <2>1, <2>3
    <3>a. \A n \in 0 .. m - 1 : g[n] = f[n] /\ f[n] = Step(n, f)
      BY <3>2, <3>3
    <3>b. g[m] = Step(m, f)
      BY <3>3
    <3>c. g = [n \in 0 .. m |-> g[n]]
      OBVIOUS
    <3> HIDE DEF g
    <3>4. ASSUME NEW n \in 0 .. m PROVE g[n] = Step(n, g)
      <4>1. CASE n = 0
        BY <4>1, <3>a, <3>3, <1>1
      <4>2. CASE n # 0 /\ n # m
        <5>1. n - 1 \in 0 .. m - 1 /\ n \in 0 .. m - 1 /\ n \in Nat
          BY <4>2, <3>3
        <5> QED
          BY <5>1, <4>2, <3>a, <1>2
      <4>3. CASE n = m
        <5>1. m - 1 \in 0 .. m - 1
          BY <3>3
        <5> QED
          BY <5>1, <4>3, <3>a, <3>b, <3>3, <2>3, <1>2
      <4> QED
        BY <4>1, <4>2, <4>3
    <3>5. g = [n \in 0 .. m |-> Step(n, g)]
      BY <3>c, <3>4
    <3> QED
      BY <3>5, <2>1
  <2> QED
    BY <2>2, <2>3
<1>4. IsUpTo(tab.size)
  BY <1>3
<1>5. Lookups(tab, k) = [n \in 0 .. tab.size |-> Step(n, Lookups(tab, k))]
  BY <1>4 DEF Lookups, Step
<1> HIDE DEF IsUpTo, T
<1> QED
  BY <1>5 DEF Step
-----------------------------------------------------------------------------
(* A well formed node array of n nodes.                                    *)
Array(tab, n) == n \in Nat /\ n >= MinPower2 /\ tab \in TableOf(n)

(* How the nodes are laid out: c names the chain of a node, r orders the   *)
(* nodes of a chain, the first with the greatest number.                   *)
Descends(tab, c, r) ==
    \A p \in Nodes(tab) : tab.next[p] # Nil => c[tab.next[p]] = c[p] /\ r[tab.next[p]] < r[p]
SkipsNone(tab, c, r) ==
    \A p, q \in Nodes(tab) :
        c[p] = c[q] /\ r[q] < r[p] => tab.next[p] # Nil /\ r[q] <= r[tab.next[p]]
Ordered(tab, c, r) ==
    \A p, q \in Nodes(tab) : c[p] = c[q] /\ r[p] = r[q] => p = q
Homed(tab, c, r) ==
    \A i \in Nodes(tab) : tab.key[i] # NullKey =>
        c[Main(tab, tab.key[i])] = c[i] /\ r[i] <= r[Main(tab, tab.key[i])]

(* The chains as a whole.                                                  *)
Chained(tab, c, r) ==
    /\ c \in [Nodes(tab) -> Nodes(tab)] /\ r \in [Nodes(tab) -> Int]
    /\ Descends(tab, c, r) /\ SkipsNone(tab, c, r) /\ Ordered(tab, c, r) /\ Homed(tab, c, r)

(* No key is in the array twice.                                           *)
Distinct(tab) ==
    \A i, j \in Nodes(tab) : tab.key[i] # NullKey /\ tab.key[i] = tab.key[j] => i = j

(* Every key has its main position in the array.                           *)
LEMMA MainIsNode ==
  ASSUME NEW tab, NEW n, Array(tab, n), NEW k \in Key \cup {NullKey}
  PROVE  Main(tab, k) \in Nodes(tab) /\ (k # NullKey => Main(tab, k) = k % n)
<1>1. n \in Nat /\ n >= 4 /\ tab.size = n
  BY DEF Array, TableOf, MinPower2
<1>2. CASE k = NullKey
  BY <1>1, <1>2 DEF Main, Nodes
<1>3. CASE k # NullKey
  <2>1. k \in Nat
    BY <1>3, KeysAreNumbers
  <2>2. k % n \in 0 .. n - 1
    BY <2>1, <1>1
  <2> QED
    BY <2>2, <1>1, <1>3 DEF Main, Nodes
<1> QED
  BY <1>2, <1>3

(* What a lookup finds has the key.                                        *)
LEMMA LookupIsSound ==
  ASSUME NEW tab, NEW n, Array(tab, n), NEW k
  PROVE  \A m \in 0 .. n : \A p \in Nodes(tab) :
            LET f == Lookups(tab, k)[m][p]
            IN  f \in Nodes(tab) \cup {Nil} /\ (f # Nil => tab.key[f] = k)
<1> DEFINE L == Lookups(tab, k)
           Ok(m) == \A p \in Nodes(tab) :
                       L[m][p] \in Nodes(tab) \cup {Nil} /\ (L[m][p] # Nil => tab.key[L[m][p]] = k)
           T == {m \in 0 .. n : ~Ok(m)}
<1>1. n \in Nat /\ tab.size = n /\ Nodes(tab) = 0 .. n - 1
      /\ tab.next \in [Nodes(tab) -> Nodes(tab) \cup {Nil}]
  BY DEF Array, TableOf, Nodes
<1>2. \A m \in 0 .. n : L[m] = LookupStep(tab, k, m, L)
  BY <1>1, LookupsDef
<1> HIDE DEF L
<1>3. ASSUME T # {} PROVE FALSE
  <2> DEFINE m == Min(T)
  <2>b. T \in SUBSET Nat
    BY <1>1
  <2> HIDE DEF T
  <2>1. m \in T /\ \A y \in T : m <= y
    BY <2>b, <1>3, LeastNumber
  <2> USE DEF T
  <2> HIDE DEF m
  <2>2. PICK p \in Nodes(tab) :
          ~(L[m][p] \in Nodes(tab) \cup {Nil} /\ (L[m][p] # Nil => tab.key[L[m][p]] = k))
    BY <2>1
  <2>a. L[m] = LookupStep(tab, k, m, L)
    BY <2>1, <1>2
  <2>3. L[m][p] = IF tab.key[p] = k THEN p
                  ELSE IF tab.next[p] = Nil \/ m = 0 THEN Nil ELSE L[m - 1][tab.next[p]]
    BY ONLY <2>a, p \in Nodes(tab) DEF LookupStep
  <2>4. m \in 0 .. n
    BY <2>1
  <2>5. CASE tab.key[p] # k /\ tab.next[p] # Nil /\ m # 0
    <3>1. m - 1 \in 0 .. n /\ ~(m <= m - 1)
      BY <2>4, <2>5, <1>1
    <3>2. Ok(m - 1)
      BY <3>1, <2>1
    <3>3. tab.next[p] \in Nodes(tab)
      BY <2>5, <1>1
    <3>4. L[m][p] = L[m - 1][tab.next[p]]
      BY <2>3, <2>5
    <3> QED
      BY <3>2, <3>3, <3>4, <2>2
  <2>6. CASE tab.key[p] = k
    BY <2>2, <2>3, <2>6
  <2>7. CASE tab.key[p] # k /\ (tab.next[p] = Nil \/ m = 0)
    BY <2>2, <2>3, <2>7
  <2> QED
    BY <2>5, <2>6, <2>7
<1>4. \A m \in 0 .. n : Ok(m)
  BY <1>3
<1> QED
  BY <1>4 DEF L

(* The nodes from p on, in front of i.                                     *)
Between(tab, c, r, p, i) ==
    {q \in Nodes(tab) : c[q] = c[i] /\ r[i] <= r[q] /\ r[q] < r[p]}

(* Following a link leaves one node fewer to visit before i.               *)
LEMMA BetweenShrinks ==
  ASSUME NEW tab, NEW n, Array(tab, n), NEW c, NEW r, Chained(tab, c, r),
         NEW p \in Nodes(tab), NEW i \in Nodes(tab), c[p] = c[i], r[i] <= r[p], p # i
  PROVE  /\ tab.next[p] \in Nodes(tab) /\ c[tab.next[p]] = c[i] /\ r[i] <= r[tab.next[p]]
         /\ r[tab.next[p]] < r[p]
         /\ Cardinality(Between(tab, c, r, p, i)) \in Nat
         /\ Cardinality(Between(tab, c, r, tab.next[p], i)) \in Nat
         /\ Cardinality(Between(tab, c, r, tab.next[p], i)) < Cardinality(Between(tab, c, r, p, i))
<1> DEFINE q == tab.next[p]
           A == Between(tab, c, r, p, i)
           B == Between(tab, c, r, q, i)
<1>1. n \in Nat /\ Nodes(tab) = 0 .. n - 1 /\ tab.next \in [Nodes(tab) -> Nodes(tab) \cup {Nil}]
  BY DEF Array, TableOf, Nodes
<1>2. r \in [Nodes(tab) -> Int]
  BY DEF Chained
<1>3. r[i] < r[p]
  <2>1. r[i] # r[p]
    BY DEF Chained, Ordered
  <2> QED
    BY <2>1, <1>2
<1>4. q # Nil /\ r[i] <= r[q]
  BY <1>3 DEF Chained, SkipsNone
<1>5. q \in Nodes(tab)
  BY <1>4, <1>1
<1>6. c[q] = c[i] /\ r[q] < r[p]
  BY <1>4 DEF Chained, Descends
<1> HIDE DEF q
<1>7. B \subseteq A
  BY <1>5, <1>6, <1>2 DEF Between
<1>8. q \in A /\ q \notin B
  BY <1>4, <1>5, <1>6, <1>2 DEF Between
<1>9. IsFiniteSet(A)
  <2>1. IsFiniteSet(0 .. n - 1)
    BY <1>1, FS_Interval
  <2>2. A \subseteq 0 .. n - 1
    BY <1>1 DEF Between
  <2> QED
    BY <2>1, <2>2, FS_Subset
<1> HIDE DEF A, B
<1>10. Cardinality(A) \in Nat /\ Cardinality(B) \in Nat /\ Cardinality(B) < Cardinality(A)
  <2>1. IsFiniteSet(A \ {q}) /\ Cardinality(A \ {q}) = Cardinality(A) - 1
    BY <1>8, <1>9, FS_RemoveElement
  <2>2. B \subseteq A \ {q}
    BY <1>7, <1>8
  <2>3. IsFiniteSet(B) /\ Cardinality(B) <= Cardinality(A \ {q})
    BY <2>1, <2>2, FS_Subset
  <2>4. Cardinality(A) \in Nat /\ Cardinality(B) \in Nat
    BY <1>9, <2>3, FS_CardinalityType
  <2> QED
    BY <2>1, <2>3, <2>4
<1> QED
  BY <1>4, <1>5, <1>6, <1>10 DEF q, A, B

LEMMA BetweenBounded ==
  ASSUME NEW tab, NEW n, Array(tab, n), NEW c, NEW r, NEW p, NEW i
  PROVE  Cardinality(Between(tab, c, r, p, i)) \in Nat
         /\ Cardinality(Between(tab, c, r, p, i)) <= n
<1>1. n \in Nat /\ Nodes(tab) = 0 .. n - 1 /\ n >= 4
  BY DEF Array, TableOf, Nodes, MinPower2
<1>2. IsFiniteSet(0 .. n - 1) /\ Cardinality(0 .. n - 1) = n
  BY <1>1, FS_Interval
<1>3. Between(tab, c, r, p, i) \subseteq 0 .. n - 1
  BY <1>1 DEF Between
<1> HIDE DEF Between
<1>4. IsFiniteSet(Between(tab, c, r, p, i)) /\ Cardinality(Between(tab, c, r, p, i)) <= n
  BY <1>2, <1>3, FS_Subset
<1> QED
  BY <1>4, FS_CardinalityType

(* A key is found from each node of its chain in front of it.              *)
LEMMA LookupIsComplete ==
  ASSUME NEW tab, NEW n, Array(tab, n), NEW c, NEW r, Chained(tab, c, r), Distinct(tab),
         NEW i \in Nodes(tab), tab.key[i] # NullKey
  PROVE  \A m \in 0 .. n : \A p \in Nodes(tab) :
            c[p] = c[i] /\ r[i] <= r[p] /\ Cardinality(Between(tab, c, r, p, i)) <= m
            => Lookups(tab, tab.key[i])[m][p] = i
<1> DEFINE k == tab.key[i]
           L == Lookups(tab, k)
           Bt(p) == Cardinality(Between(tab, c, r, p, i))
           In(p) == c[p] = c[i] /\ r[i] <= r[p]
           Ok(m) == \A p \in Nodes(tab) : In(p) /\ Bt(p) <= m => L[m][p] = i
           T == {m \in 0 .. n : ~Ok(m)}
<1>1. n \in Nat /\ tab.size = n
  BY DEF Array, TableOf
<1>2. \A m \in 0 .. n : L[m] = LookupStep(tab, k, m, L)
  BY <1>1, LookupsDef
<1>3. \A p \in Nodes(tab) : tab.key[p] = k => p = i
  BY DEF Distinct
<1>4. ASSUME NEW p \in Nodes(tab), In(p), p # i
      PROVE  tab.next[p] \in Nodes(tab) /\ In(tab.next[p]) /\ Bt(p) \in Nat /\ Bt(tab.next[p]) \in Nat
             /\ Bt(tab.next[p]) < Bt(p)
  BY <1>4, BetweenShrinks
<1>5. Nil \notin Nodes(tab)
  BY KeysAreNumbers, <1>1 DEF Nodes
<1> HIDE DEF L, Bt, In
<1>6. ASSUME T # {} PROVE FALSE
  <2> DEFINE m == Min(T)
  <2>1. m \in T /\ \A y \in T : m <= y
    BY <1>1, <1>6, LeastNumber
  <2> HIDE DEF m
  <2>2. PICK p \in Nodes(tab) : In(p) /\ Bt(p) <= m /\ L[m][p] # i
    BY <2>1
  <2>a. L[m] = LookupStep(tab, k, m, L)
    BY <2>1, <1>2
  <2>3. L[m][p] = IF tab.key[p] = k THEN p
                  ELSE IF tab.next[p] = Nil \/ m = 0 THEN Nil ELSE L[m - 1][tab.next[p]]
    BY ONLY <2>a, p \in Nodes(tab) DEF LookupStep
  <2>4. p # i
    BY <2>3, <2>2
  <2>5. tab.next[p] \in Nodes(tab) /\ In(tab.next[p]) /\ Bt(p) \in Nat /\ Bt(tab.next[p]) \in Nat
        /\ Bt(tab.next[p]) < Bt(p)
    BY <1>4, <2>2, <2>4
  <2>6. m \in 0 .. n /\ m # 0
    BY <2>1, <2>2, <2>5
  <2>7. m - 1 \in 0 .. n /\ ~(m <= m - 1) /\ Bt(tab.next[p]) <= m - 1
    BY <2>2, <2>5, <2>6, <1>1
  <2>8. Ok(m - 1)
    BY <2>7, <2>1
  <2>9. L[m][p] = L[m - 1][tab.next[p]]
    BY <2>3, <2>4, <2>5, <2>6, <1>3, <1>5
  <2> QED
    BY <2>2, <2>5, <2>7, <2>8, <2>9
<1>7. \A m \in 0 .. n : Ok(m)
  BY <1>6
<1> QED
  BY <1>7 DEF L, Bt, In

(* What Find returns is a node that has the key.                           *)
LEMMA FindIsSound ==
  ASSUME NEW tab, NEW n, Array(tab, n), NEW k \in Key \cup {NullKey}
  PROVE  Find(tab, k) \in Nodes(tab) \cup {Nil} /\ (Find(tab, k) # Nil => tab.key[Find(tab, k)] = k)
<1>1. n \in 0 .. n /\ tab.size = n
  BY DEF Array, TableOf
<1>2. Main(tab, k) \in Nodes(tab)
  BY MainIsNode
<1> QED
  BY <1>1, <1>2, LookupIsSound, FindIsLookup

(* A key of the array is found where it is.                                *)
LEMMA FindIsComplete ==
  ASSUME NEW tab, NEW n, Array(tab, n), NEW c, NEW r, Chained(tab, c, r), Distinct(tab),
         NEW i \in Nodes(tab), tab.key[i] # NullKey
  PROVE  Find(tab, tab.key[i]) = i
<1>1. n \in 0 .. n /\ tab.size = n /\ tab.key[i] \in Key \cup {NullKey}
  BY DEF Array, TableOf, Nodes
<1>2. Main(tab, tab.key[i]) \in Nodes(tab)
  BY <1>1, MainIsNode
<1>3. c[Main(tab, tab.key[i])] = c[i] /\ r[i] <= r[Main(tab, tab.key[i])]
  BY DEF Chained, Homed
<1>4. Cardinality(Between(tab, c, r, Main(tab, tab.key[i]), i)) <= n
  BY BetweenBounded
<1>5. Lookups(tab, tab.key[i])[n][Main(tab, tab.key[i])] = i
  BY <1>1, <1>2, <1>3, <1>4, LookupIsComplete
<1> QED
  BY <1>1, <1>5, FindIsLookup
-----------------------------------------------------------------------------
(* The recursion of Chain, in the same way.                                *)
ChainStep(tab, n, g) ==
    [p \in Nodes(tab) |->
        {p} \cup IF tab.next[p] = Nil \/ n = 0 THEN {} ELSE g[n - 1][tab.next[p]]]

Chains(tab) == CHOOSE f : f = [n \in 0 .. tab.size |-> ChainStep(tab, n, f)]

LEMMA ChainIsChains ==
  ASSUME NEW tab, NEW h
  PROVE  Chain(tab, h) = Chains(tab)[tab.size][h]
BY Zenon DEF Chain, Chains, ChainStep

LEMMA ChainsDef ==
  ASSUME NEW tab, tab.size \in Nat
  PROVE  \A n \in 0 .. tab.size : Chains(tab)[n] = ChainStep(tab, n, Chains(tab))
<1> DEFINE Step(n, g) == ChainStep(tab, n, g)
           IsUpTo(m) == \E f : f = [n \in 0 .. m |-> Step(n, f)]
           T == {m \in Nat : ~IsUpTo(m)}
<1>1. ASSUME NEW f, NEW g PROVE Step(0, f) = Step(0, g)
  BY DEF ChainStep
<1>2. ASSUME NEW f, NEW g, NEW n \in Nat, n # 0, f[n - 1] = g[n - 1] PROVE Step(n, f) = Step(n, g)
  BY <1>2 DEF ChainStep
<1> HIDE DEF Step
<1>3. ASSUME T # {} PROVE FALSE
  <2> DEFINE m == Min(T)
  <2>1. m \in T /\ \A y \in T : m <= y
    BY <1>3, LeastNumber
  <2> HIDE DEF m
  <2>2. CASE m = 0
    <3> DEFINE f == [n \in 0 .. 0 |-> Step(0, 0)]
    <3>1. f = [n \in 0 .. 0 |-> Step(n, f)]
      BY <1>1
    <3> HIDE DEF f
    <3> QED
      BY <3>1, <2>1, <2>2
  <2>3. CASE m # 0
    <3>1. IsUpTo(m - 1)
      BY <2>1, <2>3
    <3>2. PICK f : f = [n \in 0 .. m - 1 |-> Step(n, f)]
      BY <3>1
    <3> DEFINE g == [n \in 0 .. m |-> IF n = m THEN Step(m, f) ELSE f[n]]
    <3>3. m \in Nat /\ m - 1 \in Nat
      BY <2>1, <2>3
    <3>a. \A n \in 0 .. m - 1 : g[n] = f[n] /\ f[n] = Step(n, f)
      BY <3>2, <3>3
    <3>b. g[m] = Step(m, f)
      BY <3>3
    <3>c. g = [n \in 0 .. m |-> g[n]]
      OBVIOUS
    <3> HIDE DEF g
    <3>4. ASSUME NEW n \in 0 .. m PROVE g[n] = Step(n, g)
      <4>1. CASE n = 0
        BY <4>1, <3>a, <3>3, <1>1
      <4>2. CASE n # 0 /\ n # m
        <5>1. n - 1 \in 0 .. m - 1 /\ n \in 0 .. m - 1 /\ n \in Nat
          BY <4>2, <3>3
        <5> QED
          BY <5>1, <4>2, <3>a, <1>2
      <4>3. CASE n = m
        <5>1. m - 1 \in 0 .. m - 1
          BY <3>3
        <5> QED
          BY <5>1, <4>3, <3>a, <3>b, <3>3, <2>3, <1>2
      <4> QED
        BY <4>1, <4>2, <4>3
    <3>5. g = [n \in 0 .. m |-> Step(n, g)]
      BY <3>c, <3>4
    <3> QED
      BY <3>5, <2>1
  <2> QED
    BY <2>2, <2>3
<1>4. IsUpTo(tab.size)
  BY <1>3
<1>5. Chains(tab) = [n \in 0 .. tab.size |-> Step(n, Chains(tab))]
  BY <1>4 DEF Chains, Step
<1> HIDE DEF IsUpTo, T
<1> QED
  BY <1>5 DEF Step

(* A chain goes down, and it misses no node below its first.               *)
LEMMA ChainGoesDown ==
  ASSUME NEW tab, NEW n, Array(tab, n), NEW c, NEW r, Chained(tab, c, r)
  PROVE  \A m \in 0 .. n : \A p \in Nodes(tab) : \A q \in Chains(tab)[m][p] :
            q \in Nodes(tab) /\ r[q] <= r[p]
<1> DEFINE L == Chains(tab)
           Ok(m) == \A p \in Nodes(tab) : \A q \in L[m][p] : q \in Nodes(tab) /\ r[q] <= r[p]
           T == {m \in 0 .. n : ~Ok(m)}
<1>1. n \in Nat /\ tab.size = n /\ tab.next \in [Nodes(tab) -> Nodes(tab) \cup {Nil}]
      /\ r \in [Nodes(tab) -> Int]
  BY DEF Array, TableOf, Nodes, Chained
<1>2. \A m \in 0 .. n : L[m] = ChainStep(tab, m, L)
  BY <1>1, ChainsDef
<1> HIDE DEF L
<1>3. ASSUME T # {} PROVE FALSE
  <2> DEFINE m == Min(T)
  <2>b. T \in SUBSET Nat
    BY <1>1
  <2> HIDE DEF T
  <2>1. m \in T /\ \A y \in T : m <= y
    BY <2>b, <1>3, LeastNumber
  <2> USE DEF T
  <2> HIDE DEF m
  <2>2. PICK p \in Nodes(tab) : \E q \in L[m][p] : ~(q \in Nodes(tab) /\ r[q] <= r[p])
    BY <2>1
  <2>3. PICK q \in L[m][p] : ~(q \in Nodes(tab) /\ r[q] <= r[p])
    BY <2>2
  <2>a. L[m] = ChainStep(tab, m, L)
    BY <2>1, <1>2
  <2>4. L[m][p] = {p} \cup IF tab.next[p] = Nil \/ m = 0 THEN {} ELSE L[m - 1][tab.next[p]]
    BY ONLY <2>a, p \in Nodes(tab) DEF ChainStep
  <2>5. q # p
    BY <2>3, <1>1
  <2>6. tab.next[p] # Nil /\ m # 0 /\ q \in L[m - 1][tab.next[p]]
    BY <2>4, <2>5, <2>3
  <2>7. m \in 0 .. n
    BY <2>1
  <2>8. m - 1 \in 0 .. n /\ ~(m <= m - 1)
    BY <2>6, <2>7, <1>1
  <2>9. Ok(m - 1)
    BY <2>8, <2>1
  <2>10. tab.next[p] \in Nodes(tab) /\ r[tab.next[p]] < r[p]
    BY <2>6, <1>1 DEF Chained, Descends
  <2>11. q \in Nodes(tab) /\ r[q] <= r[tab.next[p]]
    BY <2>9, <2>10, <2>6
  <2> QED
    BY <2>3, <2>10, <2>11, <1>1
<1>4. \A m \in 0 .. n : Ok(m)
  BY <1>3
<1> QED
  BY <1>4 DEF L

(* Chain has every node further down.                                      *)
LEMMA ChainMissesNone ==
  ASSUME NEW tab, NEW n, Array(tab, n), NEW c, NEW r, Chained(tab, c, r), NEW i \in Nodes(tab)
  PROVE  \A m \in 0 .. n : \A p \in Nodes(tab) :
            c[p] = c[i] /\ r[i] <= r[p] /\ Cardinality(Between(tab, c, r, p, i)) <= m
            => i \in Chains(tab)[m][p]
<1> DEFINE L == Chains(tab)
           Bt(p) == Cardinality(Between(tab, c, r, p, i))
           In(p) == c[p] = c[i] /\ r[i] <= r[p]
           Ok(m) == \A p \in Nodes(tab) : In(p) /\ Bt(p) <= m => i \in L[m][p]
           T == {m \in 0 .. n : ~Ok(m)}
<1>1. n \in Nat /\ tab.size = n
  BY DEF Array, TableOf
<1>2. \A m \in 0 .. n : L[m] = ChainStep(tab, m, L)
  BY <1>1, ChainsDef
<1>4. ASSUME NEW p \in Nodes(tab), In(p), p # i
      PROVE  tab.next[p] \in Nodes(tab) /\ In(tab.next[p]) /\ Bt(p) \in Nat /\ Bt(tab.next[p]) \in Nat
             /\ Bt(tab.next[p]) < Bt(p)
  BY <1>4, BetweenShrinks
<1>5. Nil \notin Nodes(tab)
  BY KeysAreNumbers, <1>1 DEF Nodes
<1> HIDE DEF L, Bt, In
<1>6. ASSUME T # {} PROVE FALSE
  <2> DEFINE m == Min(T)
  <2>1. m \in T /\ \A y \in T : m <= y
    BY <1>1, <1>6, LeastNumber
  <2> HIDE DEF m
  <2>2. PICK p \in Nodes(tab) : In(p) /\ Bt(p) <= m /\ i \notin L[m][p]
    BY <2>1
  <2>a. L[m] = ChainStep(tab, m, L)
    BY <2>1, <1>2
  <2>3. L[m][p] = {p} \cup IF tab.next[p] = Nil \/ m = 0 THEN {} ELSE L[m - 1][tab.next[p]]
    BY ONLY <2>a, p \in Nodes(tab) DEF ChainStep
  <2>4. p # i
    BY <2>3, <2>2
  <2>5. tab.next[p] \in Nodes(tab) /\ In(tab.next[p]) /\ Bt(p) \in Nat /\ Bt(tab.next[p]) \in Nat
        /\ Bt(tab.next[p]) < Bt(p)
    BY <1>4, <2>2, <2>4
  <2>6. m \in 0 .. n /\ m # 0
    BY <2>1, <2>2, <2>5
  <2>7. m - 1 \in 0 .. n /\ ~(m <= m - 1) /\ Bt(tab.next[p]) <= m - 1
    BY <2>2, <2>5, <2>6, <1>1
  <2>8. Ok(m - 1)
    BY <2>7, <2>1
  <2>9. L[m - 1][tab.next[p]] \subseteq L[m][p]
    BY <2>3, <2>5, <2>6, <1>5
  <2> QED
    BY <2>2, <2>5, <2>7, <2>8, <2>9
<1>7. \A m \in 0 .. n : Ok(m)
  BY <1>6
<1> QED
  BY <1>7 DEF L, Bt, In

(* A node that is not the first of its chain has a node in front of it,    *)
(* and MoveColliding finds it.                                             *)
LEMMA PreviousExists ==
  ASSUME NEW tab, NEW n, Array(tab, n), NEW c, NEW r, Chained(tab, c, r),
         NEW h \in Nodes(tab), NEW i \in Nodes(tab), c[h] = c[i], r[i] < r[h]
  PROVE  \E p \in Nodes(tab) : p \in Chain(tab, h) /\ tab.next[p] = i
<1>1. n \in Nat /\ tab.size = n /\ n \in 0 .. n /\ r \in [Nodes(tab) -> Int]
      /\ tab.next \in [Nodes(tab) -> Nodes(tab) \cup {Nil}]
  BY DEF Array, TableOf, Nodes, Chained
<1> DEFINE T == {r[q] - r[i] : q \in {x \in Nodes(tab) : c[x] = c[i] /\ r[i] < r[x]}}
<1>2. T \in SUBSET Nat
  BY <1>1
<1>3. r[h] - r[i] \in T
  OBVIOUS
<1> HIDE DEF T
<1> DEFINE d == Min(T)
<1>4. d \in T /\ \A y \in T : d <= y
  BY <1>2, <1>3, LeastNumber
<1> HIDE DEF d
<1>5. PICK p \in Nodes(tab) : d = r[p] - r[i] /\ c[p] = c[i] /\ r[i] < r[p]
  BY <1>4 DEF T
<1>6. \A q \in Nodes(tab) : c[q] = c[i] /\ r[i] < r[q] => r[p] <= r[q]
  <2> SUFFICES ASSUME NEW q \in Nodes(tab), c[q] = c[i], r[i] < r[q] PROVE r[p] <= r[q]
    OBVIOUS
  <2>1. r[q] - r[i] \in T
    BY DEF T
  <2>2. d <= r[q] - r[i]
    BY <2>1, <1>4
  <2> QED
    BY <2>2, <1>5, <1>1
<1>7. tab.next[p] # Nil /\ r[i] <= r[tab.next[p]]
  BY <1>5 DEF Chained, SkipsNone
<1>8. tab.next[p] \in Nodes(tab) /\ c[tab.next[p]] = c[i] /\ r[tab.next[p]] < r[p]
  BY <1>7, <1>1, <1>5 DEF Chained, Descends
<1>9. ~(r[i] < r[tab.next[p]])
  BY <1>6, <1>8, <1>1
<1>10. r[i] = r[tab.next[p]]
  BY <1>7, <1>8, <1>9, <1>1
<1>11. tab.next[p] = i
  BY <1>10, <1>8 DEF Chained, Ordered
<1>12. r[p] <= r[h]
  BY <1>6
<1>13. Cardinality(Between(tab, c, r, h, p)) <= n
  BY BetweenBounded
<1>14. p \in Chains(tab)[n][h]
  BY <1>1, <1>5, <1>12, <1>13, ChainMissesNone
<1> QED
  BY <1>1, <1>11, <1>14, ChainIsChains

(* No node is linked from behind itself.                                   *)
LEMMA ChainEnds ==
  ASSUME NEW tab, NEW n, Array(tab, n), NEW c, NEW r, Chained(tab, c, r), NEW i \in Nodes(tab),
         tab.next[i] # Nil
  PROVE  i \notin Chain(tab, tab.next[i])
<1>1. n \in Nat /\ tab.size = n /\ n \in 0 .. n /\ r \in [Nodes(tab) -> Int]
  BY DEF Array, TableOf, Nodes, Chained
<1>a. tab.next \in [Nodes(tab) -> Nodes(tab) \cup {Nil}]
  BY DEF Array, TableOf, Nodes
<1>b. tab.next[i] \in Nodes(tab)
  BY <1>a
<1>2. r[tab.next[i]] < r[i]
  BY DEF Chained, Descends
<1>3. i \in Chains(tab)[n][tab.next[i]] => r[i] <= r[tab.next[i]]
  BY <1>1, <1>b, ChainGoesDown
<1> QED
  BY <1>1, <1>b, <1>2, <1>3, ChainIsChains
-----------------------------------------------------------------------------
(* What the record is after each step.                                     *)
LEMMA ArrayFields ==
  ASSUME NEW tab, NEW n, Array(tab, n)
  PROVE  /\ n \in Nat /\ n >= 4 /\ tab.size = n /\ Nodes(tab) = 0 .. n - 1
         /\ tab.firstfree \in Nodes(tab) /\ tab.firstfree \in Nat /\ tab.used \in Nat /\ tab.used < n
         /\ tab.key \in [Nodes(tab) -> Key \cup {NullKey}]
         /\ tab.val \in [Nodes(tab) -> Val \cup {NoVal}]
         /\ tab.next \in [Nodes(tab) -> Nodes(tab) \cup {Nil}]
         /\ Nil \notin Nodes(tab) /\ Nodes(tab) \subseteq Nat /\ NullKey \notin Key
<1>1. n \in Nat /\ n >= 4 /\ tab \in TableOf(n)
  BY DEF Array, MinPower2
<1>2. tab.size = n /\ tab.firstfree \in 0 .. n - 1 /\ tab.used \in 0 .. n - 1
      /\ tab.key \in [0 .. n - 1 -> Key \cup {NullKey}]
      /\ tab.val \in [0 .. n - 1 -> Val \cup {NoVal}]
      /\ tab.next \in [0 .. n - 1 -> (0 .. n - 1) \cup {Nil}]
  BY <1>1 DEF TableOf
<1>3. 0 .. n - 1 \subseteq Nat
  BY <1>1
<1>a. Nil \notin 0 .. n - 1 /\ NullKey \notin Key
  BY <1>3, KeysAreNumbers
<1>4. Nodes(tab) = 0 .. n - 1
  BY <1>2 DEF Nodes
<1>5. tab.firstfree \in Nat /\ tab.used \in Nat /\ tab.used < n
  BY <1>1, <1>2
<1> QED
  BY <1>1, <1>2, <1>3, <1>a, <1>4, <1>5

(* A record with the fields of a table is one.                             *)
LEMMA TableIntro ==
  ASSUME NEW n, NEW x, DOMAIN x = {"size", "firstfree", "used", "key", "val", "next"},
         x = [y \in DOMAIN x |-> x[y]], x.size = n, x.firstfree \in 0 .. n - 1, x.used \in 0 .. n - 1,
         x.key \in [0 .. n - 1 -> Key \cup {NullKey}], x.val \in [0 .. n - 1 -> Val \cup {NoVal}],
         x.next \in [0 .. n - 1 -> (0 .. n - 1) \cup {Nil}]
  PROVE  x \in TableOf(n)
BY DEF TableOf

LEMMA ExceptTyped ==
  ASSUME NEW A, NEW B, NEW g \in [A -> B], NEW a \in A, NEW b \in B
  PROVE  [g EXCEPT ![a] = b] \in [A -> B]
OBVIOUS

LEMMA TwoExcepts ==
  ASSUME NEW A, NEW B, NEW g \in [A -> B], NEW a \in A, NEW b, NEW d \in A, NEW e
  PROVE  \A i \in A : [[g EXCEPT ![a] = b] EXCEPT ![d] = e][i] =
                          IF i = d THEN e ELSE IF i = a THEN b ELSE g[i]
OBVIOUS

(* What each way of placing a key does to the arrays.                      *)
LEMMA AtMainFields ==
  ASSUME NEW tab, NEW n, Array(tab, n), NEW k \in Key, NEW x, x = AtMain(tab, k).tab
  PROVE  /\ Array(x, n) /\ AtMain(tab, k).at = Main(tab, k)
         /\ x.key = [tab.key EXCEPT ![Main(tab, k)] = k]
         /\ x.val = tab.val /\ x.next = tab.next
         /\ x.firstfree = tab.firstfree /\ x.used = tab.used
<1>1. Main(tab, k) \in 0 .. n - 1
  BY MainIsNode, ArrayFields
<1>2. x = [tab EXCEPT !.key[Main(tab, k)] = k] /\ AtMain(tab, k).at = Main(tab, k)
  BY DEF AtMain
<1>3. tab \in TableOf(n)
  BY DEF Array
<1>5. x.key = [tab.key EXCEPT ![Main(tab, k)] = k] /\ x.val = tab.val /\ x.next = tab.next
      /\ x.firstfree = tab.firstfree /\ x.used = tab.used
  BY <1>2, <1>3 DEF TableOf
<1>a. DOMAIN x = {"size", "firstfree", "used", "key", "val", "next"} /\ x = [y \in DOMAIN x |-> x[y]]
      /\ x.size = n
  BY <1>2, <1>3 DEF TableOf
<1>b. tab.key \in [0 .. n - 1 -> Key \cup {NullKey}] /\ tab.val \in [0 .. n - 1 -> Val \cup {NoVal}]
      /\ tab.next \in [0 .. n - 1 -> (0 .. n - 1) \cup {Nil}]
      /\ tab.used \in 0 .. n - 1 /\ tab.firstfree \in 0 .. n - 1
  BY <1>3 DEF TableOf
<1>c. x.key \in [0 .. n - 1 -> Key \cup {NullKey}]
  BY <1>1, <1>b, <1>5
<1>d. x.val \in [0 .. n - 1 -> Val \cup {NoVal}]
  BY <1>1, <1>b, <1>5
<1>e. x.next \in [0 .. n - 1 -> (0 .. n - 1) \cup {Nil}]
  BY <1>1, <1>b, <1>5
<1>4. x \in TableOf(n)
  <2>1. x.firstfree \in 0 .. n - 1 /\ x.used \in 0 .. n - 1
    BY <1>b, <1>5
  <2> QED
    BY Zenon, <2>1, <1>a, <1>c, <1>d, <1>e, TableIntro
<1> QED
  BY <1>2, <1>4, <1>5 DEF Array

LEMMA AtFreeFields ==
  ASSUME NEW tab, NEW n, Array(tab, n), NEW k \in Key, NEW x, x = AtFree(tab, k).tab
  PROVE  /\ Array(x, n) /\ AtFree(tab, k).at = tab.firstfree
         /\ x.key = [tab.key EXCEPT ![tab.firstfree] = k]
         /\ x.next = [[tab.next EXCEPT ![tab.firstfree] = tab.next[Main(tab, k)]]
                                EXCEPT ![Main(tab, k)] = tab.firstfree]
         /\ x.val = tab.val
         /\ x.firstfree = tab.firstfree /\ x.used = tab.used
<1> DEFINE mp == Main(tab, k)  f == tab.firstfree
<1>1. mp \in 0 .. n - 1 /\ f \in 0 .. n - 1 /\ tab.next[mp] \in (0 .. n - 1) \cup {Nil}
  BY MainIsNode, ArrayFields
<1>2. x = [tab EXCEPT !.key[f] = k, !.next[f] = tab.next[mp], !.next[mp] = f]
      /\ AtFree(tab, k).at = f
  BY DEF AtFree
<1>3. tab \in TableOf(n)
  BY DEF Array
<1> HIDE DEF mp, f
<1>5. x.key = [tab.key EXCEPT ![f] = k]
      /\ x.next = [[tab.next EXCEPT ![f] = tab.next[mp]] EXCEPT ![mp] = f]
      /\ x.val = tab.val /\ x.firstfree = tab.firstfree /\ x.used = tab.used
  BY <1>2, <1>3 DEF TableOf
<1>a. DOMAIN x = {"size", "firstfree", "used", "key", "val", "next"} /\ x = [y \in DOMAIN x |-> x[y]]
      /\ x.size = n
  BY <1>2, <1>3 DEF TableOf
<1>b. tab.key \in [0 .. n - 1 -> Key \cup {NullKey}] /\ tab.val \in [0 .. n - 1 -> Val \cup {NoVal}]
      /\ tab.next \in [0 .. n - 1 -> (0 .. n - 1) \cup {Nil}]
      /\ tab.used \in 0 .. n - 1 /\ tab.firstfree \in 0 .. n - 1
  BY <1>3 DEF TableOf
<1>c. x.key \in [0 .. n - 1 -> Key \cup {NullKey}]
  BY <1>1, <1>b, <1>5
<1>d. x.val \in [0 .. n - 1 -> Val \cup {NoVal}]
  BY <1>b, <1>5
<1>e. x.next \in [0 .. n - 1 -> (0 .. n - 1) \cup {Nil}]
  <2> DEFINE A == 0 .. n - 1  B == A \cup {Nil}  h == [tab.next EXCEPT ![f] = tab.next[mp]]
  <2>1. tab.next \in [A -> B] /\ f \in A /\ mp \in A /\ f \in B /\ tab.next[mp] \in B
    BY <1>1, <1>b
  <2>2. x.next = [h EXCEPT ![mp] = f]
    BY <1>5
  <2> HIDE DEF A, B
  <2>3. h \in [A -> B]
    BY ONLY <2>1, ExceptTyped
  <2> HIDE DEF h
  <2>4. x.next \in [A -> B]
    BY ONLY <2>1, <2>2, <2>3, ExceptTyped
  <2> QED
    BY <2>4, Zenon DEF A, B
<1>4. x \in TableOf(n)
  <2>1. x.firstfree = tab.firstfree /\ x.used = tab.used
    BY <1>5
  <2>2. tab.firstfree \in 0 .. n - 1 /\ tab.used \in 0 .. n - 1
    BY <1>b
  <2>3. x.firstfree \in 0 .. n - 1 /\ x.used \in 0 .. n - 1
    BY ONLY <2>1, <2>2, Zenon
  <2> QED
    BY Zenon, <2>3, <1>a, <1>c, <1>d, <1>e, TableIntro
<1> QED
  BY <1>2, <1>4, <1>5 DEF Array, mp, f

(* Where the key that is moved is linked from, and the arrays after it has *)
(* been moved.                                                             *)
MovedFrom(tab, k) ==
    CHOOSE p \in Chain(tab, Main(tab, tab.key[Main(tab, k)])) : tab.next[p] = Main(tab, k)

MovedTo(tab, k, x) ==
    /\ x.key = [[tab.key EXCEPT ![tab.firstfree] = tab.key[Main(tab, k)]]
                         EXCEPT ![Main(tab, k)] = k]
    /\ x.val = [[tab.val EXCEPT ![tab.firstfree] = tab.val[Main(tab, k)]]
                         EXCEPT ![Main(tab, k)] = NoVal]
    /\ x.next = [[[tab.next EXCEPT ![MovedFrom(tab, k)] = tab.firstfree]
                            EXCEPT ![tab.firstfree] = tab.next[Main(tab, k)]]
                            EXCEPT ![Main(tab, k)] = Nil]
    /\ x.firstfree = tab.firstfree /\ x.used = tab.used

LEMMA MoveCollidingFields ==
  ASSUME NEW tab, NEW n, Array(tab, n), NEW k \in Key, NEW x, x = MoveColliding(tab, k).tab,
         MovedFrom(tab, k) \in Nodes(tab)
  PROVE  Array(x, n) /\ MoveColliding(tab, k).at = Main(tab, k) /\ MovedTo(tab, k, x)
<1> DEFINE mp == Main(tab, k)  f == tab.firstfree  p == MovedFrom(tab, k)
<1>1. mp \in 0 .. n - 1 /\ f \in 0 .. n - 1 /\ tab.next[mp] \in (0 .. n - 1) \cup {Nil}
      /\ p \in 0 .. n - 1 /\ tab.key[mp] \in Key \cup {NullKey} /\ tab.val[mp] \in Val \cup {NoVal}
  BY MainIsNode, ArrayFields
<1>2. x = [tab EXCEPT !.next[p] = f, !.key[f] = tab.key[mp], !.key[mp] = k,
                      !.val[f] = tab.val[mp], !.val[mp] = NoVal,
                      !.next[f] = tab.next[mp], !.next[mp] = Nil]
      /\ MoveColliding(tab, k).at = mp
  BY Zenon DEF MoveColliding, MovedFrom
<1>3. tab \in TableOf(n)
  BY DEF Array
<1> HIDE DEF mp, f, p
<1>5. x.key = [[tab.key EXCEPT ![f] = tab.key[mp]] EXCEPT ![mp] = k]
      /\ x.val = [[tab.val EXCEPT ![f] = tab.val[mp]] EXCEPT ![mp] = NoVal]
      /\ x.next = [[[tab.next EXCEPT ![p] = f] EXCEPT ![f] = tab.next[mp]] EXCEPT ![mp] = Nil]
      /\ x.firstfree = tab.firstfree /\ x.used = tab.used
  BY <1>2, <1>3 DEF TableOf
<1>a. DOMAIN x = {"size", "firstfree", "used", "key", "val", "next"} /\ x = [y \in DOMAIN x |-> x[y]]
      /\ x.size = n
  BY <1>2, <1>3 DEF TableOf
<1>b. tab.key \in [0 .. n - 1 -> Key \cup {NullKey}] /\ tab.val \in [0 .. n - 1 -> Val \cup {NoVal}]
      /\ tab.next \in [0 .. n - 1 -> (0 .. n - 1) \cup {Nil}]
      /\ tab.used \in 0 .. n - 1 /\ tab.firstfree \in 0 .. n - 1
  BY <1>3 DEF TableOf
<1>c. x.key \in [0 .. n - 1 -> Key \cup {NullKey}]
  <2> DEFINE K == [tab.key EXCEPT ![f] = tab.key[mp]]
  <2>1. K \in [0 .. n - 1 -> Key \cup {NullKey}]
    BY <1>1, <1>b
  <2>2. x.key = [K EXCEPT ![mp] = k]
    BY <1>5
  <2> HIDE DEF K
  <2> QED
    BY <2>1, <2>2, <1>1
<1>d. x.val \in [0 .. n - 1 -> Val \cup {NoVal}]
  <2> DEFINE V == [tab.val EXCEPT ![f] = tab.val[mp]]
  <2>1. V \in [0 .. n - 1 -> Val \cup {NoVal}]
    BY <1>1, <1>b
  <2>2. x.val = [V EXCEPT ![mp] = NoVal]
    BY <1>5
  <2> HIDE DEF V
  <2> QED
    BY <2>1, <2>2, <1>1
<1>e. x.next \in [0 .. n - 1 -> (0 .. n - 1) \cup {Nil}]
  <2> DEFINE N1 == [tab.next EXCEPT ![p] = f]
             N2 == [N1 EXCEPT ![f] = tab.next[mp]]
  <2>1. N1 \in [0 .. n - 1 -> (0 .. n - 1) \cup {Nil}]
    BY <1>1, <1>b
  <2> HIDE DEF N1
  <2>2. N2 \in [0 .. n - 1 -> (0 .. n - 1) \cup {Nil}]
    BY <1>1, <2>1
  <2>3. x.next = [N2 EXCEPT ![mp] = Nil]
    BY <1>5 DEF N1
  <2> HIDE DEF N2
  <2> QED
    BY <2>2, <2>3, <1>1
<1>4. x \in TableOf(n)
  <2>1. x.firstfree \in 0 .. n - 1 /\ x.used \in 0 .. n - 1
    BY <1>b, <1>5
  <2> QED
    BY Zenon, <2>1, <1>a, <1>c, <1>d, <1>e, TableIntro
<1> QED
  BY <1>2, <1>4, <1>5 DEF Array, MovedTo, mp, f, p
-----------------------------------------------------------------------------
(* A node up to b that was never linked is a chain of its own, and a key   *)
(* up to b was never moved.  A main position that is taken by a key of     *)
(* another chain is the main position of no key.                           *)
Alone(tab, b, c) ==
    \A p, q \in Nodes(tab) : p <= b /\ tab.next[p] = Nil /\ c[p] = c[q] => p = q
Native(tab, b) ==
    \A p \in Nodes(tab) : p <= b /\ tab.key[p] # NullKey => Main(tab, tab.key[p]) = p
Pure(tab) ==
    \A i \in Nodes(tab) :
        tab.key[i] # NullKey /\ tab.key[Main(tab, tab.key[i])] # NullKey
        => Main(tab, tab.key[Main(tab, tab.key[i])]) = Main(tab, tab.key[i])

Laid(tab, b, c, r) ==
    Chained(tab, c, r) /\ Alone(tab, b, c) /\ Native(tab, b) /\ Pure(tab) /\ Distinct(tab)

(* The key is nowhere in the array.                                        *)
Absent(tab, k) == \A i \in Nodes(tab) : tab.key[i] # k

LEMMA SameSize ==
  ASSUME NEW tab, NEW x, x.size = tab.size
  PROVE  Nodes(x) = Nodes(tab) /\ \A k : Main(x, k) = Main(tab, k)
BY DEF Nodes, Main

(* An empty main position takes the key: the chains are as they were.      *)
LEMMA AtMainLaid ==
  ASSUME NEW tab, NEW n, Array(tab, n), NEW k \in Key, Absent(tab, k),
         NEW b, NEW c, NEW r, Laid(tab, b, c, r),
         tab.key[Main(tab, k)] = NullKey, NEW x, x = AtMain(tab, k).tab
  PROVE  Laid(x, b, c, r)
<1> DEFINE mp == Main(tab, k)  S == Nodes(tab)
<1>1. Array(x, n) /\ x.key = [tab.key EXCEPT ![mp] = k] /\ x.next = tab.next
  BY AtMainFields
<1>2. mp \in S /\ tab.key \in [S -> Key \cup {NullKey}] /\ k # NullKey
  BY MainIsNode, ArrayFields
<1>3. \A i \in S : x.key[i] = IF i = mp THEN k ELSE tab.key[i]
  BY <1>1, <1>2
<1>4. Nodes(x) = S /\ \A q : Main(x, q) = Main(tab, q)
  BY <1>1, SameSize, ArrayFields
<1>5. \A i \in S : tab.key[i] \in Key => Main(tab, tab.key[i]) \in S
  BY MainIsNode
<1>a. \A i \in S : tab.key[i] # NullKey => tab.key[i] \in Key
  BY <1>2
<1>b. r \in [S -> Int]
  BY DEF Laid, Chained
<1>c. Main(tab, k) = mp /\ tab.key[mp] = NullKey
  OBVIOUS
<1> HIDE DEF mp, S
<1>6. Chained(x, c, r)
  <2>1. Homed(x, c, r)
    BY <1>2, <1>3, <1>4, <1>5, <1>a, <1>b, <1>c DEF Laid, Chained, Homed, S
  <2> QED
    BY <2>1, <1>1, <1>4 DEF Laid, Chained, Descends, SkipsNone, Ordered, S
<1>7. Alone(x, b, c)
  BY <1>1, <1>4 DEF Laid, Alone, S
<1>8. Native(x, b)
  BY <1>3, <1>4, <1>c DEF Laid, Native, S
<1>9. Pure(x)
  BY <1>2, <1>3, <1>4, <1>5, <1>a, <1>c DEF Laid, Pure, S
<1>10. Distinct(x)
  BY <1>3, <1>4, <1>2 DEF Laid, Distinct, Absent, S
<1> QED
  BY <1>6, <1>7, <1>8, <1>9, <1>10 DEF Laid

(* A free node is neither linked to nor the main position of a key.        *)
LEMMA FreeIsApart ==
  ASSUME NEW tab, NEW n, Array(tab, n), NEW b, NEW c, NEW r, Laid(tab, b, c, r),
         NEW f \in Nodes(tab), f <= b, tab.key[f] = NullKey, tab.next[f] = Nil
  PROVE  /\ \A p \in Nodes(tab) : tab.next[p] # f
         /\ \A p \in Nodes(tab) : c[p] = c[f] => p = f
         /\ \A p \in Nodes(tab) : tab.key[p] # NullKey => Main(tab, tab.key[p]) # f
<1>1. f # Nil /\ tab.key \in [Nodes(tab) -> Key \cup {NullKey}]
  BY ArrayFields
<1>2. ASSUME NEW p \in Nodes(tab), c[p] = c[f] PROVE p = f
  BY <1>2 DEF Laid, Alone
<1>3. ASSUME NEW p \in Nodes(tab), tab.next[p] = f PROVE FALSE
  <2>1. c[f] = c[p]
    BY <1>3, <1>1 DEF Laid, Chained, Descends
  <2> QED
    BY <2>1, <1>2, <1>3, <1>1
<1>4. ASSUME NEW p \in Nodes(tab), tab.key[p] # NullKey, Main(tab, tab.key[p]) = f PROVE FALSE
  <2>1. c[f] = c[p]
    BY <1>4 DEF Laid, Chained, Homed
  <2> QED
    BY <2>1, <1>2, <1>4
<1> QED
  BY <1>2, <1>3, <1>4

(* A free node becomes the second of the chain of the main position: the   *)
(* nodes behind it go one rank down.                                       *)
LEMMA AtFreeLaid ==
  ASSUME NEW tab, NEW n, Array(tab, n), NEW k \in Key, Absent(tab, k),
         NEW c, NEW r, Laid(tab, tab.firstfree, c, r),
         tab.key[tab.firstfree] = NullKey, tab.next[tab.firstfree] = Nil,
         tab.key[Main(tab, k)] # NullKey,
         ~(Main(tab, k) > tab.firstfree /\ Main(tab, tab.key[Main(tab, k)]) # Main(tab, k)),
         NEW x, x = AtFree(tab, k).tab
  PROVE  \E c1, r1 : Laid(x, tab.firstfree - 1, c1, r1)
<1> DEFINE mp == Main(tab, k)  f == tab.firstfree  S == Nodes(tab)
           c1 == [p \in S |-> IF p = f THEN c[mp] ELSE c[p]]
           r1 == [p \in S |-> IF p = f THEN 2 * r[mp] - 1 ELSE 2 * r[p]]
<1>1. Array(x, n) /\ x.key = [tab.key EXCEPT ![f] = k]
      /\ x.next = [[tab.next EXCEPT ![f] = tab.next[mp]] EXCEPT ![mp] = f]
  BY AtFreeFields
<1>2. /\ mp \in S /\ f \in S /\ tab.key \in [S -> Key \cup {NullKey}] /\ k # NullKey
      /\ tab.next \in [S -> S \cup {Nil}] /\ Nil \notin S /\ S \subseteq Nat
  BY MainIsNode, ArrayFields
<1>3. /\ \A p \in S : tab.next[p] # f
      /\ \A p \in S : c[p] = c[f] => p = f
      /\ \A p \in S : tab.key[p] # NullKey => Main(tab, tab.key[p]) # f
  BY <1>2, FreeIsApart
<1>4. f # mp /\ Main(tab, tab.key[mp]) = mp
  <2>1. f # mp
    OBVIOUS
  <2>2. mp \in Nat /\ f \in Nat
    BY <1>2
  <2>3. CASE mp <= f
    BY <2>3, <1>2 DEF Laid, Native
  <2>4. CASE ~(mp <= f)
    BY <2>4, <2>2
  <2> QED
    BY <2>1, <2>3, <2>4
<1>5. \A i \in S : x.key[i] = IF i = f THEN k ELSE tab.key[i]
  BY <1>1, <1>2
<1>6. \A i \in S : x.next[i] = IF i = mp THEN f ELSE IF i = f THEN tab.next[mp] ELSE tab.next[i]
  <2>1. tab.next \in [S -> S \cup {Nil}] /\ mp \in S /\ f \in S
    BY <1>2
  <2>2. x.next = [[tab.next EXCEPT ![f] = tab.next[mp]] EXCEPT ![mp] = f]
    BY <1>1
  <2> HIDE DEF mp, f, S
  <2> QED
    BY ONLY <2>1, <2>2, TwoExcepts
<1>7. Nodes(x) = S /\ \A q : Main(x, q) = Main(tab, q)
  <2>1. Array(x, n) /\ Array(tab, n)
    BY <1>1
  <2>2. x.size = tab.size
    BY ONLY <2>1, ArrayFields
  <2> QED
    BY ONLY <2>2, SameSize
<1>8. \A i \in S : tab.key[i] # NullKey => Main(tab, tab.key[i]) \in S
  BY <1>2, MainIsNode
<1>9. c \in [S -> S] /\ r \in [S -> Int]
  BY DEF Laid, Chained
<1>10. Main(tab, k) = mp /\ tab.key[mp] # NullKey /\ tab.key[f] = NullKey /\ tab.next[f] = Nil
  OBVIOUS
<1>11. \A p \in S : tab.next[p] # Nil => c[tab.next[p]] = c[p] /\ r[tab.next[p]] < r[p]
  BY DEF Laid, Chained, Descends
<1>12. \A p, q \in S : c[p] = c[q] /\ r[q] < r[p] => tab.next[p] # Nil /\ r[q] <= r[tab.next[p]]
  BY DEF Laid, Chained, SkipsNone
<1>13. \A p, q \in S : c[p] = c[q] /\ r[p] = r[q] => p = q
  BY DEF Laid, Chained, Ordered
<1>14. \A i \in S : tab.key[i] # NullKey =>
         c[Main(tab, tab.key[i])] = c[i] /\ r[i] <= r[Main(tab, tab.key[i])]
  BY DEF Laid, Chained, Homed
<1>15. \A p, q \in S : p <= f /\ tab.next[p] = Nil /\ c[p] = c[q] => p = q
  BY DEF Laid, Alone
<1>16. \A p \in S : p <= f /\ tab.key[p] # NullKey => Main(tab, tab.key[p]) = p
  BY DEF Laid, Native
<1>17. \A i \in S : tab.key[i] # NullKey /\ tab.key[Main(tab, tab.key[i])] # NullKey
                    => Main(tab, tab.key[Main(tab, tab.key[i])]) = Main(tab, tab.key[i])
  BY DEF Laid, Pure
<1>18. Distinct(x)
  BY <1>5, <1>7, <1>2 DEF Laid, Distinct, Absent
<1> HIDE DEF mp, f, S
<1>19. c1 \in [S -> S] /\ r1 \in [S -> Int]
  BY <1>9, <1>2
<1>20. /\ \A p \in S : c1[p] = IF p = f THEN c[mp] ELSE c[p]
       /\ \A p \in S : r1[p] = IF p = f THEN 2 * r[mp] - 1 ELSE 2 * r[p]
  OBVIOUS
<1> HIDE DEF c1, r1
<1>21. Descends(x, c1, r1)
  <2> SUFFICES ASSUME NEW p \in S, x.next[p] # Nil
               PROVE  c1[x.next[p]] = c1[p] /\ r1[x.next[p]] < r1[p]
    BY <1>7 DEF Descends
  <2>1. CASE p = mp
    BY <2>1, <1>2, <1>4, <1>6, <1>9, <1>20
  <2>2. CASE p = f
    <3>1. x.next[p] = tab.next[mp] /\ tab.next[mp] \in S /\ tab.next[mp] # f
      BY <2>2, <1>2, <1>3, <1>4, <1>6
    <3> DEFINE y == tab.next[mp]
    <3>2. c[y] = c[mp] /\ r[y] < r[mp]
      BY <3>1, <1>2, <1>11
    <3>3. r[y] \in Int /\ r[mp] \in Int
      BY <3>1, <1>2, <1>9
    <3>4. c1[y] = c[y] /\ r1[y] = 2 * r[y] /\ c1[f] = c[mp] /\ r1[f] = 2 * r[mp] - 1
      BY <3>1, <1>2, <1>20
    <3> HIDE DEF y
    <3> QED
      BY <3>1, <3>2, <3>3, <3>4, <2>2 DEF y
  <2>3. CASE p # mp /\ p # f
    <3>1. x.next[p] = tab.next[p] /\ tab.next[p] \in S /\ tab.next[p] # f
      BY <2>3, <1>2, <1>3, <1>6
    <3> DEFINE y == tab.next[p]
    <3>2. c[y] = c[p] /\ r[y] < r[p]
      BY <3>1, <1>2, <1>11
    <3>3. r[y] \in Int /\ r[p] \in Int
      BY <3>1, <1>9
    <3>4. c1[y] = c[y] /\ r1[y] = 2 * r[y] /\ c1[p] = c[p] /\ r1[p] = 2 * r[p]
      BY <3>1, <2>3, <1>20
    <3> HIDE DEF y
    <3> QED
      BY <3>1, <3>2, <3>3, <3>4 DEF y
  <2> QED
    BY <2>1, <2>2, <2>3
<1>22. SkipsNone(x, c1, r1)
  <2> SUFFICES ASSUME NEW p \in S, NEW q \in S, c1[p] = c1[q], r1[q] < r1[p]
               PROVE  x.next[p] # Nil /\ r1[q] <= r1[x.next[p]]
    BY <1>7 DEF SkipsNone
  <2>1. CASE p = mp
    <3>1. x.next[p] = f /\ r1[f] = 2 * r[mp] - 1 /\ r1[p] = 2 * r[mp]
      BY <2>1, <1>2, <1>4, <1>6, <1>20
    <3>2. r1[q] \in Int /\ r[mp] \in Int
      BY <1>2, <1>9, <1>19
    <3> QED
      BY <3>1, <3>2, <1>2
  <2>2. CASE p = f
    <3>1. q # f
      BY <2>2, <1>2, <1>19
    <3>2. q # mp
      BY <2>2, <1>2, <1>4, <1>9, <1>20
    <3>3. c[mp] = c[q] /\ r[q] < r[mp]
      BY <2>2, <3>1, <1>2, <1>9, <1>20
    <3>4. tab.next[mp] # Nil /\ r[q] <= r[tab.next[mp]]
      BY <3>3, <1>2, <1>12
    <3>5. x.next[p] = tab.next[mp] /\ tab.next[mp] \in S /\ tab.next[mp] # f
      BY <2>2, <3>4, <1>2, <1>3, <1>4, <1>6
    <3>6. r[q] \in Int /\ r[tab.next[mp]] \in Int
      BY <3>5, <1>9
    <3>7. r1[q] = 2 * r[q] /\ r1[tab.next[mp]] = 2 * r[tab.next[mp]]
      BY <3>1, <3>5, <1>20
    <3> QED
      BY <3>4, <3>5, <3>6, <3>7, <1>2
  <2>3. CASE p # mp /\ p # f /\ q # f
    <3>1. c[p] = c[q] /\ r[q] < r[p]
      BY <2>3, <1>9, <1>20
    <3>2. tab.next[p] # Nil /\ r[q] <= r[tab.next[p]]
      BY <3>1, <1>12
    <3>3. x.next[p] = tab.next[p] /\ tab.next[p] \in S /\ tab.next[p] # f
      BY <2>3, <3>2, <1>2, <1>3, <1>6
    <3> QED
      BY <2>3, <3>2, <3>3, <1>9, <1>20
  <2>4. CASE p # mp /\ p # f /\ q = f
    <3>1. c[p] = c[mp] /\ 2 * r[mp] - 1 < 2 * r[p]
      BY <2>4, <1>9, <1>20
    <3>2. r[mp] \in Int /\ r[p] \in Int /\ r[mp] # r[p]
      BY <2>4, <3>1, <1>2, <1>9, <1>13
    <3>3. r[mp] < r[p]
      BY <3>1, <3>2
    <3>4. tab.next[p] # Nil /\ r[mp] <= r[tab.next[p]]
      BY <3>1, <3>3, <1>2, <1>12
    <3>5. x.next[p] = tab.next[p] /\ tab.next[p] \in S /\ tab.next[p] # f
      BY <2>4, <3>4, <1>2, <1>3, <1>6
    <3> QED
      BY <2>4, <3>2, <3>4, <3>5, <1>9, <1>20
  <2> QED
    BY <2>1, <2>2, <2>3, <2>4
<1>23. Ordered(x, c1, r1)
  <2> SUFFICES ASSUME NEW p \in S, NEW q \in S, c1[p] = c1[q], r1[p] = r1[q], p # q
               PROVE  FALSE
    BY <1>7 DEF Ordered
  <2>1. CASE p # f /\ q # f
    BY <2>1, <1>9, <1>13, <1>20
  <2>2. CASE p = f
    <3>1. 2 * r[mp] - 1 = 2 * r[q] /\ r[mp] \in Int /\ r[q] \in Int
      BY <2>2, <1>2, <1>9, <1>20
    <3> QED
      BY <3>1
  <2>3. CASE q = f
    <3>1. 2 * r[mp] - 1 = 2 * r[p] /\ r[mp] \in Int /\ r[p] \in Int
      BY <2>3, <1>2, <1>9, <1>20
    <3> QED
      BY <3>1
  <2> QED
    BY <2>1, <2>2, <2>3
<1>24. Homed(x, c1, r1)
  <2> SUFFICES ASSUME NEW i \in S, x.key[i] # NullKey
               PROVE  c1[Main(tab, x.key[i])] = c1[i] /\ r1[i] <= r1[Main(tab, x.key[i])]
    BY <1>7 DEF Homed
  <2>1. CASE i = f
    BY <2>1, <1>2, <1>4, <1>5, <1>9, <1>10, <1>20
  <2>2. CASE i # f
    <3>1. x.key[i] = tab.key[i] /\ Main(tab, tab.key[i]) \in S /\ Main(tab, tab.key[i]) # f
      BY <2>2, <1>3, <1>5, <1>8
    <3> QED
      BY <2>2, <3>1, <1>9, <1>14, <1>20
  <2> QED
    BY <2>1, <2>2
<1>25. Chained(x, c1, r1)
  BY <1>7, <1>19, <1>21, <1>22, <1>23, <1>24 DEF Chained
<1>26. Alone(x, f - 1, c1)
  <2> SUFFICES ASSUME NEW p \in S, NEW q \in S, p <= f - 1, x.next[p] = Nil, c1[p] = c1[q]
               PROVE  p = q
    BY <1>7 DEF Alone
  <2>1. p # f /\ p <= f /\ p # mp
    BY <1>2, <1>6
  <2>2. tab.next[p] = Nil /\ c1[p] = c[p]
    BY <2>1, <1>6, <1>20
  <2>3. CASE q = f
    BY <2>1, <2>2, <2>3, <1>2, <1>15, <1>20
  <2>4. CASE q # f
    BY <2>1, <2>2, <2>4, <1>15, <1>20
  <2> QED
    BY <2>3, <2>4
<1>27. Native(x, f - 1)
  <2> SUFFICES ASSUME NEW p \in S, p <= f - 1, x.key[p] # NullKey PROVE Main(tab, x.key[p]) = p
    BY <1>7 DEF Native
  <2>1. p # f /\ p <= f
    BY <1>2
  <2> QED
    BY <2>1, <1>5, <1>16
<1>28. Pure(x)
  <2> SUFFICES ASSUME NEW i \in S, x.key[i] # NullKey, x.key[Main(tab, x.key[i])] # NullKey
               PROVE  Main(tab, x.key[Main(tab, x.key[i])]) = Main(tab, x.key[i])
    BY <1>7 DEF Pure
  <2>1. CASE i = f
    BY <2>1, <1>2, <1>4, <1>5, <1>10
  <2>2. CASE i # f
    BY <2>2, <1>3, <1>5, <1>8, <1>17
  <2> QED
    BY <2>1, <2>2
<1>29. Laid(x, f - 1, c1, r1)
  BY <1>18, <1>25, <1>26, <1>27, <1>28 DEF Laid
<1> QED
  BY <1>29 DEF f

(* Moving a colliding key exchanges the free node and the main position.   *)
LEMMA MoveCollidingLaid ==
  ASSUME NEW tab, NEW n, Array(tab, n), NEW k \in Key, Absent(tab, k),
         NEW c, NEW r, Laid(tab, tab.firstfree, c, r),
         tab.key[tab.firstfree] = NullKey, tab.next[tab.firstfree] = Nil,
         tab.key[Main(tab, k)] # NullKey,
         Main(tab, k) > tab.firstfree, Main(tab, tab.key[Main(tab, k)]) # Main(tab, k),
         NEW x, x = MoveColliding(tab, k).tab
  PROVE  /\ MovedFrom(tab, k) \in Nodes(tab) /\ tab.next[MovedFrom(tab, k)] = Main(tab, k)
         /\ \E c1, r1 : Laid(x, tab.firstfree - 1, c1, r1)
<1> DEFINE mp == Main(tab, k)  f == tab.firstfree  S == Nodes(tab)  pv == MovedFrom(tab, k)
           s == [p \in S |-> IF p = f THEN mp ELSE IF p = mp THEN f ELSE p]
           c1 == [p \in S |-> c[s[p]]]
           r1 == [p \in S |-> r[s[p]]]
<1>2. /\ mp \in S /\ f \in S /\ tab.key \in [S -> Key \cup {NullKey}] /\ k # NullKey
      /\ tab.next \in [S -> S \cup {Nil}] /\ Nil \notin S /\ S \subseteq Nat
  BY MainIsNode, ArrayFields
<1>3. /\ \A p \in S : tab.next[p] # f
      /\ \A p \in S : c[p] = c[f] => p = f
      /\ \A p \in S : tab.key[p] # NullKey => Main(tab, tab.key[p]) # f
  BY <1>2, FreeIsApart
<1>4. f # mp
  OBVIOUS
<1>8. \A i \in S : tab.key[i] # NullKey => Main(tab, tab.key[i]) \in S
  BY <1>2, MainIsNode
<1>9. c \in [S -> S] /\ r \in [S -> Int] /\ Chained(tab, c, r)
  BY DEF Laid, Chained
<1>10. Main(tab, k) = mp /\ tab.key[mp] # NullKey /\ tab.key[f] = NullKey /\ tab.next[f] = Nil
       /\ Main(tab, tab.key[mp]) # mp /\ mp > f
  OBVIOUS
<1>11. \A p \in S : tab.next[p] # Nil => c[tab.next[p]] = c[p] /\ r[tab.next[p]] < r[p]
  BY DEF Laid, Chained, Descends
<1>12. \A p, q \in S : c[p] = c[q] /\ r[q] < r[p] => tab.next[p] # Nil /\ r[q] <= r[tab.next[p]]
  BY DEF Laid, Chained, SkipsNone
<1>13. \A p, q \in S : c[p] = c[q] /\ r[p] = r[q] => p = q
  BY DEF Laid, Chained, Ordered
<1>14. \A i \in S : tab.key[i] # NullKey =>
         c[Main(tab, tab.key[i])] = c[i] /\ r[i] <= r[Main(tab, tab.key[i])]
  BY DEF Laid, Chained, Homed
<1>15. \A p, q \in S : p <= f /\ tab.next[p] = Nil /\ c[p] = c[q] => p = q
  BY DEF Laid, Alone
<1>16. \A p \in S : p <= f /\ tab.key[p] # NullKey => Main(tab, tab.key[p]) = p
  BY DEF Laid, Native
<1>17. \A i \in S : tab.key[i] # NullKey /\ tab.key[Main(tab, tab.key[i])] # NullKey
                    => Main(tab, tab.key[Main(tab, tab.key[i])]) = Main(tab, tab.key[i])
  BY DEF Laid, Pure
<1>a. pv \in S /\ tab.next[pv] = mp
  <2>1. /\ Main(tab, tab.key[mp]) \in S /\ c[Main(tab, tab.key[mp])] = c[mp]
        /\ r[mp] <= r[Main(tab, tab.key[mp])]
    BY <1>2, <1>8, <1>10, <1>14
  <2>2. r[mp] < r[Main(tab, tab.key[mp])]
    BY <2>1, <1>2, <1>9, <1>10, <1>13
  <2>3. \E p \in S : p \in Chain(tab, Main(tab, tab.key[mp])) /\ tab.next[p] = mp
    BY <1>2, <1>9, <2>1, <2>2, PreviousExists
  <2>4. \E p \in Chain(tab, Main(tab, tab.key[mp])) : tab.next[p] = mp
    BY <2>3
  <2>5. pv \in Chain(tab, Main(tab, tab.key[mp])) /\ tab.next[pv] = mp
    BY <2>4 DEF MovedFrom
  <2>6. n \in 0 .. n /\ tab.size = n
    BY ArrayFields
  <2>7. pv \in S
    BY <2>1, <2>5, <2>6, <1>9, ChainGoesDown, ChainIsChains
  <2> QED
    BY <2>5, <2>7
<1>1. /\ Array(x, n) /\ x.key = [[tab.key EXCEPT ![f] = tab.key[mp]] EXCEPT ![mp] = k]
      /\ x.next = [[[tab.next EXCEPT ![pv] = f] EXCEPT ![f] = tab.next[mp]] EXCEPT ![mp] = Nil]
  <2>1. MovedFrom(tab, k) \in Nodes(tab)
    BY <1>a
  <2>2. Array(x, n) /\ MovedTo(tab, k, x)
    BY ONLY <2>1, Array(tab, n), k \in Key, x = MoveColliding(tab, k).tab, MoveCollidingFields
  <2> QED
    BY <2>2 DEF MovedTo
<1>5. \A i \in S : x.key[i] = IF i = mp THEN k ELSE IF i = f THEN tab.key[mp] ELSE tab.key[i]
  BY <1>1, <1>2
<1>6. \A i \in S : x.next[i] = IF i = mp THEN Nil ELSE IF i = f THEN tab.next[mp]
                               ELSE IF i = pv THEN f ELSE tab.next[i]
  BY <1>1, <1>2
<1>7. Nodes(x) = S /\ \A q : Main(x, q) = Main(tab, q)
  BY <1>1, SameSize, ArrayFields
<1>18. Distinct(x)
  BY <1>5, <1>7, <1>2, <1>4, <1>10 DEF Laid, Distinct, Absent
<1>b. pv # f /\ pv # mp /\ \A p \in S : tab.next[p] = mp => p = pv
  <2>1. pv # f
    BY <1>a, <1>2, <1>10
  <2>2. r[mp] < r[pv] /\ c[mp] = c[pv] /\ r[mp] \in Int /\ r[pv] \in Int
    BY <1>a, <1>2, <1>9, <1>11
  <2>3. ASSUME NEW p \in S, tab.next[p] = mp PROVE p = pv
    <3>1. r[mp] < r[p] /\ c[mp] = c[p] /\ r[p] \in Int
      BY <2>3, <1>2, <1>9, <1>11
    <3>2. ~(r[p] < r[pv])
      <4> SUFFICES ASSUME r[p] < r[pv] PROVE FALSE
        OBVIOUS
      <4>1. c[pv] = c[p]
        BY <3>1, <2>2
      <4>2. r[p] <= r[tab.next[pv]]
        BY <4>1, <1>12, <1>a
      <4> QED
        BY <4>2, <1>a, <3>1, <2>2
    <3>3. ~(r[pv] < r[p])
      <4> SUFFICES ASSUME r[pv] < r[p] PROVE FALSE
        OBVIOUS
      <4>1. c[pv] = c[p]
        BY <3>1, <2>2
      <4>2. r[pv] <= r[tab.next[p]]
        BY <4>1, <1>12, <1>a
      <4> QED
        BY <4>2, <2>3, <3>1, <2>2
    <3>4. r[p] = r[pv]
      BY <3>1, <3>2, <3>3, <2>2
    <3> QED
      BY <3>1, <3>4, <2>2, <1>13, <1>a
  <2> QED
    BY <2>1, <2>2, <2>3
<1> HIDE DEF mp, f, S, pv
<1>c. s \in [S -> S] /\ s[f] = mp /\ s[mp] = f /\ \A p \in S : p # f /\ p # mp => s[p] = p
  BY <1>2, <1>4
<1> HIDE DEF s
<1>d. \A p \in S : s[p] \in S /\ s[s[p]] = p
  BY <1>c, <1>2
<1>19. c1 \in [S -> S] /\ r1 \in [S -> Int]
  BY <1>9, <1>c
<1>20. \A p \in S : c1[p] = c[s[p]] /\ r1[p] = r[s[p]]
  OBVIOUS
<1> HIDE DEF c1, r1
<1>e. \A p \in S : x.next[p] = IF tab.next[s[p]] = Nil THEN Nil ELSE s[tab.next[s[p]]]
  <2> TAKE p \in S
  <2>1. CASE p = mp
    BY <2>1, <1>2, <1>c, <1>6, <1>10
  <2>2. CASE p = f
    <3>1. x.next[p] = tab.next[mp] /\ s[p] = mp
      BY <2>2, <1>2, <1>4, <1>6, <1>c
    <3>2. tab.next[mp] # f /\ tab.next[mp] # mp
      BY <1>2, <1>3, <1>9, <1>11, <1>b
    <3> QED
      BY <3>1, <3>2, <1>2, <1>c
  <2>3. CASE p = pv
    BY <2>3, <1>2, <1>a, <1>b, <1>c, <1>6
  <2>4. CASE p # mp /\ p # f /\ p # pv
    <3>1. x.next[p] = tab.next[p] /\ s[p] = p
      BY <2>4, <1>6, <1>c
    <3>2. tab.next[p] # f /\ tab.next[p] # mp
      BY <2>4, <1>3, <1>b
    <3> QED
      BY <3>1, <3>2, <1>2, <1>c
  <2> QED
    BY <2>1, <2>2, <2>3, <2>4
<1>21. Descends(x, c1, r1)
  <2> SUFFICES ASSUME NEW p \in S, x.next[p] # Nil
               PROVE  c1[x.next[p]] = c1[p] /\ r1[x.next[p]] < r1[p]
    BY <1>7 DEF Descends
  <2> DEFINE y == tab.next[s[p]]
  <2>a. s[p] \in S /\ y # Nil /\ x.next[p] = s[y]
    BY <1>d, <1>e
  <2>b. y \in S
    BY <2>a, <1>2
  <2>1. s[p] \in S /\ y \in S /\ y # Nil /\ x.next[p] = s[y] /\ s[y] \in S /\ s[s[y]] = y
    BY <2>a, <2>b, <1>d
  <2>2. c[y] = c[s[p]] /\ r[y] < r[s[p]]
    BY <2>1, <1>11
  <2> HIDE DEF y
  <2> QED
    BY <2>1, <2>2, <1>20
<1>22. SkipsNone(x, c1, r1)
  <2> SUFFICES ASSUME NEW p \in S, NEW q \in S, c1[p] = c1[q], r1[q] < r1[p]
               PROVE  x.next[p] # Nil /\ r1[q] <= r1[x.next[p]]
    BY <1>7 DEF SkipsNone
  <2> DEFINE y == tab.next[s[p]]
  <2>1. s[p] \in S /\ s[q] \in S /\ c[s[p]] = c[s[q]] /\ r[s[q]] < r[s[p]]
    BY <1>d, <1>20
  <2>2. y # Nil /\ r[s[q]] <= r[y]
    BY <2>1, <1>12
  <2>3. y \in S /\ x.next[p] = s[y] /\ s[y] \in S /\ s[s[y]] = y
    <3>1. y \in S
      BY <2>1, <2>2, <1>2
    <3>2. s[y] \in S /\ s[s[y]] = y
      BY <3>1, <1>d
    <3>3. x.next[p] = s[y]
      BY <2>2, <1>e
    <3> QED
      BY <3>1, <3>2, <3>3
  <2> HIDE DEF y
  <2> QED
    BY <2>2, <2>3, <1>20, <1>2
<1>23. Ordered(x, c1, r1)
  <2> SUFFICES ASSUME NEW p \in S, NEW q \in S, c1[p] = c1[q], r1[p] = r1[q]
               PROVE  p = q
    BY <1>7 DEF Ordered
  <2>1. s[p] \in S /\ s[q] \in S /\ c[s[p]] = c[s[q]] /\ r[s[p]] = r[s[q]]
    BY <1>d, <1>20
  <2>2. s[p] = s[q]
    BY <2>1, <1>13
  <2> QED
    BY <2>2, <1>d
<1>f. \A i \in S : tab.key[i] # NullKey => Main(tab, tab.key[i]) # mp /\ Main(tab, tab.key[i]) # f
  BY <1>3, <1>10, <1>17
<1>24. Homed(x, c1, r1)
  <2> SUFFICES ASSUME NEW i \in S, x.key[i] # NullKey
               PROVE  c1[Main(tab, x.key[i])] = c1[i] /\ r1[i] <= r1[Main(tab, x.key[i])]
    BY <1>7 DEF Homed
  <2>1. CASE i = mp
    <3>1. Main(tab, x.key[i]) = i /\ r1[i] \in Int
      BY <2>1, <1>2, <1>5, <1>10, <1>19
    <3> QED
      BY <3>1
  <2>2. CASE i # mp
    <3>1. x.key[i] = tab.key[s[i]] /\ s[i] \in S
      BY <2>2, <1>c, <1>5, <1>d
    <3>2. Main(tab, tab.key[s[i]]) \in S /\ s[Main(tab, tab.key[s[i]])] = Main(tab, tab.key[s[i]])
      BY <3>1, <1>f, <1>c, <1>8
    <3>3. c[Main(tab, tab.key[s[i]])] = c[s[i]] /\ r[s[i]] <= r[Main(tab, tab.key[s[i]])]
      BY <3>1, <1>14
    <3> QED
      BY <3>1, <3>2, <3>3, <1>20
  <2> QED
    BY <2>1, <2>2
<1>25. Chained(x, c1, r1)
  BY <1>7, <1>19, <1>21, <1>22, <1>23, <1>24 DEF Chained
<1>26. Alone(x, f - 1, c1)
  <2> SUFFICES ASSUME NEW p \in S, NEW q \in S, p <= f - 1, x.next[p] = Nil, c1[p] = c1[q]
               PROVE  p = q
    BY <1>7 DEF Alone
  <2>1. p # f /\ p <= f /\ p # mp
    BY <1>2, <1>10
  <2>2. s[p] = p /\ tab.next[p] = Nil /\ c1[p] = c[p]
    <3>1. s[p] = p /\ c1[p] = c[p]
      BY <2>1, <1>c, <1>20
    <3>2. x.next[p] = IF tab.next[p] = Nil THEN Nil ELSE s[tab.next[p]]
      BY <3>1, <1>e
    <3>3. ASSUME tab.next[p] # Nil PROVE FALSE
      <4>1. tab.next[p] \in S
        BY <3>3, <1>2
      <4>2. s[tab.next[p]] \in S /\ s[tab.next[p]] = Nil
        BY <4>1, <3>2, <3>3, <1>d
      <4> QED
        BY <4>2, <1>2
    <3> QED
      BY <3>1, <3>3
  <2>3. c[p] = c[s[q]] /\ s[q] \in S
    BY <2>2, <1>20, <1>d
  <2>4. p = s[q]
    BY <2>1, <2>2, <2>3, <1>15
  <2> QED
    BY <2>2, <2>4, <1>d
<1>27. Native(x, f - 1)
  <2> SUFFICES ASSUME NEW p \in S, p <= f - 1, x.key[p] # NullKey PROVE Main(tab, x.key[p]) = p
    BY <1>7 DEF Native
  <2>1. p # f /\ p <= f /\ p # mp
    BY <1>2, <1>10
  <2> QED
    BY <2>1, <1>5, <1>16
<1>28. Pure(x)
  <2> SUFFICES ASSUME NEW i \in S, x.key[i] # NullKey, x.key[Main(tab, x.key[i])] # NullKey
               PROVE  Main(tab, x.key[Main(tab, x.key[i])]) = Main(tab, x.key[i])
    BY <1>7 DEF Pure
  <2>1. CASE i = mp
    BY <2>1, <1>2, <1>5, <1>10
  <2>2. CASE i # mp
    <3>1. x.key[i] = tab.key[s[i]] /\ s[i] \in S
      BY <2>2, <1>c, <1>5, <1>d
    <3>2. Main(tab, tab.key[s[i]]) \in S /\ Main(tab, tab.key[s[i]]) # mp /\ Main(tab, tab.key[s[i]]) # f
      BY <3>1, <1>f, <1>8
    <3>3. x.key[Main(tab, tab.key[s[i]])] = tab.key[Main(tab, tab.key[s[i]])]
      BY <3>2, <1>5
    <3> QED
      BY <3>1, <3>2, <3>3, <1>17
  <2> QED
    BY <2>1, <2>2
<1>29. Laid(x, f - 1, c1, r1)
  BY <1>18, <1>25, <1>26, <1>27, <1>28 DEF Laid
<1> QED
  BY <1>29, <1>a DEF f, pv, S, mp
-----------------------------------------------------------------------------
(* The nodes that have a key.                                              *)
Taken(tab) == {i \in Nodes(tab) : tab.key[i] # NullKey}

(* The slots of a table: the key k has the value v.                        *)
Holds(tab, k, v) == \E i \in Nodes(tab) : tab.key[i] = k /\ tab.val[i] = v

(* Only nodes up to firstfree are empty: no key was removed.               *)
Dense(tab) ==
    \A i \in Nodes(tab) : tab.key[i] = NullKey => i <= tab.firstfree /\ tab.next[i] = Nil

(* A table between two calls.                                              *)
Good(tab, n) ==
    /\ Array(tab, n) /\ \E c, r : Laid(tab, tab.firstfree, c, r)
    /\ tab.key[tab.firstfree] = NullKey /\ tab.next[tab.firstfree] = Nil
    /\ tab.used = Cardinality(Taken(tab))

(* What placing a key that is absent makes of a good table.                *)
Placed(tab, n, k, p) ==
    /\ Array(p.tab, n) /\ p.at \in Nodes(tab) /\ p.tab.key[p.at] = k
    /\ p.tab.firstfree = tab.firstfree /\ p.tab.used = tab.used
    /\ \A f \in FreeNodes(p.tab) : \E c, r : Laid(p.tab, f, c, r)
    /\ Distinct(p.tab)
    /\ \E j \in Nodes(tab) : j \notin Taken(tab) /\ Taken(p.tab) = Taken(tab) \cup {j}
    /\ \A x \in Key : x # k => \A v : Holds(p.tab, x, v) <=> Holds(tab, x, v)
    /\ Dense(tab) => \A i \in Nodes(tab) : p.tab.key[i] = NullKey => i \in FreeNodes(p.tab)

(* firstfree may move down.                                                *)
LEMMA LaidLower ==
  ASSUME NEW tab, NEW n, Array(tab, n), NEW c, NEW r, NEW b \in Int, NEW d \in Int, d <= b,
         Laid(tab, b, c, r)
  PROVE  Laid(tab, d, c, r)
<1>1. Nodes(tab) \subseteq Nat
  BY ArrayFields
<1>2. \A p \in Nodes(tab) : p <= d => p <= b
  BY <1>1
<1>3. Alone(tab, d, c)
  BY <1>2 DEF Laid, Alone
<1>4. Native(tab, d)
  BY <1>2 DEF Laid, Native
<1> QED
  BY <1>3, <1>4 DEF Laid

(* The three ways of placing a key, as Placed states them.                 *)
LEMMA AtMainPlaces ==
  ASSUME NEW tab, NEW n, Good(tab, n), NEW k \in Key, Absent(tab, k), tab.key[Main(tab, k)] = NullKey
  PROVE  Placed(tab, n, k, AtMain(tab, k))
<1> DEFINE mp == Main(tab, k)  S == Nodes(tab)  p == AtMain(tab, k)  x == p.tab
<1>1. Array(tab, n)
  BY DEF Good
<1>2. /\ Array(x, n) /\ p.at = mp /\ x.key = [tab.key EXCEPT ![mp] = k]
      /\ x.val = tab.val /\ x.next = tab.next
      /\ x.firstfree = tab.firstfree /\ x.used = tab.used
  BY <1>1, AtMainFields
<1>3. /\ mp \in S /\ tab.key \in [S -> Key \cup {NullKey}] /\ k # NullKey /\ S \subseteq Nat
      /\ tab.firstfree \in Nat /\ S = 0 .. n - 1 /\ n \in Nat
  BY <1>1, MainIsNode, ArrayFields
<1>4. \A i \in S : x.key[i] = IF i = mp THEN k ELSE tab.key[i]
  BY <1>2, <1>3
<1>5. Nodes(x) = S
  BY <1>1, <1>2, SameSize, ArrayFields
<1>6. PICK c, r : Laid(tab, tab.firstfree, c, r)
  BY DEF Good
<1>7. Laid(x, tab.firstfree, c, r)
  BY <1>1, <1>6, AtMainLaid
<1>8. \A f \in FreeNodes(x) : Laid(x, f, c, r)
  <2> TAKE f \in FreeNodes(x)
  <2>1. f \in Nat /\ f <= tab.firstfree
    BY <1>2, <1>3 DEF FreeNodes
  <2> QED
    BY <2>1, <1>2, <1>3, <1>7, LaidLower
<1>9. tab.key[mp] = NullKey
  OBVIOUS
<1> HIDE DEF mp, S, p, x
<1>10. mp \notin Taken(tab) /\ Taken(x) = Taken(tab) \cup {mp}
  BY <1>3, <1>4, <1>5, <1>9 DEF Taken, S
<1>11. \A y \in Key : y # k => \A v : Holds(x, y, v) <=> Holds(tab, y, v)
  <2> SUFFICES ASSUME NEW y \in Key, y # k, NEW v PROVE Holds(x, y, v) <=> Holds(tab, y, v)
    OBVIOUS
  <2>1. \A i \in S : x.key[i] = y <=> tab.key[i] = y
    BY <1>1, <1>4, <1>9, ArrayFields
  <2> QED
    BY <2>1, <1>2, <1>5 DEF Holds, S
<1>12. Dense(tab) => \A i \in S : x.key[i] = NullKey => i \in FreeNodes(x)
  BY <1>2, <1>3, <1>4 DEF Dense, FreeNodes, S
<1>13. Distinct(x)
  BY <1>7 DEF Laid
<1>14. x.key[p.at] = k /\ p.at \in S
  BY <1>2, <1>3, <1>4
<1> QED
  BY <1>2, <1>3, <1>8, <1>10, <1>11, <1>12, <1>13, <1>14 DEF Placed, S, p, x

LEMMA AtFreePlaces ==
  ASSUME NEW tab, NEW n, Good(tab, n), NEW k \in Key, Absent(tab, k), tab.key[Main(tab, k)] # NullKey,
         ~(Main(tab, k) > tab.firstfree /\ Main(tab, tab.key[Main(tab, k)]) # Main(tab, k))
  PROVE  Placed(tab, n, k, AtFree(tab, k))
<1> DEFINE mp == Main(tab, k)  S == Nodes(tab)  p == AtFree(tab, k)  x == p.tab  b == tab.firstfree
<1>1. Array(tab, n)
  BY DEF Good
<1>2. /\ Array(x, n) /\ p.at = b /\ x.key = [tab.key EXCEPT ![b] = k]
      /\ x.next = [[tab.next EXCEPT ![b] = tab.next[mp]] EXCEPT ![mp] = b]
      /\ x.val = tab.val /\ x.firstfree = b /\ x.used = tab.used
  BY <1>1, AtFreeFields
<1>3. /\ mp \in S /\ b \in S /\ tab.key \in [S -> Key \cup {NullKey}] /\ k # NullKey /\ S \subseteq Nat
      /\ tab.next \in [S -> S \cup {Nil}]
      /\ b \in Nat /\ S = 0 .. n - 1 /\ n \in Nat
  BY <1>1, MainIsNode, ArrayFields
<1>4. \A i \in S : x.key[i] = IF i = b THEN k ELSE tab.key[i]
  BY <1>2, <1>3
<1>a. \A i \in S : i # mp /\ i # b => x.next[i] = tab.next[i]
  BY <1>2, <1>3
<1>5. Nodes(x) = S
  BY <1>1, <1>2, SameSize, ArrayFields
<1>9. tab.key[b] = NullKey /\ tab.next[b] = Nil /\ tab.key[mp] # NullKey
  BY DEF Good
<1>6. PICK c, r : Laid(tab, tab.firstfree, c, r)
  BY DEF Good
<1>7. PICK c1, r1 : Laid(x, b - 1, c1, r1)
  BY <1>1, <1>6, <1>9, AtFreeLaid
<1>8. \A f \in FreeNodes(x) : Laid(x, f, c1, r1)
  <2> TAKE f \in FreeNodes(x)
  <2>1. f \in Nat /\ f <= b /\ x.key[f] = NullKey
    BY <1>2, <1>3 DEF FreeNodes
  <2>2. f # b
    BY <2>1, <1>3, <1>4
  <2>3. f <= b - 1 /\ f \in Int /\ b - 1 \in Int
    BY <2>1, <2>2, <1>3
  <2> QED
    BY <2>3, <1>2, <1>7, LaidLower
<1> HIDE DEF mp, S, p, x, b
<1>10. b \notin Taken(tab) /\ Taken(x) = Taken(tab) \cup {b}
  BY <1>3, <1>4, <1>5, <1>9 DEF Taken, S
<1>11. \A y \in Key : y # k => \A v : Holds(x, y, v) <=> Holds(tab, y, v)
  <2> SUFFICES ASSUME NEW y \in Key, y # k, NEW v PROVE Holds(x, y, v) <=> Holds(tab, y, v)
    OBVIOUS
  <2>1. \A i \in S : x.key[i] = y <=> tab.key[i] = y
    BY <1>1, <1>4, <1>9, ArrayFields
  <2> QED
    BY <2>1, <1>2, <1>5 DEF Holds, S
<1>12. Dense(tab) => \A i \in S : x.key[i] = NullKey => i \in FreeNodes(x)
  <2> SUFFICES ASSUME Dense(tab), NEW i \in S, x.key[i] = NullKey PROVE i \in FreeNodes(x)
    OBVIOUS
  <2>1. i # b /\ tab.key[i] = NullKey
    BY <1>3, <1>4
  <2>2. i <= b /\ tab.next[i] = Nil /\ i # mp
    BY <2>1, <1>9 DEF Dense, S, b
  <2> QED
    BY <2>1, <2>2, <1>2, <1>3, <1>a DEF FreeNodes
<1>13. Distinct(x)
  BY <1>7 DEF Laid
<1>14. x.key[p.at] = k /\ p.at \in S
  BY <1>2, <1>3, <1>4
<1> QED
  BY <1>2, <1>3, <1>8, <1>10, <1>11, <1>12, <1>13, <1>14 DEF Placed, S, p, x, b

LEMMA MoveCollidingPlaces ==
  ASSUME NEW tab, NEW n, Good(tab, n), NEW k \in Key, Absent(tab, k), tab.key[Main(tab, k)] # NullKey,
         Main(tab, k) > tab.firstfree, Main(tab, tab.key[Main(tab, k)]) # Main(tab, k)
  PROVE  Placed(tab, n, k, MoveColliding(tab, k))
<1> DEFINE mp == Main(tab, k)  S == Nodes(tab)  p == MoveColliding(tab, k)  x == p.tab  b == tab.firstfree
           pv == MovedFrom(tab, k)
<1>1. Array(tab, n)
  BY DEF Good
<1>9. tab.key[b] = NullKey /\ tab.next[b] = Nil /\ tab.key[mp] # NullKey
  BY DEF Good
<1>6. PICK c, r : Laid(tab, tab.firstfree, c, r)
  BY DEF Good
<1>f. tab.next[pv] = mp /\ Nil \notin S
  BY <1>1, <1>6, <1>9, MoveCollidingLaid, ArrayFields
<1>7. MovedFrom(tab, k) \in Nodes(tab) /\ \E c1, r1 : Laid(x, b - 1, c1, r1)
  BY <1>1, <1>6, <1>9, MoveCollidingLaid
<1>b. PICK c1, r1 : Laid(x, b - 1, c1, r1)
  BY <1>7
<1>c. Array(x, n) /\ p.at = mp /\ MovedTo(tab, k, x)
  BY <1>1, <1>7, MoveCollidingFields
<1>2. /\ x.key = [[tab.key EXCEPT ![b] = tab.key[mp]] EXCEPT ![mp] = k]
      /\ x.val = [[tab.val EXCEPT ![b] = tab.val[mp]] EXCEPT ![mp] = NoVal]
      /\ x.next = [[[tab.next EXCEPT ![pv] = b] EXCEPT ![b] = tab.next[mp]] EXCEPT ![mp] = Nil]
      /\ x.firstfree = b /\ x.used = tab.used
  BY <1>c DEF MovedTo
<1>3. /\ mp \in S /\ b \in S /\ tab.key \in [S -> Key \cup {NullKey}] /\ k # NullKey /\ S \subseteq Nat
      /\ tab.next \in [S -> S \cup {Nil}] /\ tab.val \in [S -> Val \cup {NoVal}] /\ pv \in S
      /\ b \in Nat /\ S = 0 .. n - 1 /\ n \in Nat /\ mp # b
  BY <1>1, <1>7, <1>9, MainIsNode, ArrayFields
<1>4. \A i \in S : x.key[i] = IF i = mp THEN k ELSE IF i = b THEN tab.key[mp] ELSE tab.key[i]
  BY <1>2, <1>3
<1>d. \A i \in S : x.val[i] = IF i = mp THEN NoVal ELSE IF i = b THEN tab.val[mp] ELSE tab.val[i]
  BY <1>2, <1>3
<1>a. \A i \in S : i # mp /\ i # b /\ i # pv => x.next[i] = tab.next[i]
  BY <1>2, <1>3
<1>e. x.next[mp] = Nil
  BY <1>2, <1>3
<1>5. Nodes(x) = S
  BY <1>1, <1>c, SameSize, ArrayFields
<1>8. \A f \in FreeNodes(x) : Laid(x, f, c1, r1)
  <2> TAKE f \in FreeNodes(x)
  <2>1. f \in Nat /\ f <= b /\ x.key[f] = NullKey /\ f \in S
    BY <1>2, <1>3 DEF FreeNodes
  <2>2. f # b
    BY <2>1, <1>3, <1>4, <1>9
  <2>3. f <= b - 1 /\ f \in Int /\ b - 1 \in Int
    BY <2>1, <2>2, <1>3
  <2> QED
    BY <2>3, <1>b, <1>c, LaidLower
<1> HIDE DEF mp, S, p, x, b, pv
<1>10. b \notin Taken(tab) /\ Taken(x) = Taken(tab) \cup {b}
  BY <1>3, <1>4, <1>5, <1>9 DEF Taken, S
<1>11. \A y \in Key : y # k => \A v : Holds(x, y, v) <=> Holds(tab, y, v)
  <2> SUFFICES ASSUME NEW y \in Key, y # k, NEW v PROVE Holds(x, y, v) <=> Holds(tab, y, v)
    OBVIOUS
  <2>0. y # NullKey
    BY <1>1, ArrayFields
  <2>1. ASSUME NEW i \in S, x.key[i] = y, x.val[i] = v PROVE Holds(tab, y, v)
    <3>1. i # mp
      BY <2>1, <1>4
    <3>2. CASE i = b
      BY <2>1, <3>1, <3>2, <1>3, <1>4, <1>d DEF Holds, S
    <3>3. CASE i # b
      BY <2>1, <3>1, <3>3, <1>4, <1>d DEF Holds, S
    <3> QED
      BY <3>2, <3>3
  <2>2. ASSUME NEW i \in S, tab.key[i] = y, tab.val[i] = v PROVE Holds(x, y, v)
    <3>1. i # b
      BY <2>2, <2>0, <1>9
    <3>2. CASE i = mp
      BY <2>2, <3>2, <1>3, <1>4, <1>5, <1>d DEF Holds
    <3>3. CASE i # mp
      BY <2>2, <3>1, <3>3, <1>4, <1>5, <1>d DEF Holds
    <3> QED
      BY <3>2, <3>3
  <2> QED
    BY <2>1, <2>2, <1>5 DEF Holds, S
<1>12. Dense(tab) => \A i \in S : x.key[i] = NullKey => i \in FreeNodes(x)
  <2> SUFFICES ASSUME Dense(tab), NEW i \in S, x.key[i] = NullKey PROVE i \in FreeNodes(x)
    OBVIOUS
  <2>1. i # b /\ i # mp /\ tab.key[i] = NullKey
    BY <1>3, <1>4, <1>9
  <2>2. i <= b /\ tab.next[i] = Nil
    BY <2>1, <1>9 DEF Dense, S, b
  <2>3. i # pv
    <3>1. tab.next[pv] # Nil
      BY <1>7, <1>3, <1>f DEF pv, S
    <3> QED
      BY <3>1, <2>2
  <2>4. x.firstfree = b
    BY <1>2
  <2>5. x.next[i] = Nil
    BY <2>1, <2>2, <2>3, <1>a
  <2>6. i \in 0 .. b
    BY <2>2, <1>3
  <2> QED
    BY <2>4, <2>5, <2>6 DEF FreeNodes
<1>13. Distinct(x)
  BY <1>b DEF Laid
<1>14. x.key[p.at] = k /\ p.at \in S
  BY <1>c, <1>3, <1>4
<1> QED
  BY <1>2, <1>3, <1>c, <1>8, <1>10, <1>11, <1>12, <1>13, <1>14 DEF Placed, S, p, x, b
LEMMA PlaceWorks ==
  ASSUME NEW tab, NEW n, Good(tab, n), NEW k \in Key, Absent(tab, k)
  PROVE  Placed(tab, n, k, Place(tab, k))
<1>1. CASE tab.key[Main(tab, k)] = NullKey
  <2>1. Place(tab, k) = AtMain(tab, k)
    BY <1>1 DEF Place
  <2> QED
    BY <2>1, <1>1, AtMainPlaces
<1>2. CASE tab.key[Main(tab, k)] # NullKey /\ Main(tab, k) > tab.firstfree
           /\ Main(tab, tab.key[Main(tab, k)]) # Main(tab, k)
  <2>1. Place(tab, k) = MoveColliding(tab, k)
    BY <1>2 DEF Place
  <2> QED
    BY <2>1, <1>2, MoveCollidingPlaces
<1>3. CASE tab.key[Main(tab, k)] # NullKey
           /\ ~(Main(tab, k) > tab.firstfree /\ Main(tab, tab.key[Main(tab, k)]) # Main(tab, k))
  <2>1. Place(tab, k) = AtFree(tab, k)
    BY <1>3 DEF Place
  <2> QED
    BY <2>1, <1>3, AtFreePlaces
<1> QED
  BY <1>1, <1>2, <1>3

(* Lookups in a good table.                                                *)
LEMMA GoodFind ==
  ASSUME NEW tab, NEW n, Good(tab, n)
  PROVE  /\ Array(tab, n) /\ Distinct(tab)
         /\ \A k \in Key \cup {NullKey} :
               Find(tab, k) \in Nodes(tab) \cup {Nil} /\ (Find(tab, k) # Nil => tab.key[Find(tab, k)] = k)
         /\ \A i \in Nodes(tab) : tab.key[i] # NullKey => Find(tab, tab.key[i]) = i
         /\ \A k \in Key : Find(tab, k) = Nil <=> Absent(tab, k)
<1>1. Array(tab, n)
  BY DEF Good
<1>2. PICK c, r : Laid(tab, tab.firstfree, c, r)
  BY DEF Good
<1>3. Chained(tab, c, r) /\ Distinct(tab)
  BY <1>2 DEF Laid
<1>4. \A k \in Key \cup {NullKey} :
         Find(tab, k) \in Nodes(tab) \cup {Nil} /\ (Find(tab, k) # Nil => tab.key[Find(tab, k)] = k)
  BY <1>1, FindIsSound
<1>5. \A i \in Nodes(tab) : tab.key[i] # NullKey => Find(tab, tab.key[i]) = i
  BY <1>1, <1>3, FindIsComplete
<1>6. ASSUME NEW k \in Key PROVE Find(tab, k) = Nil <=> Absent(tab, k)
  <2>1. k # NullKey /\ Nil \notin Nodes(tab)
    BY <1>1, ArrayFields
  <2> QED
    BY <2>1, <1>4, <1>5 DEF Absent
<1> QED
  BY <1>1, <1>3, <1>4, <1>5, <1>6

(* A table has as many keys as nodes at most.                              *)
LEMMA TakenFinite ==
  ASSUME NEW tab, NEW n, Array(tab, n)
  PROVE  IsFiniteSet(Taken(tab)) /\ Cardinality(Taken(tab)) \in Nat /\ Cardinality(Taken(tab)) <= n
         /\ (Cardinality(Taken(tab)) = n => Taken(tab) = Nodes(tab))
<1>1. n \in Nat /\ Nodes(tab) = 0 .. n - 1 /\ n >= 4
  BY ArrayFields
<1>2. IsFiniteSet(0 .. n - 1) /\ Cardinality(0 .. n - 1) = n
  BY <1>1, FS_Interval
<1>3. Taken(tab) \subseteq 0 .. n - 1
  BY <1>1 DEF Taken
<1>4. IsFiniteSet(Taken(tab)) /\ Cardinality(Taken(tab)) <= n
      /\ (Cardinality(Taken(tab)) = n => Taken(tab) = 0 .. n - 1)
  BY <1>2, <1>3, FS_Subset
<1> QED
  BY <1>1, <1>4, FS_CardinalityType

(* Storing a value changes nothing else.                                   *)
Store(tab, i, v) == [tab EXCEPT !.val[i] = v]

LEMMA StoreFields ==
  ASSUME NEW tab, NEW n, Array(tab, n), NEW i \in Nodes(tab), NEW v \in Val \cup {NoVal},
         NEW x, x = Store(tab, i, v)
  PROVE  /\ Array(x, n) /\ x.key = tab.key /\ x.next = tab.next /\ x.firstfree = tab.firstfree
         /\ x.used = tab.used /\ x.val = [tab.val EXCEPT ![i] = v]
<1>1. i \in 0 .. n - 1
  BY ArrayFields
<1>2. tab \in TableOf(n)
  BY DEF Array
<1>3. x.key = tab.key /\ x.next = tab.next /\ x.firstfree = tab.firstfree
      /\ x.used = tab.used /\ x.val = [tab.val EXCEPT ![i] = v] /\ x.size = n
  BY <1>1, <1>2 DEF TableOf, Store
<1>4. DOMAIN x = {"size", "firstfree", "used", "key", "val", "next"} /\ x = [y \in DOMAIN x |-> x[y]]
  BY <1>2 DEF TableOf, Store
<1>5. /\ tab.key \in [0 .. n - 1 -> Key \cup {NullKey}] /\ tab.val \in [0 .. n - 1 -> Val \cup {NoVal}]
      /\ tab.next \in [0 .. n - 1 -> (0 .. n - 1) \cup {Nil}]
      /\ tab.used \in 0 .. n - 1 /\ tab.firstfree \in 0 .. n - 1
  BY <1>2 DEF TableOf
<1>6. x.val \in [0 .. n - 1 -> Val \cup {NoVal}]
  BY <1>1, <1>3, <1>5
<1>7. x.key \in [0 .. n - 1 -> Key \cup {NullKey}] /\ x.next \in [0 .. n - 1 -> (0 .. n - 1) \cup {Nil}]
      /\ x.used \in 0 .. n - 1 /\ x.firstfree \in 0 .. n - 1
  BY <1>3, <1>5
<1>8. x \in TableOf(n)
  <2>1. x.size = n
    BY <1>3
  <2> QED
    BY ONLY <2>1, <1>4, <1>6, <1>7 DEF TableOf
<1> QED
  BY <1>3, <1>8 DEF Array

(* Goodness depends on the keys, the links, firstfree and the count.       *)
LEMMA SameLaid ==
  ASSUME NEW tab, NEW x, x.size = tab.size, x.key = tab.key, x.next = tab.next, NEW b, NEW c, NEW r,
         Laid(tab, b, c, r)
  PROVE  Laid(x, b, c, r)
<1>1. Nodes(x) = Nodes(tab) /\ \A k : Main(x, k) = Main(tab, k)
  BY SameSize
<1>2. Chained(x, c, r)
  BY <1>1 DEF Laid, Chained, Descends, SkipsNone, Ordered, Homed
<1>3. Alone(x, b, c) /\ Native(x, b)
  BY <1>1 DEF Laid, Alone, Native
<1>4. Pure(x)
  BY <1>1 DEF Laid, Pure
<1>5. Distinct(x)
  BY <1>1 DEF Laid, Distinct
<1> QED
  BY <1>2, <1>3, <1>4, <1>5 DEF Laid

(* A stored value is the value of its key, and of no other.                *)
LEMMA StoreGood ==
  ASSUME NEW tab, NEW n, Good(tab, n), NEW i \in Nodes(tab), NEW v \in Val \cup {NoVal},
         NEW x, x = Store(tab, i, v)
  PROVE  /\ Good(x, n) /\ (Dense(tab) => Dense(x)) /\ x.key = tab.key /\ x.used = tab.used
         /\ x.firstfree = tab.firstfree /\ x.next = tab.next
         /\ \A k \in Key : \A w : Holds(x, k, w) <=>
               IF k = tab.key[i] THEN w = v ELSE Holds(tab, k, w)
<1>1. Array(tab, n) /\ Distinct(tab)
  BY GoodFind
<1>2. /\ Array(x, n) /\ x.key = tab.key /\ x.next = tab.next /\ x.firstfree = tab.firstfree
      /\ x.used = tab.used /\ x.val = [tab.val EXCEPT ![i] = v]
  BY <1>1, StoreFields
<1>3. x.size = n /\ tab.size = n /\ tab.val \in [Nodes(tab) -> Val \cup {NoVal}] /\ NullKey \notin Key
  BY <1>1, <1>2, ArrayFields
<1>4. Nodes(x) = Nodes(tab)
  BY <1>3, SameSize
<1>5. PICK c, r : Laid(tab, tab.firstfree, c, r)
  BY DEF Good
<1>6. Laid(x, x.firstfree, c, r)
  <2>1. x.size = tab.size /\ x.key = tab.key /\ x.next = tab.next /\ x.firstfree = tab.firstfree
    BY <1>2, <1>3
  <2>2. Laid(x, tab.firstfree, c, r)
    BY <2>1, <1>5, SameLaid
  <2> QED
    BY <2>1, <2>2
<1>7. Taken(x) = Taken(tab)
  BY <1>2, <1>4 DEF Taken
<1>8. Good(x, n)
  BY <1>2, <1>6, <1>7 DEF Good
<1>9. Dense(tab) => Dense(x)
  BY <1>2, <1>4 DEF Dense
<1>10. ASSUME NEW k \in Key, NEW w
       PROVE  Holds(x, k, w) <=> IF k = tab.key[i] THEN w = v ELSE Holds(tab, k, w)
  <2>1. \A j \in Nodes(tab) : x.val[j] = IF j = i THEN v ELSE tab.val[j]
    BY <1>2, <1>3
  <2>2. CASE k = tab.key[i]
    <3>1. \A j \in Nodes(tab) : tab.key[j] = k => j = i
      BY <2>2, <1>1, <1>3 DEF Distinct
    <3> QED
      BY <3>1, <2>1, <2>2, <1>2, <1>4 DEF Holds
  <2>3. CASE k # tab.key[i]
    BY <2>1, <2>3, <1>2, <1>4 DEF Holds
  <2> QED
    BY <2>2, <2>3
<1> QED
  BY <1>2, <1>8, <1>9, <1>10
-----------------------------------------------------------------------------
(* What Settle makes of the array, with a free node and without.           *)
SettleWith(q, i, f, v) == [q EXCEPT !.firstfree = f, !.val[i] = v, !.used = @ + 1]

LEMMA SettleFields ==
  ASSUME NEW q, NEW n, Array(q, n), NEW i \in Nodes(q), NEW f \in Nodes(q), q.used + 1 < n,
         NEW v \in Val \cup {NoVal}, NEW x, x = SettleWith(q, i, f, v)
  PROVE  /\ Array(x, n) /\ x.key = q.key /\ x.next = q.next /\ x.firstfree = f
         /\ x.used = q.used + 1 /\ x.val = [q.val EXCEPT ![i] = v]
<1>1. i \in 0 .. n - 1 /\ f \in 0 .. n - 1 /\ n \in Nat /\ q.used \in Nat
  BY ArrayFields
<1>2. q \in TableOf(n)
  BY DEF Array
<1>3. x.key = q.key /\ x.next = q.next /\ x.firstfree = f
      /\ x.used = q.used + 1 /\ x.val = [q.val EXCEPT ![i] = v] /\ x.size = n
  BY <1>1, <1>2 DEF TableOf, SettleWith
<1>4. DOMAIN x = {"size", "firstfree", "used", "key", "val", "next"} /\ x = [y \in DOMAIN x |-> x[y]]
  BY <1>2 DEF TableOf, SettleWith
<1>5. /\ q.key \in [0 .. n - 1 -> Key \cup {NullKey}] /\ q.val \in [0 .. n - 1 -> Val \cup {NoVal}]
      /\ q.next \in [0 .. n - 1 -> (0 .. n - 1) \cup {Nil}]
  BY <1>2 DEF TableOf
<1>6. x.val \in [0 .. n - 1 -> Val \cup {NoVal}]
  BY <1>1, <1>3, <1>5
<1>7. x.key \in [0 .. n - 1 -> Key \cup {NullKey}] /\ x.next \in [0 .. n - 1 -> (0 .. n - 1) \cup {Nil}]
  BY <1>3, <1>5
<1>9. x.used \in 0 .. n - 1 /\ x.firstfree \in 0 .. n - 1 /\ x.size = n
  BY <1>1, <1>3
<1>8. x \in TableOf(n)
  BY ONLY <1>4, <1>6, <1>7, <1>9 DEF TableOf
<1> QED
  BY <1>3, <1>8 DEF Array

(* The new firstfree is the greatest free node.                            *)
LEMMA FreeNodesAre ==
  ASSUME NEW q, NEW n, Array(q, n), FreeNodes(q) # {}
  PROVE  /\ Max(FreeNodes(q)) \in FreeNodes(q) /\ \A i \in FreeNodes(q) : i <= Max(FreeNodes(q))
         /\ FreeNodes(q) \subseteq Nodes(q)
<1>1. q.firstfree \in Nat /\ q.firstfree \in 0 .. n - 1 /\ Nodes(q) = 0 .. n - 1 /\ n \in Nat
  BY ArrayFields
<1>2. FreeNodes(q) \in SUBSET Nat /\ \A y \in FreeNodes(q) : y <= q.firstfree
  BY <1>1 DEF FreeNodes
<1>3. FreeNodes(q) \subseteq Nodes(q)
  BY <1>1 DEF FreeNodes
<1> QED
  BY <1>1, <1>2, <1>3, GreatestNumber

(* An insertion that finds a free node leaves a good table.                *)
LEMMA SettleGood ==
  ASSUME NEW tab, NEW n, Good(tab, n), NEW k \in Key, Absent(tab, k), NEW v \in Val \cup {NoVal},
         NEW p, Placed(tab, n, k, p), FreeNodes(p.tab) # {}, NEW x, x = Settle(p, v)
  PROVE  /\ Good(x, n) /\ (Dense(tab) => Dense(x)) /\ x.used = tab.used + 1
         /\ \A y \in Key : \A w : Holds(x, y, w) <=> IF y = k THEN w = v ELSE Holds(tab, y, w)
<1> DEFINE q == p.tab  f == Max(FreeNodes(q))
<1>1. /\ Array(q, n) /\ p.at \in Nodes(tab) /\ q.key[p.at] = k
      /\ q.firstfree = tab.firstfree /\ q.used = tab.used
      /\ \A g \in FreeNodes(q) : \E c, r : Laid(q, g, c, r)
      /\ Distinct(q)
  BY DEF Placed
<1>2. PICK j \in Nodes(tab) : j \notin Taken(tab) /\ Taken(q) = Taken(tab) \cup {j}
  BY DEF Placed
<1>3. \A y \in Key : y # k => \A w : Holds(q, y, w) <=> Holds(tab, y, w)
  BY DEF Placed
<1>4. Dense(tab) => \A i \in Nodes(tab) : q.key[i] = NullKey => i \in FreeNodes(q)
  BY DEF Placed
<1>5. Array(tab, n) /\ tab.used = Cardinality(Taken(tab))
  BY DEF Good
<1>6. Nodes(q) = Nodes(tab) /\ Nodes(tab) = 0 .. n - 1 /\ n \in Nat /\ k # NullKey /\ tab.used \in Nat
  BY <1>1, <1>5, ArrayFields
<1>7. f \in FreeNodes(q) /\ \A i \in FreeNodes(q) : i <= f
  BY <1>1, FreeNodesAre
<1>8. f \in Nodes(q) /\ q.key[f] = NullKey /\ q.next[f] = Nil
  BY <1>1, <1>7, FreeNodesAre DEF FreeNodes
<1>9. Cardinality(Taken(q)) = tab.used + 1
  <2>1. IsFiniteSet(Taken(tab))
    BY <1>5, TakenFinite
  <2>2. Cardinality(Taken(tab) \cup {j}) = Cardinality(Taken(tab)) + 1
    BY ONLY <2>1, <1>2, FS_AddElement
  <2> QED
    BY <2>2, <1>2, <1>5
<1>10. tab.used + 1 < n
  <2>1. Cardinality(Taken(q)) <= n /\ (Cardinality(Taken(q)) = n => Taken(q) = Nodes(q))
    BY <1>1, TakenFinite
  <2>2. f \notin Taken(q)
    BY <1>8 DEF Taken
  <2> QED
    BY <2>1, <2>2, <1>6, <1>8, <1>9
<1>11. x = SettleWith(q, p.at, f, v)
  BY DEF Settle, SettleWith
<1> HIDE DEF q, f
<1>12. /\ Array(x, n) /\ x.key = q.key /\ x.next = q.next /\ x.firstfree = f
       /\ x.used = q.used + 1 /\ x.val = [q.val EXCEPT ![p.at] = v]
  <2>1. Array(q, n) /\ p.at \in Nodes(q) /\ q.used + 1 < n
    BY <1>1, <1>6, <1>10
  <2>2. f \in Nodes(q)
    BY <1>8
  <2> QED
    BY ONLY <2>1, <2>2, <1>11, v \in Val \cup {NoVal}, SettleFields
<1>13. Nodes(x) = Nodes(q) /\ x.size = q.size
  BY <1>1, <1>12, ArrayFields
<1>14. PICK c, r : Laid(q, f, c, r)
  BY <1>1, <1>7
<1>15. Laid(x, f, c, r)
  BY <1>12, <1>13, <1>14, SameLaid
<1>16. Taken(x) = Taken(q)
  BY <1>12, <1>13 DEF Taken
<1>17. Good(x, n)
  BY <1>1, <1>8, <1>9, <1>12, <1>15, <1>16 DEF Good
<1>18. Dense(tab) => Dense(x)
  BY <1>4, <1>6, <1>7, <1>12, <1>13 DEF Dense, FreeNodes
<1>19. ASSUME NEW y \in Key, NEW w
       PROVE  Holds(x, y, w) <=> IF y = k THEN w = v ELSE Holds(tab, y, w)
  <2>1. \A i \in Nodes(q) : x.val[i] = IF i = p.at THEN v ELSE q.val[i]
    BY <1>1, <1>12, ArrayFields
  <2>2. CASE y = k
    <3>1. \A i \in Nodes(q) : q.key[i] = k => i = p.at
      BY <1>1, <1>6 DEF Distinct
    <3> QED
      BY <3>1, <2>1, <2>2, <1>1, <1>6, <1>12, <1>13 DEF Holds
  <2>3. CASE y # k
    <3>1. Holds(x, y, w) <=> Holds(q, y, w)
      BY <2>1, <2>3, <1>1, <1>12, <1>13 DEF Holds
    <3> QED
      BY <3>1, <2>3, <1>3
  <2> QED
    BY <2>2, <2>3
<1> QED
  BY <1>1, <1>12, <1>17, <1>18, <1>19

FullWith(q) == [q EXCEPT !.firstfree = 0]

LEMMA FullFields ==
  ASSUME NEW q, NEW n, Array(q, n), NEW x, x = FullWith(q)
  PROVE  /\ Array(x, n) /\ x.key = q.key /\ x.val = q.val /\ x.used = q.used
<1>1. n \in Nat /\ n >= 4
  BY ArrayFields
<1>2. q \in TableOf(n)
  BY DEF Array
<1>3. x.key = q.key /\ x.next = q.next /\ x.firstfree = 0
      /\ x.used = q.used /\ x.val = q.val /\ x.size = n
  BY <1>1, <1>2 DEF TableOf, FullWith
<1>4. DOMAIN x = {"size", "firstfree", "used", "key", "val", "next"} /\ x = [y \in DOMAIN x |-> x[y]]
  BY <1>2 DEF TableOf, FullWith
<1>5. /\ q.key \in [0 .. n - 1 -> Key \cup {NullKey}] /\ q.val \in [0 .. n - 1 -> Val \cup {NoVal}]
      /\ q.next \in [0 .. n - 1 -> (0 .. n - 1) \cup {Nil}] /\ q.used \in 0 .. n - 1
  BY <1>2 DEF TableOf
<1>7. /\ x.key \in [0 .. n - 1 -> Key \cup {NullKey}] /\ x.next \in [0 .. n - 1 -> (0 .. n - 1) \cup {Nil}]
      /\ x.val \in [0 .. n - 1 -> Val \cup {NoVal}]
  BY <1>3, <1>5
<1>9. x.used \in 0 .. n - 1 /\ x.firstfree \in 0 .. n - 1 /\ x.size = n
  BY <1>1, <1>3, <1>5
<1>8. x \in TableOf(n)
  BY ONLY <1>4, <1>7, <1>9 DEF TableOf
<1> QED
  BY <1>3, <1>8 DEF Array

(* One that finds none leaves the keys, the new one among them.            *)
LEMMA SettleFull ==
  ASSUME NEW tab, NEW n, Good(tab, n), NEW k \in Key, Absent(tab, k), NEW v,
         NEW p, Placed(tab, n, k, p), FreeNodes(p.tab) = {}, NEW x, x = Settle(p, v)
  PROVE  /\ Array(x, n) /\ Distinct(x) /\ x.used = tab.used /\ Cardinality(Taken(x)) = tab.used + 1
         /\ \A y \in Key : y # k => \A w : Holds(x, y, w) <=> Holds(tab, y, w)
         /\ \E w : Holds(x, k, w)
<1> DEFINE q == p.tab
<1>1. /\ Array(q, n) /\ p.at \in Nodes(tab) /\ q.key[p.at] = k /\ Distinct(q) /\ q.used = tab.used
  BY DEF Placed
<1>2. PICK j \in Nodes(tab) : j \notin Taken(tab) /\ Taken(q) = Taken(tab) \cup {j}
  BY DEF Placed
<1>3. \A y \in Key : y # k => \A w : Holds(q, y, w) <=> Holds(tab, y, w)
  BY DEF Placed
<1>5. Array(tab, n) /\ tab.used = Cardinality(Taken(tab))
  BY DEF Good
<1>6. Nodes(q) = Nodes(tab)
  BY <1>1, <1>5, ArrayFields
<1>9. Cardinality(Taken(q)) = tab.used + 1
  <2>1. IsFiniteSet(Taken(tab))
    BY <1>5, TakenFinite
  <2>2. Cardinality(Taken(tab) \cup {j}) = Cardinality(Taken(tab)) + 1
    BY ONLY <2>1, <1>2, FS_AddElement
  <2> QED
    BY <2>2, <1>2, <1>5
<1>11. x = FullWith(q)
  BY DEF Settle, FullWith
<1> HIDE DEF q
<1>12. Array(x, n) /\ x.key = q.key /\ x.val = q.val /\ x.used = q.used
  BY <1>1, <1>11, FullFields
<1>13. Nodes(x) = Nodes(q)
  BY <1>1, <1>12, ArrayFields
<1>14. Taken(x) = Taken(q) /\ Distinct(x)
  BY <1>1, <1>12, <1>13 DEF Taken, Distinct
<1>15. \A y, w : Holds(x, y, w) <=> Holds(q, y, w)
  BY <1>12, <1>13 DEF Holds
<1>16. Holds(x, k, x.val[p.at])
  BY <1>1, <1>6, <1>12, <1>13 DEF Holds
<1> QED
  BY <1>1, <1>3, <1>9, <1>12, <1>14, <1>15, <1>16

(* Insert, by the three ways it goes.                                      *)
LEMMA InsertPresent ==
  ASSUME NEW tab, NEW n, Good(tab, n), NEW k \in Key, ~Absent(tab, k), NEW v \in Val \cup {NoVal},
         NEW x, x = Insert(tab, k, v)
  PROVE  /\ Good(x, n) /\ (Dense(tab) => Dense(x)) /\ x.used = tab.used /\ x.key = tab.key
         /\ x.firstfree = tab.firstfree /\ x.next = tab.next
         /\ \A y \in Key : \A w : Holds(x, y, w) <=> IF y = k THEN w = v ELSE Holds(tab, y, w)
<1>1. Find(tab, k) # Nil /\ Find(tab, k) \in Nodes(tab) /\ tab.key[Find(tab, k)] = k
  BY GoodFind
<1>2. x = Store(tab, Find(tab, k), v)
  BY <1>1 DEF Insert, Store
<1> QED
  BY <1>1, <1>2, StoreGood

(* Inserting a key that is not there places it.                            *)
LEMMA InsertAbsent ==
  ASSUME NEW tab, NEW n, Good(tab, n), NEW k \in Key, Absent(tab, k), NEW v,
         NEW x, x = Insert(tab, k, v)
  PROVE  x = Settle(Place(tab, k), v) /\ Placed(tab, n, k, Place(tab, k))
<1>1. Find(tab, k) = Nil
  BY GoodFind
<1> QED
  BY <1>1, PlaceWorks DEF Insert
-----------------------------------------------------------------------------
(* A new array has room for what is inserted into it.                      *)
FillStep(from, to, i, g) == IF i = 0 THEN to ELSE InsertNode(from, i - 1, g[i - 1])

(* The recursion of InsertAll, as a function.                              *)
Fill(from, to) == CHOOSE f : f = [i \in 0 .. from.size |-> FillStep(from, to, i, f)]

LEMMA InsertAllIsFill ==
  ASSUME NEW from, NEW to
  PROVE  InsertAll(from, to) = Fill(from, to)[from.size]
BY Zenon DEF InsertAll, Fill, FillStep

(* There is such a function, as for Find.                                  *)
LEMMA FillDef ==
  ASSUME NEW from, NEW to, from.size \in Nat
  PROVE  \A n \in 0 .. from.size : Fill(from, to)[n] = FillStep(from, to, n, Fill(from, to))
<1> DEFINE Step(n, g) == FillStep(from, to, n, g)
           IsUpTo(m) == \E f : f = [n \in 0 .. m |-> Step(n, f)]
           T == {m \in Nat : ~IsUpTo(m)}
<1>1. ASSUME NEW f, NEW g PROVE Step(0, f) = Step(0, g)
  BY DEF FillStep
<1>2. ASSUME NEW f, NEW g, NEW n \in Nat, n # 0, f[n - 1] = g[n - 1] PROVE Step(n, f) = Step(n, g)
  BY <1>2 DEF FillStep
<1> HIDE DEF Step
<1>3. ASSUME T # {} PROVE FALSE
  <2> DEFINE m == Min(T)
  <2>1. m \in T /\ \A y \in T : m <= y
    BY <1>3, LeastNumber
  <2> HIDE DEF m
  <2>2. CASE m = 0
    <3> DEFINE f == [n \in 0 .. 0 |-> Step(0, 0)]
    <3>1. f = [n \in 0 .. 0 |-> Step(n, f)]
      BY <1>1
    <3> HIDE DEF f
    <3> QED
      BY <3>1, <2>1, <2>2
  <2>3. CASE m # 0
    <3>1. IsUpTo(m - 1)
      BY <2>1, <2>3
    <3>2. PICK f : f = [n \in 0 .. m - 1 |-> Step(n, f)]
      BY <3>1
    <3> DEFINE g == [n \in 0 .. m |-> IF n = m THEN Step(m, f) ELSE f[n]]
    <3>3. m \in Nat /\ m - 1 \in Nat
      BY <2>1, <2>3
    <3>a. \A n \in 0 .. m - 1 : g[n] = f[n] /\ f[n] = Step(n, f)
      BY <3>2, <3>3
    <3>b. g[m] = Step(m, f)
      BY <3>3
    <3>c. g = [n \in 0 .. m |-> g[n]]
      OBVIOUS
    <3> HIDE DEF g
    <3>4. ASSUME NEW n \in 0 .. m PROVE g[n] = Step(n, g)
      <4>1. CASE n = 0
        BY <4>1, <3>a, <3>3, <1>1
      <4>2. CASE n # 0 /\ n # m
        <5>1. n - 1 \in 0 .. m - 1 /\ n \in 0 .. m - 1 /\ n \in Nat
          BY <4>2, <3>3
        <5> QED
          BY <5>1, <4>2, <3>a, <1>2
      <4>3. CASE n = m
        <5>1. m - 1 \in 0 .. m - 1
          BY <3>3
        <5> QED
          BY <5>1, <4>3, <3>a, <3>b, <3>3, <2>3, <1>2
      <4> QED
        BY <4>1, <4>2, <4>3
    <3>5. g = [n \in 0 .. m |-> Step(n, g)]
      BY <3>c, <3>4
    <3> QED
      BY <3>5, <2>1
  <2> QED
    BY <2>2, <2>3
<1>4. IsUpTo(from.size)
  BY <1>3
<1>5. Fill(from, to) = [n \in 0 .. from.size |-> Step(n, Fill(from, to))]
  BY <1>4 DEF Fill, Step
<1> HIDE DEF IsUpTo, T
<1> QED
  BY <1>5 DEF Step

(* A new array is a table without keys.                                    *)
LEMMA AllocGood ==
  ASSUME NEW m \in Nat, m >= MinPower2
  PROVE  /\ Good(AllocNodes(m), m) /\ Dense(AllocNodes(m)) /\ AllocNodes(m).used = 0
         /\ \A i \in Nodes(AllocNodes(m)) : AllocNodes(m).key[i] = NullKey
<1> DEFINE x == AllocNodes(m)
           c == [i \in 0 .. m - 1 |-> i]  r == [i \in 0 .. m - 1 |-> 0]
<1>1. /\ x.size = m /\ x.firstfree = m - 1 /\ x.used = 0
      /\ x.key = [i \in 0 .. m - 1 |-> NullKey] /\ x.val = [i \in 0 .. m - 1 |-> NoVal]
      /\ x.next = [i \in 0 .. m - 1 |-> Nil]
  BY DEF AllocNodes
<1>2. DOMAIN x = {"size", "firstfree", "used", "key", "val", "next"} /\ x = [y \in DOMAIN x |-> x[y]]
  BY DEF AllocNodes
<1>3. m - 1 \in 0 .. m - 1 /\ 0 \in 0 .. m - 1 /\ 0 .. m - 1 \subseteq Nat
  BY DEF MinPower2
<1> HIDE DEF x
<1>4. x.firstfree \in 0 .. m - 1 /\ x.used \in 0 .. m - 1
  BY <1>1, <1>3
<1>5. /\ x.key \in [0 .. m - 1 -> Key \cup {NullKey}]
      /\ x.val \in [0 .. m - 1 -> Val \cup {NoVal}]
      /\ x.next \in [0 .. m - 1 -> (0 .. m - 1) \cup {Nil}]
  BY <1>1
<1>6. x \in TableOf(m)
  <2>1. x.size = m
    BY <1>1
  <2> QED
    BY ONLY <2>1, <1>2, <1>4, <1>5 DEF TableOf
<1>7. Array(x, m)
  BY <1>6 DEF Array
<1>8. Nodes(x) = 0 .. m - 1
  BY <1>1 DEF Nodes
<1>9. \A i \in Nodes(x) : x.key[i] = NullKey /\ x.next[i] = Nil
  BY <1>1, <1>8
<1>10. c \in [Nodes(x) -> Nodes(x)] /\ r \in [Nodes(x) -> Int] /\ \A i \in Nodes(x) : c[i] = i /\ r[i] = 0
  BY <1>8
<1> HIDE DEF c, r
<1>11. Chained(x, c, r)
  BY <1>9, <1>10 DEF Chained, Descends, SkipsNone, Ordered, Homed
<1>12. Laid(x, x.firstfree, c, r)
  <2>1. Distinct(x)
    BY <1>9 DEF Distinct
  <2>2. Pure(x) /\ Native(x, x.firstfree)
    BY <1>9 DEF Pure, Native
  <2>3. Alone(x, x.firstfree, c)
    BY <1>10 DEF Alone
  <2> QED
    BY <1>11, <2>1, <2>2, <2>3 DEF Laid
<1>13. Taken(x) = {}
  BY <1>9 DEF Taken
<1>14. Cardinality(Taken(x)) = 0
  BY <1>13, FS_EmptySet
<1>15. Good(x, m)
  BY <1>1, <1>4, <1>7, <1>8, <1>9, <1>12, <1>14 DEF Good
<1>16. Dense(x)
  BY <1>1, <1>3, <1>8, <1>9 DEF Dense
<1> QED
  BY <1>1, <1>9, <1>15, <1>16 DEF x

(* The nodes of the old array that have been copied, and their slots.      *)
TakenTo(from, i) == {j \in Nodes(from) : j < i /\ from.key[j] # NullKey}
HoldsTo(from, i, k, v) == \E j \in Nodes(from) : j < i /\ from.key[j] = k /\ from.val[j] = v

(* What the new array is after i nodes.                                    *)
Filled(from, m, i, g) ==
    /\ Good(g, m) /\ Dense(g) /\ g.used = Cardinality(TakenTo(from, i))
    /\ \A k \in Key : \A v : Holds(g, k, v) <=> HoldsTo(from, i, k, v)

LEMMA TakenToIs ==
  ASSUME NEW from, NEW n, Array(from, n), NEW i \in 0 .. n - 1
  PROVE  /\ TakenTo(from, 0) = {} /\ TakenTo(from, n) = Taken(from)
         /\ IsFiniteSet(TakenTo(from, i)) /\ Cardinality(TakenTo(from, i)) \in Nat
         /\ TakenTo(from, i) \subseteq Taken(from) \ {i}
         /\ TakenTo(from, i + 1) = IF from.key[i] = NullKey THEN TakenTo(from, i)
                                   ELSE TakenTo(from, i) \cup {i}
<1>1. n \in Nat /\ Nodes(from) = 0 .. n - 1 /\ i \in Nat
  BY ArrayFields
<1>2. \A j \in Nodes(from) : j \in Int /\ j >= 0 /\ j < n /\ (j < i + 1 <=> j < i \/ j = i)
  BY <1>1
<1>3. i \in Nodes(from) /\ ~(i < i)
  BY <1>1
<1>4. TakenTo(from, 0) = {} /\ TakenTo(from, n) = Taken(from)
  BY <1>2 DEF TakenTo, Taken
<1>5. TakenTo(from, i) \subseteq Taken(from) \ {i}
  BY <1>3 DEF TakenTo, Taken
<1>6. TakenTo(from, i + 1) = IF from.key[i] = NullKey THEN TakenTo(from, i) ELSE TakenTo(from, i) \cup {i}
  BY <1>2, <1>3 DEF TakenTo
<1>7. IsFiniteSet(Taken(from))
  BY TakenFinite
<1>8. IsFiniteSet(TakenTo(from, i)) /\ Cardinality(TakenTo(from, i)) \in Nat
  BY <1>5, <1>7, FS_Subset, FS_CardinalityType
<1> QED
  BY <1>4, <1>5, <1>6, <1>8

(* Copying one more node: its key is not there yet, and there is room.     *)
LEMMA FillsOneMore ==
  ASSUME NEW from, NEW n, Array(from, n), Distinct(from), NEW m, Cardinality(Taken(from)) < m,
         NEW i \in 0 .. n - 1, NEW g, Filled(from, m, i, g)
  PROVE  Filled(from, m, i + 1, InsertNode(from, i, g))
<1>1. /\ n \in Nat /\ Nodes(from) = 0 .. n - 1 /\ i \in Nodes(from) /\ NullKey \notin Key
      /\ from.key \in [Nodes(from) -> Key \cup {NullKey}] /\ from.val \in [Nodes(from) -> Val \cup {NoVal}]
  BY ArrayFields
<1>2. \A j \in Nodes(from) : j < i + 1 <=> j < i \/ j = i
  BY <1>1
<1>3. Good(g, m) /\ Dense(g) /\ g.used = Cardinality(TakenTo(from, i))
      /\ \A k \in Key : \A v : Holds(g, k, v) <=> HoldsTo(from, i, k, v)
  BY DEF Filled
<1>4. CASE from.key[i] = NullKey
  <2>1. InsertNode(from, i, g) = g
    BY <1>4 DEF InsertNode
  <2>2. TakenTo(from, i + 1) = TakenTo(from, i)
    BY <1>4, TakenToIs
  <2>3. ASSUME NEW k \in Key, NEW v PROVE HoldsTo(from, i + 1, k, v) <=> HoldsTo(from, i, k, v)
    BY <1>1, <1>2, <1>4 DEF HoldsTo
  <2> QED
    BY <1>3, <2>1, <2>2, <2>3 DEF Filled
<1>5. CASE from.key[i] # NullKey
  <2> DEFINE k == from.key[i]  v == from.val[i]  x == InsertNode(from, i, g)  p == Place(g, k)
  <2>1. k \in Key /\ v \in Val \cup {NoVal} /\ x = Insert(g, k, v)
    BY <1>1, <1>5 DEF InsertNode
  <2>2. Absent(g, k)
    <3> SUFFICES ASSUME NEW a \in Nodes(g), g.key[a] = k PROVE FALSE
      BY DEF Absent
    <3>1. Holds(g, k, g.val[a])
      BY DEF Holds
    <3>2. HoldsTo(from, i, k, g.val[a])
      BY <3>1, <2>1, <1>3
    <3>3. PICK j \in Nodes(from) : j < i /\ from.key[j] = k
      BY <3>2 DEF HoldsTo
    <3>4. j = i
      BY <3>3, <1>1, <1>5 DEF Distinct
    <3> QED
      BY <3>3, <3>4, <1>1
  <2>3. x = Settle(p, v) /\ Placed(g, m, k, p)
    BY <2>1, <2>2, <1>3, InsertAbsent
  <2>4. TakenTo(from, i + 1) = TakenTo(from, i) \cup {i} /\ i \notin TakenTo(from, i)
        /\ IsFiniteSet(TakenTo(from, i)) /\ TakenTo(from, i) \subseteq Taken(from) /\ Cardinality(TakenTo(from, i)) \in Nat
    BY <1>5, TakenToIs
  <2>5. Cardinality(TakenTo(from, i + 1)) = g.used + 1
    BY <2>4, <1>3, FS_AddElement
  <2>6. g.used + 1 < m
    <3>1. i \in Taken(from)
      BY <1>1, <1>5 DEF Taken
    <3>2. TakenTo(from, i + 1) \subseteq Taken(from)
      BY <3>1, <2>4
    <3>3. Cardinality(TakenTo(from, i + 1)) <= Cardinality(Taken(from)) /\ Cardinality(Taken(from)) \in Nat
      BY <3>2, TakenFinite, FS_Subset
    <3>4. m \in Nat
      BY <1>3, ArrayFields DEF Good
    <3>5. Cardinality(TakenTo(from, i + 1)) \in Nat
      BY <2>4, <2>5, <1>3
    <3> QED
      BY <3>3, <3>4, <3>5, <2>5
  <2>7. FreeNodes(p.tab) # {}
    <3>1. Array(p.tab, m) /\ Array(g, m) /\ g.used = Cardinality(Taken(g))
      BY <2>3, <1>3 DEF Placed, Good
    <3>2. PICK j \in Nodes(g) : j \notin Taken(g) /\ Taken(p.tab) = Taken(g) \cup {j}
      BY <2>3 DEF Placed
    <3>a. IsFiniteSet(Taken(g))
      BY <3>1, TakenFinite
    <3>b. Cardinality(Taken(g) \cup {j}) = Cardinality(Taken(g)) + 1
      BY <3>a, <3>2, FS_AddElement
    <3>3. Cardinality(Taken(p.tab)) = g.used + 1
      BY <3>1, <3>2, <3>b
    <3>4. Nodes(p.tab) = Nodes(g) /\ m \in Nat /\ Nodes(g) = 0 .. m - 1
      BY <3>1, ArrayFields
    <3>5. Taken(p.tab) # Nodes(g)
      <4>1. 0 \in Int /\ m - 1 \in Int /\ m \in Nat
        BY ONLY <3>4
      <4>2. Cardinality(0 .. m - 1) = IF 0 > m - 1 THEN 0 ELSE (m - 1) - 0 + 1
        BY ONLY <4>1, FS_Interval
      <4>3. Cardinality(0 .. m - 1) = m
        BY ONLY <4>1, <4>2
      <4> QED
        BY <4>3, <3>3, <3>4, <2>6
    <3>6. PICK a \in Nodes(g) : p.tab.key[a] = NullKey
      BY <3>4, <3>5 DEF Taken
    <3> QED
      BY <3>6, <2>3, <1>3 DEF Placed
  <2> HIDE DEF k, v, x, p
  <2>8. /\ Good(x, m) /\ (Dense(g) => Dense(x)) /\ x.used = g.used + 1
        /\ \A y \in Key : \A w : Holds(x, y, w) <=> IF y = k THEN w = v ELSE Holds(g, y, w)
    BY <2>1, <2>2, <2>3, <2>7, <1>3, SettleGood
  <2>9. ASSUME NEW y \in Key, NEW w PROVE Holds(x, y, w) <=> HoldsTo(from, i + 1, y, w)
    <3>1. Holds(x, y, w) <=> IF y = k THEN w = v ELSE HoldsTo(from, i, y, w)
      BY <2>8, <1>3
    <3>2. CASE y = k
      <4>1. \A j \in Nodes(from) : from.key[j] = k => j = i
        BY <1>1, <1>5 DEF Distinct, k
      <4>2. from.key[i] = k /\ from.val[i] = v /\ i < i + 1
        BY <1>1, <2>1 DEF k, v
      <4> QED
        BY <3>1, <3>2, <4>1, <4>2, <1>1 DEF HoldsTo
    <3>3. CASE y # k
      <4>1. from.key[i] = k
        BY DEF k
      <4> QED
        BY <3>1, <3>3, <4>1, <1>1, <1>2 DEF HoldsTo
    <3> QED
      BY <3>2, <3>3
  <2>10. Filled(from, m, i + 1, x)
    BY <2>5, <2>8, <2>9, <1>3 DEF Filled
  <2> QED
    BY <2>10 DEF x
<1> QED
  BY <1>4, <1>5

(* A reallocation with room keeps every slot, and invents none.            *)
LEMMA InsertAllWorks ==
  ASSUME NEW from, NEW n, Array(from, n), Distinct(from), NEW m \in Nat, m >= MinPower2,
         Cardinality(Taken(from)) < m, NEW x, x = InsertAll(from, AllocNodes(m))
  PROVE  /\ Good(x, m) /\ Dense(x) /\ x.used = Cardinality(Taken(from))
         /\ \A k \in Key : \A v : Holds(x, k, v) <=> Holds(from, k, v)
<1> DEFINE F == Fill(from, AllocNodes(m))
           T == {i \in 0 .. n : ~Filled(from, m, i, F[i])}
<1>1. n \in Nat /\ n >= 4 /\ from.size = n /\ Nodes(from) = 0 .. n - 1 /\ NullKey \notin Key
  BY ArrayFields
<1>2. \A i \in 0 .. n : F[i] = FillStep(from, AllocNodes(m), i, F)
  BY <1>1, FillDef
<1>3. F[0] = AllocNodes(m)
  BY <1>1, <1>2 DEF FillStep
<1>4. \A i \in 1 .. n : F[i] = InsertNode(from, i - 1, F[i - 1])
  <2> TAKE i \in 1 .. n
  <2>1. i \in 0 .. n /\ i # 0
    BY <1>1
  <2> QED
    BY <2>1, <1>2 DEF FillStep
<1> HIDE DEF F
<1>5. Filled(from, m, 0, F[0])
  <2>1. Good(F[0], m) /\ Dense(F[0]) /\ F[0].used = 0 /\ \A i \in Nodes(F[0]) : F[0].key[i] = NullKey
    BY <1>3, AllocGood
  <2>2. Cardinality(TakenTo(from, 0)) = 0
    <3>1. 0 \in 0 .. n - 1
      BY <1>1
    <3> QED
      BY <3>1, TakenToIs, FS_EmptySet
  <2>3. \A j \in Nodes(from) : ~(j < 0)
    BY <1>1
  <2>4. ASSUME NEW k \in Key, NEW v PROVE ~Holds(F[0], k, v) /\ ~HoldsTo(from, 0, k, v)
    BY <2>1, <2>3, <1>1 DEF Holds, HoldsTo
  <2> QED
    BY <2>1, <2>2, <2>4 DEF Filled
<1>6. ASSUME T # {} PROVE FALSE
  <2> DEFINE i == Min(T)
  <2>b. T \in SUBSET Nat
    BY <1>1
  <2> HIDE DEF T
  <2>1. i \in T /\ \A y \in T : i <= y
    BY <2>b, <1>6, LeastNumber
  <2> USE DEF T
  <2> HIDE DEF i
  <2>2. i \in 0 .. n /\ ~Filled(from, m, i, F[i]) /\ i # 0
    BY <2>1, <1>5
  <2>3. i - 1 \in 0 .. n /\ i - 1 \in 0 .. n - 1 /\ ~(i <= i - 1) /\ i \in 1 .. n /\ i - 1 + 1 = i
    BY <2>2, <1>1
  <2>4. Filled(from, m, i - 1, F[i - 1])
    BY <2>1, <2>3
  <2>5. Filled(from, m, i - 1 + 1, InsertNode(from, i - 1, F[i - 1]))
    BY <2>3, <2>4, FillsOneMore
  <2> QED
    BY <2>2, <2>3, <2>5, <1>4
<1>7. Filled(from, m, n, F[n])
  BY <1>6, <1>1
<1>8. x = F[n]
  BY <1>1, InsertAllIsFill DEF F
<1>9. TakenTo(from, n) = Taken(from)
  <2>1. 0 \in 0 .. n - 1
    BY <1>1
  <2> QED
    BY <2>1, TakenToIs
<1>10. \A k, v : HoldsTo(from, n, k, v) <=> Holds(from, k, v)
  <2>1. \A j \in Nodes(from) : j < n
    BY <1>1
  <2> QED
    BY <2>1 DEF HoldsTo, Holds
<1> QED
  BY <1>7, <1>8, <1>9, <1>10 DEF Filled
-----------------------------------------------------------------------------
(* The sizes, and the room they leave.                                     *)
LEMMA OddDivides ==
  ASSUME NEW n \in Nat, NEW d \in Nat, d >= 2, d % 2 # 0, (n * 2) % d = 0
  PROVE  n % d = 0
<1> DEFINE q == (n * 2) \div d  e == d \div 2
<1>1. n * 2 = d * q /\ q \in Nat
  BY Z3
<1>2. d = 2 * e + 1 /\ e \in Nat
  BY Z3
<1> HIDE DEF q, e
<1> DEFINE u == n - e * q
<1>3. u \in Int /\ q = 2 * u
  <2>1. e * q \in Int
    BY <1>1, <1>2
  <2>2. d * q = 2 * (e * q) + q
    BY <1>1, <1>2, Z3
  <2> DEFINE a == e * q  b == d * q
  <2>3. a \in Int /\ b = 2 * a + q /\ n * 2 = b
    BY <2>1, <2>2, <1>1
  <2> HIDE DEF a, b
  <2>4. n - a \in Int /\ q = 2 * (n - a)
    BY <2>3, <1>1
  <2> QED
    BY <2>4 DEF a
<1> HIDE DEF u
<1>4. n = d * u
  BY <1>1, <1>3, Z3
<1> QED
  BY <1>4, <1>3, Z3

(* An odd divisor of 2n divides n.                                         *)
LEMMA DividesDouble ==
  ASSUME NEW n \in Nat, NEW d \in Nat, d >= 1, n % d = 0
  PROVE  (n * 2) % d = 0
<1> DEFINE q == n \div d
<1>1. n = d * q /\ q \in Int
  BY Z3
<1> HIDE DEF q
<1>2. n * 2 = d * (q * 2) /\ q * 2 \in Int
  BY <1>1, Z3
<1> DEFINE u == q * 2  b == n * 2
<1>3. b = d * u /\ u \in Int /\ b \in Nat
  BY <1>2
<1> HIDE DEF u, b
<1>4. b % d = 0
  BY <1>3, Z3
<1> QED
  BY <1>4 DEF b

(* A size remains one when it is doubled, and when it is halved.           *)
LEMMA SizeDoubles ==
  ASSUME NEW n, IsSize(n)
  PROVE  IsSize(n * 2)
<1>1. n \in Nat /\ n >= 4 /\ \A d \in 2 .. n : n % d = 0 => d % 2 = 0
  BY DEF IsSize, MinPower2
<1>2. ASSUME NEW d \in 2 .. n * 2, (n * 2) % d = 0, d % 2 # 0 PROVE FALSE
  <2>1. d \in Nat /\ d >= 2
    BY <1>1
  <2>2. n % d = 0
    BY <2>1, <1>1, <1>2, OddDivides
  <2>3. d <= n
    BY <2>1, <2>2, <1>1, Z3
  <2> QED
    BY <2>1, <2>2, <2>3, <1>1, <1>2
<1>3. n * 2 \in Nat /\ n * 2 >= 4
  BY <1>1
<1> QED
  BY <1>2, <1>3 DEF IsSize, MinPower2

LEMMA SizeHalves ==
  ASSUME NEW n, IsSize(n), n > MinPower2
  PROVE  IsSize(n \div 2) /\ n \div 4 + 1 < n \div 2 /\ n \div 2 # n
<1> DEFINE h == n \div 2
<1>1. n \in Nat /\ n > 4 /\ \A d \in 2 .. n : n % d = 0 => d % 2 = 0
  BY DEF IsSize, MinPower2
<1>2. n % 2 = 0
  <2>1. n % n = 0 /\ n \in 2 .. n
    BY <1>1, Z3
  <2> QED
    BY <2>1, <1>1
<1>3. n = h * 2 /\ h \in Nat /\ h >= 3
  BY <1>1, <1>2, Z3
<1> HIDE DEF h
<1>4. ASSUME NEW d \in 2 .. h, h % d = 0 PROVE d % 2 = 0
  <2>1. d \in Nat /\ d >= 1 /\ d \in 2 .. n
    BY <1>3
  <2>2. n % d = 0
    BY <2>1, <1>3, <1>4, DividesDouble
  <2> QED
    BY <2>1, <2>2, <1>1
<1>5. h # 3
  <2> SUFFICES ASSUME h = 3 PROVE FALSE
    OBVIOUS
  <2>1. 3 \in 2 .. h /\ h % 3 = 0 /\ 3 % 2 # 0
    OBVIOUS
  <2> QED
    BY <2>1, <1>4
<1>6. h >= 4 /\ h # n
  BY <1>3, <1>5
<1>7. n \div 4 + 1 < h
  BY <1>3, <1>6, Z3
<1>8. IsSize(h)
  BY <1>3, <1>4, <1>6 DEF IsSize, MinPower2
<1> QED
  BY <1>6, <1>7, <1>8 DEF h
-----------------------------------------------------------------------------
(* Two tables with the same slots.                                         *)
Same(x, tab) == \A k \in Key : \A v : Holds(x, k, v) <=> Holds(tab, k, v)

(* A reallocation has room for one key more than is counted.               *)
LEMMA RehashWorks ==
  ASSUME NEW tab, NEW n, IsSize(n), Array(tab, n), Distinct(tab),
         Cardinality(Taken(tab)) <= tab.used + 1, NEW force \in BOOLEAN, NEW x, x = Rehash(tab, force)
  PROVE  \/ x = tab /\ ~force
         \/ \E m : IsSize(m) /\ (m = n => force) /\ Good(x, m) /\ Same(x, tab)
<1>1. n \in Nat /\ n >= 4 /\ tab.size = n /\ tab.used \in Nat /\ MinPower2 = 4
  BY ArrayFields DEF MinPower2
<1>2. Cardinality(Taken(tab)) \in Nat /\ Cardinality(Taken(tab)) <= n
  BY TakenFinite
<1>3. ASSUME NEW m, IsSize(m), Cardinality(Taken(tab)) < m, m = n => force,
             x = InsertAll(tab, AllocNodes(m))
      PROVE  \E l : IsSize(l) /\ (l = n => force) /\ Good(x, l) /\ Same(x, tab)
  <2>1. m \in Nat /\ m >= MinPower2
    BY <1>3 DEF IsSize
  <2>2. Good(x, m) /\ \A k \in Key : \A v : Holds(x, k, v) <=> Holds(tab, k, v)
    BY <2>1, <1>3, InsertAllWorks
  <2> QED
    BY <2>2, <1>3 DEF Same
<1>4. CASE Grows(tab)
  <2>1. x = InsertAll(tab, AllocNodes(n * 2))
    BY <1>1, <1>4 DEF Rehash
  <2>2. n * 2 # n /\ Cardinality(Taken(tab)) < n * 2
    BY <1>1, <1>2
  <2> QED
    BY <2>1, <2>2, <1>3, SizeDoubles
<1>5. CASE ~Grows(tab) /\ Shrinks(tab)
  <2>1. x = InsertAll(tab, AllocNodes(n \div 2)) /\ tab.used <= n \div 4 /\ n > MinPower2
    BY <1>1, <1>5 DEF Rehash, Shrinks
  <2>2. IsSize(n \div 2) /\ n \div 4 + 1 < n \div 2 /\ n \div 2 # n
    BY <2>1, SizeHalves
  <2>3. Cardinality(Taken(tab)) < n \div 2
    <3> DEFINE a == n \div 4  b == n \div 2
    <3>1. a \in Int /\ b \in Int
      BY <1>1
    <3>2. tab.used <= a /\ a + 1 < b
      BY <2>1, <2>2
    <3> HIDE DEF a, b
    <3>3. Cardinality(Taken(tab)) < b
      BY <3>1, <3>2, <1>1, <1>2
    <3> QED
      BY <3>3 DEF b
  <2> QED
    BY <2>1, <2>2, <2>3, <1>3
<1>6. CASE ~Grows(tab) /\ ~Shrinks(tab) /\ force
  <2>1. x = InsertAll(tab, AllocNodes(n)) /\ ~(tab.used >= n - n \div 4)
    BY <1>1, <1>6 DEF Rehash, Grows
  <2>2. n \div 4 \in Nat /\ n \div 4 >= 1
    BY <1>1, Z3
  <2>3. Cardinality(Taken(tab)) < n
    <3> DEFINE a == n \div 4
    <3>1. a \in Nat /\ a >= 1 /\ ~(tab.used >= n - a)
      BY <2>1, <2>2
    <3> HIDE DEF a
    <3> QED
      BY <3>1, <1>1, <1>2
  <2> QED
    BY <2>1, <2>3, <1>3, <1>6
<1>7. CASE ~Grows(tab) /\ ~Shrinks(tab) /\ ~force
  BY <1>7 DEF Rehash
<1> QED
  BY <1>4, <1>5, <1>6, <1>7

(* NewSlot.                                                                *)
LEMMA NewSlotInWorks ==
  ASSUME NEW tab, NEW n, IsSize(n), Good(tab, n), NEW k \in Key, NEW v \in Val \cup {NoVal},
         NEW x, x = NewSlotIn(tab, k, v)
  PROVE  /\ \E m : IsSize(m) /\ Good(x, m)
         /\ \A y \in Key : \A w : Holds(x, y, w) <=> IF y = k THEN w = v ELSE Holds(tab, y, w)
         /\ ~Absent(tab, k) => x.key = tab.key /\ x.size = tab.size
<1> DEFINE y == Insert(tab, k, v)
<1>1. CASE ~Absent(tab, k)
  <2>1. /\ Good(y, n) /\ y.key = tab.key
        /\ y.firstfree = tab.firstfree /\ y.next = tab.next
        /\ \A z \in Key : \A w : Holds(y, z, w) <=> IF z = k THEN w = v ELSE Holds(tab, z, w)
    BY <1>1, InsertPresent
  <2>2. y.firstfree \in FreeNodes(y)
    BY <2>1, ArrayFields DEF Good, FreeNodes
  <2>3. x = y
    BY <2>2 DEF NewSlotIn
  <2>4. x.size = tab.size
    BY <2>1, <2>3, ArrayFields DEF Good
  <2> QED
    BY <2>1, <2>3, <2>4
<1>2. CASE Absent(tab, k)
  <2> DEFINE p == Place(tab, k)
  <2>1. y = Settle(p, v) /\ Placed(tab, n, k, p)
    BY <1>2, InsertAbsent
  <2> HIDE DEF p
  <2>2. CASE FreeNodes(p.tab) # {}
    <3>1. /\ Good(y, n)
          /\ \A z \in Key : \A w : Holds(y, z, w) <=> IF z = k THEN w = v ELSE Holds(tab, z, w)
      BY <1>2, <2>1, <2>2, SettleGood
    <3>2. y.firstfree \in FreeNodes(y)
      BY <3>1, ArrayFields DEF Good, FreeNodes
    <3>3. x = y
      BY <3>2 DEF NewSlotIn
    <3> QED
      BY <3>1, <3>3, <1>2
  <2>3. CASE FreeNodes(p.tab) = {}
    <3>1. /\ Array(y, n) /\ Distinct(y) /\ y.used = tab.used /\ Cardinality(Taken(y)) = tab.used + 1
          /\ \A z \in Key : z # k => \A w : Holds(y, z, w) <=> Holds(tab, z, w)
          /\ \E w : Holds(y, k, w)
      BY <1>2, <2>1, <2>3, SettleFull
    <3>2. FreeNodes(y) = {}
      <4>1. Array(p.tab, n) /\ p.tab.firstfree \in Nat /\ y = FullWith(p.tab)
        BY <2>1, <2>3, ArrayFields DEF Placed, Settle, FullWith
      <4>2. y.key = p.tab.key /\ y.next = p.tab.next /\ y.firstfree = 0
        BY <4>1 DEF FullWith, Array, TableOf
      <4> QED
        BY <4>1, <4>2, <2>3 DEF FreeNodes
    <3> DEFINE z == Rehash(y, TRUE)
    <3>3. x = Insert(z, k, v)
      BY <3>2 DEF NewSlotIn
    <3>a. Cardinality(Taken(y)) <= y.used + 1
      BY <3>1, TakenFinite
    <3> HIDE DEF y
    <3>4. PICK m : IsSize(m) /\ Good(z, m) /\ Same(z, y)
      BY <3>1, <3>a, RehashWorks
    <3> HIDE DEF z
    <3>5. ~Absent(z, k)
      BY <3>1, <3>4 DEF Same, Holds, Absent
    <3>6. /\ Good(x, m)
          /\ \A u \in Key : \A w : Holds(x, u, w) <=> IF u = k THEN w = v ELSE Holds(z, u, w)
      BY <3>3, <3>4, <3>5, InsertPresent
    <3>7. \A u \in Key : \A w : Holds(x, u, w) <=> IF u = k THEN w = v ELSE Holds(tab, u, w)
      BY <3>1, <3>4, <3>6 DEF Same
    <3> QED
      BY <3>4, <3>6, <3>7, <1>2
  <2> QED
    BY <2>2, <2>3
<1> QED
  BY <1>1, <1>2

(* What a node is after its removal.                                       *)
EmptyAt(tab, i) == [tab EXCEPT !.val[i] = NoVal, !.key[i] = NullKey, !.used = @ - 1]

(* The arrays after it.                                                    *)
LEMMA EmptyFields ==
  ASSUME NEW q, NEW n, Array(q, n), NEW i \in Nodes(q), q.used >= 1, NEW x, x = EmptyAt(q, i)
  PROVE  /\ Array(x, n) /\ x.key = [q.key EXCEPT ![i] = NullKey] /\ x.next = q.next
         /\ x.firstfree = q.firstfree /\ x.used = q.used - 1 /\ x.val = [q.val EXCEPT ![i] = NoVal]
<1>1. i \in 0 .. n - 1 /\ n \in Nat /\ q.used \in Nat /\ q.used < n
  BY ArrayFields
<1>2. q \in TableOf(n)
  BY DEF Array
<1>3. x.key = [q.key EXCEPT ![i] = NullKey] /\ x.next = q.next /\ x.firstfree = q.firstfree
      /\ x.used = q.used - 1 /\ x.val = [q.val EXCEPT ![i] = NoVal] /\ x.size = n
  BY <1>1, <1>2 DEF TableOf, EmptyAt
<1>4. DOMAIN x = {"size", "firstfree", "used", "key", "val", "next"} /\ x = [y \in DOMAIN x |-> x[y]]
  BY <1>2 DEF TableOf, EmptyAt
<1>5. /\ q.key \in [0 .. n - 1 -> Key \cup {NullKey}] /\ q.val \in [0 .. n - 1 -> Val \cup {NoVal}]
      /\ q.next \in [0 .. n - 1 -> (0 .. n - 1) \cup {Nil}] /\ q.firstfree \in 0 .. n - 1
  BY <1>2 DEF TableOf
<1>6. x.val \in [0 .. n - 1 -> Val \cup {NoVal}]
  BY <1>1, <1>3, <1>5
<1>7. x.key \in [0 .. n - 1 -> Key \cup {NullKey}]
  BY <1>1, <1>3, <1>5
<1>a. x.next \in [0 .. n - 1 -> (0 .. n - 1) \cup {Nil}]
  BY <1>3, <1>5
<1>9. x.used \in 0 .. n - 1 /\ x.firstfree \in 0 .. n - 1 /\ x.size = n
  <2>1. x.used = q.used - 1 /\ q.used >= 1
    BY <1>3
  <2>2. x.used \in 0 .. n - 1
    BY ONLY <2>1, <1>1
  <2> QED
    BY <2>2, <1>3, <1>5
<1>8. x \in TableOf(n)
  BY ONLY <1>4, <1>6, <1>7, <1>a, <1>9 DEF TableOf
<1> QED
  BY <1>3, <1>8 DEF Array

(* A removed node stays a link of its chain.                               *)
LEMMA EmptyGood ==
  ASSUME NEW tab, NEW n, Good(tab, n), NEW i \in Nodes(tab), tab.key[i] # NullKey,
         NEW x, x = EmptyAt(tab, i)
  PROVE  /\ Good(x, n) /\ \A j \in Nodes(tab) : x.key[j] = IF j = i THEN NullKey ELSE tab.key[j]
         /\ \A k \in Key : \A v : Holds(x, k, v) <=> k # tab.key[i] /\ Holds(tab, k, v)
<1>1. Array(tab, n) /\ Distinct(tab) /\ tab.used = Cardinality(Taken(tab))
  BY GoodFind DEF Good
<1>2. tab.key \in [Nodes(tab) -> Key \cup {NullKey}] /\ tab.val \in [Nodes(tab) -> Val \cup {NoVal}]
      /\ tab.used \in Nat /\ NullKey \notin Key /\ tab.firstfree \in Nodes(tab)
  BY <1>1, ArrayFields
<1>3. i \in Taken(tab)
  BY DEF Taken
<1>4. IsFiniteSet(Taken(tab)) /\ Cardinality(Taken(tab) \ {i}) = tab.used - 1
  BY <1>1, <1>3, TakenFinite, FS_RemoveElement
<1>5. tab.used >= 1
  <2>1. Cardinality(Taken(tab) \ {i}) \in Nat
    BY <1>4, FS_Subset, FS_CardinalityType
  <2> QED
    BY <2>1, <1>2, <1>4
<1>6. /\ Array(x, n) /\ x.key = [tab.key EXCEPT ![i] = NullKey] /\ x.next = tab.next
      /\ x.firstfree = tab.firstfree /\ x.used = tab.used - 1 /\ x.val = [tab.val EXCEPT ![i] = NoVal]
  BY <1>1, <1>5, EmptyFields
<1>7. \A j \in Nodes(tab) : x.key[j] = IF j = i THEN NullKey ELSE tab.key[j]
  BY <1>2, <1>6
<1>8. \A j \in Nodes(tab) : j # i => x.val[j] = tab.val[j]
  BY <1>2, <1>6
<1>9. Nodes(x) = Nodes(tab) /\ \A k : Main(x, k) = Main(tab, k)
  <2>1. Array(x, n) /\ Array(tab, n)
    BY <1>1, <1>6
  <2>2. x.size = n /\ tab.size = n
    BY ONLY <2>1, ArrayFields
  <2> QED
    BY ONLY <2>2, SameSize
<1>10. Taken(x) = Taken(tab) \ {i}
  BY <1>7, <1>9 DEF Taken
<1>11. PICK c, r : Laid(tab, tab.firstfree, c, r)
  BY DEF Good
<1>12. Laid(x, x.firstfree, c, r)
  <2>1. Chained(x, c, r)
    <3>1. Descends(x, c, r) /\ SkipsNone(x, c, r) /\ Ordered(x, c, r)
      BY <1>6, <1>9, <1>11 DEF Laid, Chained, Descends, SkipsNone, Ordered
    <3>2. Homed(x, c, r)
      BY <1>7, <1>9, <1>11 DEF Laid, Chained, Homed
    <3> QED
      BY <3>1, <3>2, <1>9, <1>11 DEF Laid, Chained
  <2>2. Alone(x, tab.firstfree, c)
    BY <1>6, <1>9, <1>11 DEF Laid, Alone
  <2>3. Native(x, tab.firstfree)
    BY <1>7, <1>9, <1>11 DEF Laid, Native
  <2>4. Pure(x)
    <3> SUFFICES ASSUME NEW j \in Nodes(tab), x.key[j] # NullKey, x.key[Main(tab, x.key[j])] # NullKey
                 PROVE  Main(tab, x.key[Main(tab, x.key[j])]) = Main(tab, x.key[j])
      BY <1>9 DEF Pure
    <3>1. x.key[j] = tab.key[j] /\ tab.key[j] # NullKey /\ tab.key[j] \in Key \cup {NullKey}
      BY <1>7, <1>2
    <3>2. Main(tab, tab.key[j]) \in Nodes(tab)
      BY <3>1, <1>1, MainIsNode
    <3>3. x.key[Main(tab, tab.key[j])] = tab.key[Main(tab, tab.key[j])]
      BY <3>1, <3>2, <1>7
    <3> QED
      BY <3>1, <3>3, <1>11 DEF Laid, Pure
  <2>5. Distinct(x)
    BY <1>1, <1>7, <1>9 DEF Distinct
  <2> QED
    BY <2>1, <2>2, <2>3, <2>4, <2>5, <1>6 DEF Laid
<1>13. Good(x, n)
  BY <1>2, <1>4, <1>6, <1>7, <1>10, <1>12 DEF Good
<1>14. ASSUME NEW k \in Key, NEW v PROVE Holds(x, k, v) <=> k # tab.key[i] /\ Holds(tab, k, v)
  <2>1. \A j \in Nodes(tab) : x.key[j] = k <=> j # i /\ tab.key[j] = k
    BY <1>2, <1>7
  <2>2. \A j \in Nodes(tab) : tab.key[j] = tab.key[i] => j = i
    BY <1>1 DEF Distinct
  <2>3. CASE k = tab.key[i]
    BY <2>1, <2>2, <2>3, <1>9 DEF Holds
  <2>4. CASE k # tab.key[i]
    BY <2>1, <2>4, <1>8, <1>9 DEF Holds
  <2> QED
    BY <2>3, <2>4
<1> QED
  BY <1>7, <1>13, <1>14

(* Removing a key removes its slot only, and moves no key unless the array *)
(* is reallocated.                                                         *)
LEMMA RemoveWorks ==
  ASSUME NEW tab, NEW n, IsSize(n), Good(tab, n), NEW k \in Key, ~Absent(tab, k),
         NEW x, x = Remove(tab, k)
  PROVE  /\ \E m : IsSize(m) /\ Good(x, m)
         /\ \A y \in Key : \A w : Holds(x, y, w) <=> y # k /\ Holds(tab, y, w)
         /\ x.size = tab.size =>
               \A j \in Nodes(tab) : x.key[j] = IF tab.key[j] = k THEN NullKey ELSE tab.key[j]
<1> DEFINE i == Find(tab, k)  y == EmptyAt(tab, i)
<1>1. i \in Nodes(tab) /\ tab.key[i] = k /\ k # NullKey
  BY GoodFind, ArrayFields
<1>2. \A j \in Nodes(tab) : tab.key[j] = k => j = i
  BY <1>1, GoodFind DEF Distinct
<1>3. x = Rehash(y, FALSE)
  BY DEF Remove, EmptyAt
<1> HIDE DEF i
<1>4. /\ Good(y, n) /\ \A j \in Nodes(tab) : y.key[j] = IF j = i THEN NullKey ELSE tab.key[j]
      /\ \A z \in Key : \A v : Holds(y, z, v) <=> z # k /\ Holds(tab, z, v)
  BY <1>1, EmptyGood
<1> HIDE DEF y
<1>5. Array(y, n) /\ Distinct(y) /\ Cardinality(Taken(y)) <= y.used + 1
  BY <1>4, GoodFind, TakenFinite DEF Good
<1>6. \/ x = y
      \/ \E m : IsSize(m) /\ m # n /\ Good(x, m) /\ Same(x, y)
  BY <1>3, <1>5, RehashWorks
<1>7. CASE x = y
  BY <1>1, <1>2, <1>4, <1>7
<1>8. CASE \E m : IsSize(m) /\ m # n /\ Good(x, m) /\ Same(x, y)
  <2>1. PICK m : IsSize(m) /\ m # n /\ Good(x, m) /\ Same(x, y)
    BY <1>8
  <2>2. x.size = m /\ tab.size = n
    BY <2>1, ArrayFields DEF Good
  <2> QED
    BY <2>1, <2>2, <1>4 DEF Same
<1> QED
  BY <1>6, <1>7, <1>8
-----------------------------------------------------------------------------
(* What Clear hands to the reallocation.                                   *)
Emptied(tab) ==
    [tab EXCEPT !.key = [i \in Nodes(tab) |-> NullKey], !.val = [i \in Nodes(tab) |-> NoVal], !.used = 0]

(* The arrays after it.                                                    *)
LEMMA EmptiedFields ==
  ASSUME NEW q, NEW n, Array(q, n), NEW x, x = Emptied(q)
  PROVE  Array(x, n) /\ x.used = 0 /\ Nodes(x) = Nodes(q) /\ \A i \in Nodes(q) : x.key[i] = NullKey
<1>1. n \in Nat /\ n >= 4 /\ q.size = n /\ Nodes(q) = 0 .. n - 1
  BY ArrayFields
<1>2. q \in TableOf(n)
  BY DEF Array
<1>3. x.key = [i \in Nodes(q) |-> NullKey] /\ x.val = [i \in Nodes(q) |-> NoVal] /\ x.used = 0
      /\ x.next = q.next /\ x.firstfree = q.firstfree /\ x.size = n
  BY <1>1, <1>2 DEF TableOf, Emptied
<1>4. DOMAIN x = {"size", "firstfree", "used", "key", "val", "next"} /\ x = [y \in DOMAIN x |-> x[y]]
  BY <1>2 DEF TableOf, Emptied
<1>5. q.next \in [0 .. n - 1 -> (0 .. n - 1) \cup {Nil}] /\ q.firstfree \in 0 .. n - 1
  BY <1>2 DEF TableOf
<1>6. x.key \in [0 .. n - 1 -> Key \cup {NullKey}] /\ x.val \in [0 .. n - 1 -> Val \cup {NoVal}]
  BY <1>1, <1>3
<1>7. 0 \in 0 .. n - 1
  BY <1>1
<1>8. x \in TableOf(n)
  BY ONLY <1>3, <1>4, <1>5, <1>6, <1>7 DEF TableOf
<1>9. Nodes(x) = Nodes(q)
  BY <1>1, <1>3 DEF Nodes
<1> QED
  BY <1>1, <1>2, <1>3, <1>8, <1>9 DEF Array

(* A cleared table holds nothing.                                          *)
LEMMA ClearWorks ==
  ASSUME NEW tab, NEW n, IsSize(n), Good(tab, n), NEW x, x = Rehash(Emptied(tab), TRUE)
  PROVE  /\ \E m : IsSize(m) /\ Good(x, m)
         /\ \A k \in Key : \A v : ~Holds(x, k, v)
<1> DEFINE y == Emptied(tab)
<1>1. Array(tab, n) /\ NullKey \notin Key
  BY GoodFind, ArrayFields
<1>2. Array(y, n) /\ y.used = 0 /\ Nodes(y) = Nodes(tab) /\ \A i \in Nodes(tab) : y.key[i] = NullKey
  BY <1>1, EmptiedFields
<1>3. x = Rehash(y, TRUE)
  OBVIOUS
<1> HIDE DEF y
<1>4. Taken(y) = {} /\ Distinct(y)
  BY <1>2 DEF Taken, Distinct
<1>5. Cardinality(Taken(y)) <= y.used + 1
  BY <1>2, <1>4, FS_EmptySet
<1>6. PICK m : IsSize(m) /\ Good(x, m) /\ Same(x, y)
  BY <1>2, <1>3, <1>4, <1>5, RehashWorks
<1>7. \A k \in Key : \A v : ~Holds(y, k, v)
  BY <1>1, <1>2 DEF Holds
<1> QED
  BY <1>6, <1>7 DEF Same

(* The clone has the slots of the table.                                   *)
LEMMA CloneWorks ==
  ASSUME NEW tab, NEW n, IsSize(n), Good(tab, n), NEW x, x = InsertAll(tab, AllocNodes(tab.size))
  PROVE  (\E m : IsSize(m) /\ Good(x, m)) /\ Same(x, tab)
<1>1. Array(tab, n) /\ Distinct(tab) /\ tab.used = Cardinality(Taken(tab))
  BY GoodFind DEF Good
<1>2. tab.size = n /\ n \in Nat /\ n >= MinPower2 /\ tab.used < n
  BY <1>1, ArrayFields DEF Array
<1>3. Good(x, n) /\ \A k \in Key : \A v : Holds(x, k, v) <=> Holds(tab, k, v)
  BY <1>1, <1>2, InsertAllWorks
<1> QED
  BY <1>3 DEF Same
-----------------------------------------------------------------------------
(* The steps of the table.                                                 *)
Fits(tab) == \E n : IsSize(n) /\ Good(tab, n)
(* The values of slots are integers of the machine.                        *)
Valued(tab) == \A k \in Key : \A v : Holds(tab, k, v) => v \in Val

(* The keys behind the position of a foreach are those it has seen.        *)
Toured(tab, lp) ==
    lp.at # Nil => \A i \in Nodes(tab) : tab.key[i] # NullKey => (tab.key[i] \in lp.seen <=> i < lp.at)

(* What res and loop may be.                                               *)
Answers == [ok : BOOLEAN, val : Val \cup {NoVal}]
Tours == [at : Nat \cup {Nil}, seen : SUBSET Key]

(* The invariant: the table is well laid, and a foreach has seen what is   *)
(* behind it.                                                              *)
IInv ==
    /\ Fits(t) /\ Valued(t)
    /\ res \in Answers /\ loop \in Tours
    /\ Toured(t, loop)

(* What the functions of the table return in a table that fits.            *)
LEMMA FitsFind ==
  ASSUME NEW tab, Fits(tab)
  PROVE  /\ IsSize(tab.size) /\ Array(tab, tab.size) /\ Good(tab, tab.size) /\ Distinct(tab)
         /\ NullKey \notin Key /\ Nil \notin Nodes(tab)
         /\ tab.key \in [Nodes(tab) -> Key \cup {NullKey}]
         /\ tab.val \in [Nodes(tab) -> Val \cup {NoVal}]
         /\ Nodes(tab) \subseteq Nat
         /\ \A k \in Key \cup {NullKey} :
               Find(tab, k) \in Nodes(tab) \cup {Nil} /\ (Find(tab, k) # Nil => tab.key[Find(tab, k)] = k)
         /\ \A i \in Nodes(tab) : tab.key[i] # NullKey => Find(tab, tab.key[i]) = i
         /\ \A k \in Key : Find(tab, k) = Nil <=> Absent(tab, k)
<1>1. PICK n : IsSize(n) /\ Good(tab, n)
  BY DEF Fits
<1>2. Array(tab, n) /\ tab.size = n
  BY <1>1, ArrayFields DEF Good
<1>3. NullKey \notin Key /\ Nil \notin Nodes(tab) /\ Nodes(tab) \subseteq Nat
      /\ tab.key \in [Nodes(tab) -> Key \cup {NullKey}] /\ tab.val \in [Nodes(tab) -> Val \cup {NoVal}]
  BY <1>2, ArrayFields
<1>4. /\ Distinct(tab)
      /\ \A k \in Key \cup {NullKey} :
            Find(tab, k) \in Nodes(tab) \cup {Nil} /\ (Find(tab, k) # Nil => tab.key[Find(tab, k)] = k)
      /\ \A i \in Nodes(tab) : tab.key[i] # NullKey => Find(tab, tab.key[i]) = i
      /\ \A k \in Key : Find(tab, k) = Nil <=> Absent(tab, k)
  BY <1>1, GoodFind
<1> QED
  BY <1>1, <1>2, <1>3, <1>4

(* A key is in the array when it holds a value.                            *)
LEMMA HoldsFound ==
  ASSUME NEW tab, Fits(tab), NEW k \in Key
  PROVE  \A v : Holds(tab, k, v) <=> Find(tab, k) # Nil /\ tab.val[Find(tab, k)] = v
<1>1. Find(tab, k) \in Nodes(tab) \cup {Nil} /\ (Find(tab, k) # Nil => tab.key[Find(tab, k)] = k)
      /\ Nil \notin Nodes(tab) /\ k # NullKey
  BY FitsFind
<1>2. \A i \in Nodes(tab) : tab.key[i] = k => Find(tab, k) = i
  BY <1>1, FitsFind
<1> QED
  BY <1>1, <1>2 DEF Holds

(* Has: there is a slot.                                                   *)
LEMMA HasHolds ==
  ASSUME NEW tab, Fits(tab), NEW k \in Key \cup {NullKey}
  PROVE  /\ Has(tab, k) => k \in Key /\ Find(tab, k) \in Nodes(tab) /\ tab.key[Find(tab, k)] = k
                           /\ Holds(tab, k, tab.val[Find(tab, k)])
         /\ Has(tab, k) <=> k \in Key /\ Find(tab, k) # Nil
         /\ k \in Key => (Has(tab, k) <=> ~Absent(tab, k))
<1>1. Find(tab, k) \in Nodes(tab) \cup {Nil} /\ (Find(tab, k) # Nil => tab.key[Find(tab, k)] = k)
      /\ NullKey \notin Key /\ (k \in Key => (Find(tab, k) = Nil <=> Absent(tab, k)))
  BY FitsFind
<1>2. k \in Key => \A v : Holds(tab, k, v) <=> Find(tab, k) # Nil /\ tab.val[Find(tab, k)] = v
  BY HoldsFound
<1> QED
  BY <1>1, <1>2 DEF Has
-----------------------------------------------------------------------------
(* What the calls make of the slots.                                       *)
Puts(x, tab, k, v) == \A y \in Key : \A w : Holds(x, y, w) <=> IF y = k THEN w = v ELSE Holds(tab, y, w)
Drops(x, tab, k) == \A y \in Key : \A w : Holds(x, y, w) <=> y # k /\ Holds(tab, y, w)

(* No key is at a node it was not at: a foreach may go on.                 *)
Keeps(x, tab) ==
    x.size = tab.size /\ \A j \in Nodes(tab) : x.key[j] # NullKey => x.key[j] = tab.key[j]

(* What becomes of a foreach.                                              *)
Goes(x, tab, lp1, lp) == lp1 = NoLoop \/ (lp1 = lp /\ Keeps(x, tab))

(* Storing a value at a node.                                              *)
LEMMA StoreStep ==
  ASSUME NEW tab, Fits(tab), NEW i \in Nodes(tab), NEW v \in Val, NEW x, x = Store(tab, i, v)
  PROVE  /\ Fits(x) /\ Keeps(x, tab)
         /\ IF tab.key[i] = NullKey THEN Same(x, tab) ELSE Puts(x, tab, tab.key[i], v)
<1>1. Good(tab, tab.size) /\ IsSize(tab.size) /\ NullKey \notin Key
  BY FitsFind
<1>2. Good(x, tab.size) /\ x.key = tab.key
      /\ \A k \in Key : \A w : Holds(x, k, w) <=> IF k = tab.key[i] THEN w = v ELSE Holds(tab, k, w)
  BY <1>1, StoreGood
<1>3. x.size = tab.size
  BY <1>2, ArrayFields DEF Good
<1>4. Fits(x) /\ Keeps(x, tab)
  BY <1>1, <1>2, <1>3 DEF Fits, Keeps
<1>5. CASE tab.key[i] = NullKey
  BY <1>1, <1>2, <1>4, <1>5 DEF Same
<1>6. CASE tab.key[i] # NullKey
  BY <1>2, <1>4, <1>6 DEF Puts
<1> QED
  BY <1>5, <1>6

(* Each call of the script: what it makes of the slots, its answer, and    *)
(* what becomes of a foreach.                                              *)
LEMMA SetStep ==
  ASSUME IInv, NEW k \in Key \cup {NullKey}, NEW v \in Val, Set(k, v)
  PROVE  /\ Fits(t') /\ res' \in {Silent, Refused} /\ Goes(t', t, loop', loop)
         /\ \/ k \in Key /\ ~Absent(t, k) /\ res' = Silent /\ Puts(t', t, k, v)
            \/ k \in Key /\ Absent(t, k) /\ res' = Refused /\ t' = t
            \/ k = NullKey /\ res' = Silent /\ Same(t', t)
            \/ k = NullKey /\ res' = Refused /\ t' = t
<1> DEFINE n == Find(t, k)
<1>1. Fits(t) /\ n \in Nodes(t) \cup {Nil} /\ (n # Nil => t.key[n] = k) /\ NullKey \notin Key
      /\ (k \in Key => (n = Nil <=> Absent(t, k)))
  BY FitsFind DEF IInv
<1>2. CASE n = Nil
  <2>1. res' = Refused /\ t' = t /\ loop' = loop
    BY <1>2 DEF Set
  <2>2. Keeps(t', t)
    BY <2>1 DEF Keeps
  <2> QED
    BY <1>1, <1>2, <2>1, <2>2 DEF Goes
<1>3. CASE n # Nil
  <2>1. res' = Silent /\ loop' = loop /\ t' = Store(t, n, v)
    BY <1>3 DEF Set, Becomes, Store
  <2>2. n \in Nodes(t) /\ t.key[n] = k
    BY <1>1, <1>3
  <2> HIDE DEF n
  <2>3. Fits(t') /\ Keeps(t', t) /\ IF k = NullKey THEN Same(t', t) ELSE Puts(t', t, k, v)
    BY <1>1, <2>1, <2>2, StoreStep
  <2> QED
    BY <1>1, <1>3, <2>1, <2>3 DEF Goes
<1> QED
  BY <1>2, <1>3

(* A new slot, of a key that has one too.                                  *)
LEMMA NewSlotInStep ==
  ASSUME NEW tab, Fits(tab), NEW k \in Key, NEW v \in Val, NEW x, x = NewSlotIn(tab, k, v)
  PROVE  Fits(x) /\ Puts(x, tab, k, v) /\ (~Absent(tab, k) => Keeps(x, tab))
<1>1. Good(tab, tab.size) /\ IsSize(tab.size)
  BY FitsFind
<1>2. /\ \E m : IsSize(m) /\ Good(x, m)
      /\ \A y \in Key : \A w : Holds(x, y, w) <=> IF y = k THEN w = v ELSE Holds(tab, y, w)
      /\ ~Absent(tab, k) => x.key = tab.key /\ x.size = tab.size
  BY <1>1, NewSlotInWorks
<1> QED
  BY <1>2 DEF Fits, Puts, Keeps

LEMMA NewSlotStep ==
  ASSUME IInv, NEW k \in Key, NEW v \in Val, NewSlot(k, v)
  PROVE  /\ Fits(t') /\ Goes(t', t, loop', loop) /\ Puts(t', t, k, v)
         /\ \/ res' = Refused
            \/ res' = Silent /\ Absent(t, k)
<1>1. Fits(t) /\ (Has(t, k) <=> ~Absent(t, k)) /\ (Find(t, k) = Nil <=> Absent(t, k))
  BY FitsFind, HasHolds DEF IInv
<1>2. t' = NewSlotIn(t, k, v) /\ loop' = IF Has(t, k) THEN loop ELSE NoLoop
  BY DEF NewSlot, Becomes, Disturbs
<1>3. Fits(t') /\ Puts(t', t, k, v) /\ (~Absent(t, k) => Keeps(t', t))
  BY <1>1, <1>2, NewSlotInStep
<1>4. res' = Answer(Creates(t, k), NoVal) /\ Creates(t, k) \in BOOLEAN /\ (Creates(t, k) => Absent(t, k))
  BY <1>1 DEF NewSlot, Creates
<1>5. res' = Refused \/ (res' = Silent /\ Absent(t, k))
  <2>1. CASE Creates(t, k) = TRUE
    BY <1>4, <2>1 DEF Silent
  <2>2. CASE Creates(t, k) = FALSE
    BY <1>4, <2>2 DEF Refused
  <2> QED
    BY <1>4, <2>1, <2>2
<1> QED
  BY <1>1, <1>2, <1>3, <1>5 DEF Goes

(* Arithmetic stays within the integers of the machine.                    *)
LEMMA SumsAreValues ==
  \A a, b \in Val : (a + b) % 2^Width \in Val
<1> DEFINE W == 2^Width
<1>1. W \in Nat /\ W > 0
  BY Words
<1>2. Val = 0 .. W - 1
  BY DEF Val
<1> HIDE DEF W
<1>3. \A a, b \in 0 .. W - 1 : (a + b) % W \in 0 .. W - 1
  BY ONLY <1>1, Z3
<1> QED
  BY <1>2, <1>3 DEF W

LEMMA IncNumStep ==
  ASSUME IInv, NEW k \in Key, NEW v \in Val, NEW addMissing \in BOOLEAN, IncNum(k, v, addMissing)
  PROVE  /\ Fits(t') /\ Goes(t', t, loop', loop)
         /\ \/ ~Absent(t, k) /\ res' = Silent
               /\ \E w \in Val : Holds(t, k, w) /\ Puts(t', t, k, (w + v) % 2^Width)
            \/ Absent(t, k) /\ addMissing /\ res' = Silent /\ Puts(t', t, k, v)
            \/ Absent(t, k) /\ ~addMissing /\ res' = Refused /\ t' = t
<1> DEFINE n == Find(t, k)
<1>1. Fits(t) /\ n \in Nodes(t) \cup {Nil} /\ (n # Nil => t.key[n] = k) /\ NullKey \notin Key
      /\ (n = Nil <=> Absent(t, k)) /\ Nil \notin Nodes(t)
      /\ t \in TableOf(t.size) /\ Nodes(t) = 0 .. t.size - 1
  BY FitsFind DEF IInv, Array, Nodes
<1>2. CASE n # Nil
  <2>1. n \in Nodes(t) /\ t.key[n] = k /\ k # NullKey
    BY <1>1, <1>2
  <2> DEFINE w == t.val[n]  s == (w + v) % 2^Width
  <2>2. Holds(t, k, w)
    BY <2>1 DEF Holds
  <2>3. w \in Val
    BY <2>2 DEF IInv, Valued
  <2>4. s \in Val
    BY <2>3, SumsAreValues
  <2>5. res' = Silent /\ loop' = loop /\ t' = [t EXCEPT !.val[n] = (@ + v) % 2^Width]
    BY <1>2 DEF IncNum, Becomes
  <2>6. t' = Store(t, n, s)
    <3>1. t.val \in [Nodes(t) -> Val \cup {NoVal}] /\ n \in DOMAIN t.val /\ "val" \in DOMAIN t
      BY <1>1, <2>1, FitsFind DEF TableOf
    <3>2. [t EXCEPT !.val[n] = (@ + v) % 2^Width] = [t EXCEPT !.val[n] = s]
      BY <3>1, Zenon DEF s, w
    <3> QED
      BY <2>5, <3>2 DEF Store
  <2> HIDE DEF n, s
  <2>7. Fits(t') /\ Keeps(t', t) /\ Puts(t', t, k, s)
    BY <1>1, <2>1, <2>4, <2>6, StoreStep
  <2> QED
    BY <1>1, <1>2, <2>2, <2>3, <2>5, <2>7 DEF Goes, s
<1>3. CASE n = Nil /\ addMissing
  <2>1. res' = Silent /\ loop' = NoLoop /\ t' = NewSlotIn(t, k, v)
    BY <1>3 DEF IncNum, Disturbs
  <2>2. Fits(t') /\ Puts(t', t, k, v)
    BY <1>1, <2>1, NewSlotInStep
  <2> QED
    BY <1>1, <1>3, <2>1, <2>2 DEF Goes
<1>4. CASE n = Nil /\ ~addMissing
  <2>1. res' = Refused /\ t' = t /\ loop' = loop
    BY <1>4 DEF IncNum
  <2>2. Keeps(t', t)
    BY <2>1 DEF Keeps
  <2> QED
    BY <1>1, <1>4, <2>1, <2>2 DEF Goes
<1> QED
  BY <1>2, <1>3, <1>4

LEMMA DeleteSlotStep ==
  ASSUME IInv, NEW k \in Key \cup {NullKey}, DeleteSlot(k)
  PROVE  /\ Fits(t') /\ Goes(t', t, loop', loop)
         /\ \/ k \in Key /\ ~Absent(t, k) /\ Drops(t', t, k)
               /\ \E w \in Val : Holds(t, k, w) /\ res' = Answer(TRUE, w)
            \/ (k = NullKey \/ Absent(t, k)) /\ res' = Refused /\ t' = t
<1>1. Fits(t) /\ Valued(t) /\ Good(t, t.size) /\ IsSize(t.size) /\ t.key \in [Nodes(t) -> Key \cup {NullKey}]
  BY FitsFind DEF IInv
<1>2. CASE ~Has(t, k)
  <2>1. res' = Refused /\ t' = t /\ loop' = loop
    BY <1>2 DEF DeleteSlot
  <2>2. Keeps(t', t)
    BY <2>1 DEF Keeps
  <2>3. k = NullKey \/ Absent(t, k)
    BY <1>1, <1>2, HasHolds
  <2> QED
    BY <1>1, <2>1, <2>2, <2>3 DEF Goes
<1>3. CASE Has(t, k)
  <2> DEFINE w == t.val[Find(t, k)]
  <2>1. k \in Key /\ ~Absent(t, k) /\ Holds(t, k, w) /\ k # NullKey
    BY <1>1, <1>3, HasHolds, FitsFind
  <2>2. w \in Val
    BY <1>1, <2>1 DEF Valued
  <2>3. res' = Answer(TRUE, w) /\ t' = Remove(t, k) /\ loop' = IF t'.size = t.size THEN loop ELSE NoLoop
    BY <1>3 DEF DeleteSlot, Becomes, Disturbs
  <2> HIDE DEF w
  <2>4. /\ \E m : IsSize(m) /\ Good(t', m)
        /\ \A y \in Key : \A z : Holds(t', y, z) <=> y # k /\ Holds(t, y, z)
        /\ t'.size = t.size => \A j \in Nodes(t) : t'.key[j] = IF t.key[j] = k THEN NullKey ELSE t.key[j]
    BY <1>1, <2>1, <2>3, RemoveWorks
  <2>5. Fits(t') /\ Drops(t', t, k)
    BY <2>4 DEF Fits, Drops
  <2>6. t'.size = t.size => Keeps(t', t)
    BY <2>4 DEF Keeps
  <2> QED
    BY <2>1, <2>2, <2>3, <2>5, <2>6 DEF Goes
<1> QED
  BY <1>2, <1>3

LEMMA ClearStep ==
  ASSUME IInv, Clear
  PROVE  Fits(t') /\ Goes(t', t, loop', loop) /\ res' = Silent /\ \A k \in Key : \A v : ~Holds(t', k, v)
<1>1. Good(t, t.size) /\ IsSize(t.size)
  BY FitsFind DEF IInv
<1>2. t' = Rehash(Emptied(t), TRUE) /\ loop' = NoLoop /\ res' = Silent
  BY DEF Clear, Disturbs, Emptied
<1>3. (\E m : IsSize(m) /\ Good(t', m)) /\ \A k \in Key : \A v : ~Holds(t', k, v)
  BY <1>1, <1>2, ClearWorks
<1> QED
  BY <1>2, <1>3 DEF Fits, Goes

LEMMA CloneStep ==
  ASSUME IInv, Clone
  PROVE  Fits(t') /\ Goes(t', t, loop', loop) /\ res' = Silent /\ Same(t', t)
<1>1. Good(t, t.size) /\ IsSize(t.size)
  BY FitsFind DEF IInv
<1>2. t' = InsertAll(t, AllocNodes(t.size)) /\ loop' = NoLoop /\ res' = Silent
  BY DEF Clone
<1>3. (\E m : IsSize(m) /\ Good(t', m)) /\ Same(t', t)
  BY <1>1, <1>2, CloneWorks
<1> QED
  BY <1>2, <1>3 DEF Fits, Goes
-----------------------------------------------------------------------------
(* The invariant.                                                          *)
LEMMA InitEstablishes == Init => IInv
<1> SUFFICES ASSUME Init PROVE IInv
  OBVIOUS
<1>1. PICK n \in InitSize : t = AllocNodes(n)
  BY DEF Init
<1>2. IsSize(n) /\ n \in Nat /\ n >= MinPower2
  BY <1>1, Sizes DEF IsSize
<1>3. Good(t, n) /\ \A i \in Nodes(t) : t.key[i] = NullKey
  BY <1>1, <1>2, AllocGood
<1>4. NullKey \notin Key
  BY <1>3, ArrayFields DEF Good
<1>5. Fits(t) /\ Valued(t)
  BY <1>2, <1>3, <1>4 DEF Fits, Valued, Holds
<1>6. res \in Answers
  BY DEF Init, Silent, Answer, Answers
<1>7. loop = NoLoop /\ loop \in Tours /\ loop.at = Nil
  BY DEF Init, NoLoop, Tours
<1>8. Toured(t, loop)
  BY <1>7 DEF Toured
<1> QED
  BY <1>5, <1>6, <1>7, <1>8 DEF IInv

(* A foreach that goes on has seen what is behind it.                      *)
LEMMA TourGoesOn ==
  ASSUME IInv, Goes(t', t, loop', loop)
  PROVE  loop' \in Tours /\ Toured(t', loop')
<1>1. CASE loop' = NoLoop
  BY <1>1 DEF NoLoop, Tours, Toured
<1>2. CASE loop' = loop /\ Keeps(t', t)
  <2>1. loop' \in Tours /\ Toured(t, loop) /\ Nodes(t') = Nodes(t)
    BY <1>2 DEF IInv, Keeps, Nodes
  <2>2. \A j \in Nodes(t) : t'.key[j] # NullKey => t'.key[j] = t.key[j]
    BY <1>2 DEF Keeps
  <2> QED
    BY <1>2, <2>1, <2>2 DEF Toured
<1> QED
  BY <1>1, <1>2 DEF Goes

LEMMA AnswersAre ==
  Silent \in Answers /\ Refused \in Answers /\ \A w \in Val : Answer(TRUE, w) \in Answers
BY DEF Silent, Refused, Answer, Answers

(* Each call of the table.                                                 *)
LEMMA GetKeeps ==
  ASSUME IInv, NEW k \in Key \cup {NullKey}, Get(k)
  PROVE  IInv'
<1>1. t' = t /\ loop' = loop /\ res' = IF Has(t, k) THEN Answer(TRUE, t.val[Find(t, k)]) ELSE Refused
  BY DEF Get
<1>2. Has(t, k) => t.val[Find(t, k)] \in Val
  BY HasHolds DEF IInv, Valued
<1>3. res' \in Answers
  BY <1>1, <1>2, AnswersAre
<1> QED
  BY <1>1, <1>3 DEF IInv

LEMMA SetKeeps ==
  ASSUME IInv, NEW k \in Key \cup {NullKey}, NEW v \in Val, Set(k, v)
  PROVE  IInv'
<1>1. Fits(t') /\ res' \in Answers /\ loop' \in Tours /\ Toured(t', loop')
  BY SetStep, TourGoesOn, AnswersAre
<1>2. Valued(t')
  BY SetStep DEF IInv, Valued, Puts, Same
<1> QED
  BY <1>1, <1>2 DEF IInv

LEMMA NewSlotKeeps ==
  ASSUME IInv, NEW k \in Key, NEW v \in Val, NewSlot(k, v)
  PROVE  IInv'
<1>1. Fits(t') /\ res' \in Answers /\ loop' \in Tours /\ Toured(t', loop')
  BY NewSlotStep, TourGoesOn, AnswersAre
<1>2. Valued(t')
  BY NewSlotStep DEF IInv, Valued, Puts
<1> QED
  BY <1>1, <1>2 DEF IInv

LEMMA IncNumKeeps ==
  ASSUME IInv, NEW k \in Key, NEW v \in Val, NEW addMissing \in BOOLEAN, IncNum(k, v, addMissing)
  PROVE  IInv'
<1>1. Fits(t') /\ res' \in Answers /\ loop' \in Tours /\ Toured(t', loop')
  BY IncNumStep, TourGoesOn, AnswersAre
<1>2. Valued(t')
  BY IncNumStep, SumsAreValues DEF IInv, Valued, Puts
<1> QED
  BY <1>1, <1>2 DEF IInv

LEMMA DeleteSlotKeeps ==
  ASSUME IInv, NEW k \in Key \cup {NullKey}, DeleteSlot(k)
  PROVE  IInv'
<1>1. Fits(t') /\ loop' \in Tours /\ Toured(t', loop')
  BY DeleteSlotStep, TourGoesOn
<1>2. Valued(t')
  BY DeleteSlotStep DEF IInv, Valued, Drops
<1>3. res' \in Answers
  BY DeleteSlotStep, AnswersAre DEF IInv, Valued
<1> QED
  BY <1>1, <1>2, <1>3 DEF IInv

LEMMA ClearKeeps ==
  ASSUME IInv, Clear
  PROVE  IInv'
<1>1. Fits(t') /\ res' \in Answers /\ loop' \in Tours /\ Toured(t', loop') /\ Valued(t')
  BY ClearStep, TourGoesOn, AnswersAre DEF Valued
<1> QED
  BY <1>1 DEF IInv

LEMMA CloneKeeps ==
  ASSUME IInv, Clone
  PROVE  IInv'
<1>1. Fits(t') /\ res' \in Answers /\ loop' \in Tours /\ Toured(t', loop')
  BY CloneStep, TourGoesOn, AnswersAre
<1>2. Valued(t')
  BY CloneStep DEF IInv, Valued, Same
<1> QED
  BY <1>1, <1>2 DEF IInv

LEMMA ForeachKeeps ==
  ASSUME IInv, Foreach
  PROVE  IInv'
<1>1. t' = t /\ res' = res /\ loop' = [at |-> 0, seen |-> {}]
  BY DEF Foreach
<1>2. loop' \in Tours
  BY <1>1 DEF Tours
<1>3. Nodes(t) \subseteq Nat
  BY FitsFind DEF IInv
<1>4. Toured(t', loop')
  <2>1. \A i \in Nodes(t) : ~(i < 0)
    BY <1>3
  <2> QED
    BY <1>1, <2>1 DEF Toured
<1> QED
  BY <1>1, <1>2, <1>4 DEF IInv

(* Min is over the nodes that are left.                                    *)
LEMMA NextVisited ==
  ASSUME IInv, Ahead # {}, NEW i, i = Min(Ahead)
  PROVE  i \in Ahead /\ \A j \in Ahead : i <= j
<1>1. Ahead \in SUBSET Nat
  BY FitsFind DEF IInv, Ahead
<1>2. PICK m \in Ahead : \A j \in Ahead : m <= j
  BY <1>1, LeastNumber
<1>3. i = CHOOSE x \in Ahead : \A y \in Ahead : x <= y
  BY DEF Min
<1> QED
  BY <1>2, <1>3

(* A visit is to the first key that is left, which was not seen.           *)
LEMMA VisitStep ==
  ASSUME IInv, Visit
  PROVE  /\ t' = t /\ res' = res /\ loop.at \in Nat /\ loop.seen \in SUBSET Key
         /\ \E i \in Nodes(t) :
               /\ i >= loop.at /\ t.key[i] # NullKey /\ t.key[i] \in Key /\ t.key[i] \notin loop.seen
               /\ \A j \in Nodes(t) : j >= loop.at /\ t.key[j] # NullKey => i <= j
               /\ loop' = [at |-> i + 1, seen |-> loop.seen \cup {t.key[i]}]
<1> DEFINE i == Min(Ahead)
<1>1. Ahead # {} /\ loop.at # Nil /\ t' = t /\ res' = res
      /\ loop' = [at |-> i + 1, seen |-> loop.seen \cup {t.key[i]}]
  BY DEF Visit
<1>2. i \in Ahead /\ \A j \in Ahead : i <= j
  BY <1>1, NextVisited
<1> HIDE DEF i
<1>3. loop.at \in Nat /\ loop.seen \in SUBSET Key
  BY <1>1 DEF IInv, Tours
<1>4. i \in Nodes(t) /\ i >= loop.at /\ t.key[i] # NullKey
      /\ \A j \in Nodes(t) : j >= loop.at /\ t.key[j] # NullKey => i <= j
  BY <1>2 DEF Ahead
<1>5. t.key[i] \in Key
  BY <1>4, FitsFind DEF IInv
<1>6. t.key[i] \notin loop.seen
  <2>1. t.key[i] \in loop.seen <=> i < loop.at
    BY <1>1, <1>4 DEF IInv, Toured
  <2>2. i \in Nat
    BY <1>4, FitsFind DEF IInv
  <2> QED
    BY <2>1, <2>2, <1>3, <1>4
<1> QED
  BY <1>1, <1>3, <1>4, <1>5, <1>6

LEMMA VisitKeeps ==
  ASSUME IInv, Visit
  PROVE  IInv'
<1>1. t' = t /\ res' = res /\ loop.at \in Nat /\ loop.seen \in SUBSET Key
  BY VisitStep
<1>2. PICK i \in Nodes(t) :
         /\ i >= loop.at /\ t.key[i] # NullKey /\ t.key[i] \in Key /\ t.key[i] \notin loop.seen
         /\ \A j \in Nodes(t) : j >= loop.at /\ t.key[j] # NullKey => i <= j
         /\ loop' = [at |-> i + 1, seen |-> loop.seen \cup {t.key[i]}]
  BY VisitStep
<1>3. Nodes(t) \subseteq Nat /\ Distinct(t)
  BY FitsFind DEF IInv
<1>4. i \in Nat /\ loop'.at = i + 1 /\ loop'.seen = loop.seen \cup {t.key[i]}
  BY <1>2, <1>3
<1>5. loop' \in Tours
  <2>1. i + 1 \in Nat \cup {Nil} /\ loop.seen \cup {t.key[i]} \in SUBSET Key
    BY <1>1, <1>2, <1>4
  <2> QED
    BY <1>2, <2>1 DEF Tours
<1>6. Nil \notin Nat
  BY KeysAreNumbers
<1>7. ASSUME NEW j \in Nodes(t), t.key[j] # NullKey
      PROVE  t.key[j] \in loop'.seen <=> j < loop'.at
  <2>1. t.key[j] \in loop.seen <=> j < loop.at
    BY <1>1, <1>6, <1>7 DEF IInv, Toured
  <2>2. t.key[j] = t.key[i] <=> j = i
    BY <1>3, <1>7 DEF Distinct
  <2>3. j >= loop.at => i <= j
    BY <1>2, <1>7
  <2>4. j \in Nat
    BY <1>3
  <2>5. j < i + 1 <=> j < loop.at \/ j = i
    BY <1>1, <1>2, <1>4, <2>3, <2>4
  <2> QED
    BY <1>4, <2>1, <2>2, <2>5
<1>8. Toured(t', loop')
  BY <1>1, <1>7 DEF Toured
<1> QED
  BY <1>1, <1>5, <1>8 DEF IInv

LEMMA DoneKeeps ==
  ASSUME IInv, Done
  PROVE  IInv'
<1>1. t' = t /\ res' = res /\ loop' = NoLoop
  BY DEF Done
<1>2. loop' \in Tours /\ Toured(t', loop')
  BY <1>1 DEF NoLoop, Tours, Toured
<1> QED
  BY <1>1, <1>2 DEF IInv

(* Every step keeps the invariant.                                         *)
LEMMA StepKeeps == IInv /\ [Next]_vars => IInv'
<1> SUFFICES ASSUME IInv, [Next]_vars PROVE IInv'
  OBVIOUS
<1>1. CASE UNCHANGED vars
  BY <1>1 DEF IInv, vars
<1>2. ASSUME NEW k \in Key \cup {NullKey}, Get(k) \/ DeleteSlot(k) \/ \E v \in Val : Set(k, v)
      PROVE  IInv'
  BY <1>2, GetKeeps, DeleteSlotKeeps, SetKeeps
<1>3. ASSUME NEW k \in Key, NEW v \in Val,
             NewSlot(k, v) \/ \E addMissing \in BOOLEAN : IncNum(k, v, addMissing)
      PROVE  IInv'
  BY <1>3, NewSlotKeeps, IncNumKeeps
<1>4. CASE Clear \/ Clone
  BY <1>4, ClearKeeps, CloneKeeps
<1>5. CASE Foreach \/ Visit \/ Done
  BY <1>5, ForeachKeeps, VisitKeeps, DoneKeeps
<1> QED
  BY <1>1, <1>2, <1>3, <1>4, <1>5 DEF Next

(* Every call leaves the table well laid, with values the machine has, and *)
(* a foreach having seen exactly the keys behind it that are still there.  *)
THEOREM Invariance == Spec => []IInv
<1> QED
  BY InitEstablishes, StepKeeps, PTL DEF Spec
-----------------------------------------------------------------------------
(* The results.                                                            *)
LEMMA TypeHolds == IInv => TypeOK
<1> SUFFICES ASSUME IInv PROVE TypeOK
  OBVIOUS
<1>1. IsSize(t.size) /\ t \in TableOf(t.size)
  BY FitsFind DEF IInv, Array
<1> QED
  BY <1>1 DEF IInv, TypeOK, Answers, Tours

LEMMA FoundHolds == IInv => EveryKeyFound
<1> SUFFICES ASSUME IInv, NEW i \in Positions PROVE Find(t, t.key[i]) = i
  BY DEF EveryKeyFound
<1> QED
  BY FitsFind DEF IInv, Positions

LEMMA RoomHolds == IInv => RoomIsKnown
<1> SUFFICES ASSUME IInv PROVE RoomIsKnown
  OBVIOUS
<1>1. Good(t, t.size) /\ Positions = Taken(t)
  BY FitsFind DEF IInv, Positions, Taken
<1> QED
  BY <1>1 DEF Good, RoomIsKnown

LEMMA EndHolds == IInv => ChainsEnd
<1> SUFFICES ASSUME IInv, NEW i \in Nodes(t), t.next[i] # Nil
             PROVE  i \notin Chain(t, t.next[i])
  BY DEF ChainsEnd
<1>1. Good(t, t.size) /\ Array(t, t.size)
  BY FitsFind DEF IInv
<1>2. PICK c, r : Laid(t, t.firstfree, c, r)
  BY <1>1 DEF Good
<1> QED
  BY <1>1, <1>2, ChainEnds DEF Laid

(* The table stays a well formed node array: its size is a power of two,   *)
(* every link is a node of it, and only integers of the machine are stored.*)
THEOREM TypeIsCorrect == Spec => []TypeOK
<1> QED
  BY Invariance, TypeHolds, PTL

(* Whatever was inserted, moved and removed before, _Get finds each key of *)
(* the array from its main position, at the node where it is.              *)
THEOREM EveryKeyIsFound == Spec => []EveryKeyFound
<1> QED
  BY Invariance, FoundHolds, PTL

(* Between calls _usednodes counts the keys, and firstfree is a free node  *)
(* that links nothing: an insertion always has a place for its key.        *)
THEOREM RoomIsAlwaysKnown == Spec => []RoomIsKnown
<1> QED
  BY Invariance, RoomHolds, PTL

(* No chain of the array is a cycle: every lookup ends.                    *)
THEOREM ChainsAlwaysEnd == Spec => []ChainsEnd
<1> QED
  BY Invariance, EndHolds, PTL
-----------------------------------------------------------------------------
(* The table implements the map.                                           *)
ContentsOf(tab) ==
    [k \in {x \in Key : Find(tab, x) # Nil} |-> tab.val[Find(tab, k)]]

(* What lookups return, before and after a step.                           *)
LEMMA ContentsAre ==
  /\ Contents = ContentsOf(t)
  /\ Contents' = ContentsOf(t')
<1>1. Contents = ContentsOf(t)
  <2> DEFINE at == [k \in Key |-> Find(t, k)]
             D1 == {x \in Key : at[x] # Nil}
             D2 == {x \in Key : Find(t, x) # Nil}
  <2>1. D1 = D2 /\ \A k \in D1 : at[k] = Find(t, k)
    OBVIOUS
  <2>2. [k \in D1 |-> t.val[at[k]]] = [k \in D2 |-> t.val[Find(t, k)]]
    <3> HIDE DEF D1, D2, at
    <3> QED
      BY <2>1
  <2> QED
    BY <2>2 DEF Contents, ContentsOf
<1>2. Contents' = ContentsOf(t')
  <2> DEFINE at == [k \in Key |-> Find(t', k)]
             D1 == {x \in Key : at[x] # Nil}
             D2 == {x \in Key : Find(t', x) # Nil}
  <2>1. D1 = D2 /\ \A k \in D1 : at[k] = Find(t', k)
    OBVIOUS
  <2>2. [k \in D1 |-> t'.val[at[k]]] = [k \in D2 |-> t'.val[Find(t', k)]]
    <3> HIDE DEF D1, D2, at
    <3> QED
      BY <2>1
  <2> QED
    BY <2>2 DEF Contents, ContentsOf
<1> QED
  BY <1>1, <1>2

(* It is a function of the keys, and says which value each holds.          *)
LEMMA ContentsFields ==
  ASSUME NEW tab, Fits(tab)
  PROVE  /\ ContentsOf(tab) = [k \in DOMAIN ContentsOf(tab) |-> ContentsOf(tab)[k]]
         /\ DOMAIN ContentsOf(tab) \subseteq Key
         /\ \A k \in Key : k \in DOMAIN ContentsOf(tab) <=> ~Absent(tab, k)
         /\ \A k \in Key : \A v : Holds(tab, k, v) <=> k \in DOMAIN ContentsOf(tab) /\ ContentsOf(tab)[k] = v
<1>1. \A k \in Key : Find(tab, k) = Nil <=> Absent(tab, k)
  BY FitsFind
<1>2. \A k \in Key : \A v : Holds(tab, k, v) <=> Find(tab, k) # Nil /\ tab.val[Find(tab, k)] = v
  BY HoldsFound
<1> QED
  BY <1>1, <1>2 DEF ContentsOf

(* Two tables with the same slots are the same map.                        *)
LEMMA SameContents ==
  ASSUME NEW tab, Fits(tab), NEW x, Fits(x), Same(x, tab)
  PROVE  ContentsOf(x) = ContentsOf(tab)
<1> DEFINE C == ContentsOf(tab)  D == ContentsOf(x)
<1>1. /\ C = [k \in DOMAIN C |-> C[k]] /\ DOMAIN C \subseteq Key
      /\ \A k \in Key : \A v : Holds(tab, k, v) <=> k \in DOMAIN C /\ C[k] = v
  BY ContentsFields
<1>2. /\ D = [k \in DOMAIN D |-> D[k]] /\ DOMAIN D \subseteq Key
      /\ \A k \in Key : \A v : Holds(x, k, v) <=> k \in DOMAIN D /\ D[k] = v
  BY ContentsFields
<1> HIDE DEF C, D
<1>3. \A k \in Key : \A v : (k \in DOMAIN D /\ D[k] = v) <=> (k \in DOMAIN C /\ C[k] = v)
  BY <1>1, <1>2 DEF Same
<1>4. DOMAIN D = DOMAIN C /\ \A k \in DOMAIN C : D[k] = C[k]
  BY <1>1, <1>2, <1>3
<1>5. C = D
  BY <1>1, <1>2, <1>4
<1> QED
  BY <1>5 DEF C, D

(* A map after a slot is stored, and after one is removed.                 *)
PutInto(C, k, v) == [y \in DOMAIN C \cup {k} |-> IF y = k THEN v ELSE C[y]]
DropFrom(C, k) == [y \in DOMAIN C \ {k} |-> C[y]]

(* The map after a call that does so.                                      *)
LEMMA PutContents ==
  ASSUME NEW tab, Fits(tab), NEW x, Fits(x), NEW k \in Key, NEW v, Puts(x, tab, k, v)
  PROVE  ContentsOf(x) = PutInto(ContentsOf(tab), k, v)
<1> DEFINE C == ContentsOf(tab)  D == ContentsOf(x)
<1>1. /\ C = [y \in DOMAIN C |-> C[y]] /\ DOMAIN C \subseteq Key
      /\ \A y \in Key : \A w : Holds(tab, y, w) <=> y \in DOMAIN C /\ C[y] = w
  BY ContentsFields
<1>2. /\ D = [y \in DOMAIN D |-> D[y]] /\ DOMAIN D \subseteq Key
      /\ \A y \in Key : \A w : Holds(x, y, w) <=> y \in DOMAIN D /\ D[y] = w
  BY ContentsFields
<1> HIDE DEF C, D
<1>3. \A y \in Key : \A w :
         (y \in DOMAIN D /\ D[y] = w) <=> IF y = k THEN w = v ELSE y \in DOMAIN C /\ C[y] = w
  BY <1>1, <1>2 DEF Puts
<1>4. DOMAIN D = DOMAIN C \cup {k}
  BY <1>1, <1>2, <1>3
<1>5. \A y \in DOMAIN D : D[y] = IF y = k THEN v ELSE C[y]
  BY <1>2, <1>3
<1>6. D = PutInto(C, k, v)
  BY <1>2, <1>4, <1>5 DEF PutInto
<1> QED
  BY <1>6 DEF C, D

LEMMA DropContents ==
  ASSUME NEW tab, Fits(tab), NEW x, Fits(x), NEW k \in Key, Drops(x, tab, k)
  PROVE  ContentsOf(x) = DropFrom(ContentsOf(tab), k)
<1> DEFINE C == ContentsOf(tab)  D == ContentsOf(x)
<1>1. /\ C = [y \in DOMAIN C |-> C[y]] /\ DOMAIN C \subseteq Key
      /\ \A y \in Key : \A w : Holds(tab, y, w) <=> y \in DOMAIN C /\ C[y] = w
  BY ContentsFields
<1>2. /\ D = [y \in DOMAIN D |-> D[y]] /\ DOMAIN D \subseteq Key
      /\ \A y \in Key : \A w : Holds(x, y, w) <=> y \in DOMAIN D /\ D[y] = w
  BY ContentsFields
<1> HIDE DEF C, D
<1>3. \A y \in Key : \A w :
         (y \in DOMAIN D /\ D[y] = w) <=> y # k /\ y \in DOMAIN C /\ C[y] = w
  BY <1>1, <1>2 DEF Drops
<1>4. DOMAIN D = DOMAIN C \ {k}
  BY <1>1, <1>2, <1>3
<1>5. \A y \in DOMAIN D : D[y] = C[y]
  BY <1>2, <1>3
<1>6. D = DropFrom(C, k)
  BY <1>2, <1>4, <1>5 DEF DropFrom
<1> QED
  BY <1>6 DEF C, D

(* Without slots it is the empty map.                                      *)
LEMMA NoContents ==
  ASSUME NEW tab, Fits(tab), \A k \in Key : \A v : ~Holds(tab, k, v)
  PROVE  ContentsOf(tab) = <<>>
<1> DEFINE C == ContentsOf(tab)
<1>1. /\ C = [y \in DOMAIN C |-> C[y]] /\ DOMAIN C \subseteq Key
      /\ \A y \in Key : \A w : Holds(tab, y, w) <=> y \in DOMAIN C /\ C[y] = w
  BY ContentsFields
<1> HIDE DEF C
<1>2. DOMAIN C = {}
  BY <1>1
<1>3. C = <<>>
  BY <1>1, <1>2
<1> QED
  BY <1>3 DEF C

(* Each call is the operation of the map that bears its name.              *)
LEMMA AnswersAgree ==
  /\ M!Silent = Silent
  /\ \A w : M!Answer(TRUE, w) = Answer(TRUE, w)
  /\ M!Answer(FALSE, NoVal) = Refused
  /\ M!Val = Val
BY DEF M!Silent, M!Answer, M!Val, Silent, Answer, Refused, Val

LEMMA GetMaps ==
  ASSUME IInv, IInv', NEW k \in Key \cup {NullKey}, Get(k)
  PROVE  M!Get(k)
<1>1. t' = t /\ res' = IF Has(t, k) THEN Answer(TRUE, t.val[Find(t, k)]) ELSE Refused
  BY DEF Get
<1>2. /\ DOMAIN Contents \subseteq Key /\ NullKey \notin Key
      /\ \A v : k \in Key => (Holds(t, k, v) <=> k \in DOMAIN Contents /\ Contents[k] = v)
      /\ k \in Key => (k \in DOMAIN Contents <=> ~Absent(t, k))
  BY ContentsAre, ContentsFields, FitsFind DEF IInv
<1>3. /\ Has(t, k) => k \in Key /\ Holds(t, k, t.val[Find(t, k)])
      /\ k \in Key => (Has(t, k) <=> ~Absent(t, k))
  BY HasHolds DEF IInv
<1>4. Contents' = Contents
  BY <1>1, ContentsAre
<1>5. CASE Has(t, k)
  <2>1. res' = Answer(TRUE, t.val[Find(t, k)])
    BY <1>1, <1>5
  <2>2. k \in DOMAIN Contents /\ Contents[k] = t.val[Find(t, k)]
    BY <1>2, <1>3, <1>5
  <2>3. res' = M!Answer(TRUE, Contents[k])
    BY <2>1, <2>2, AnswersAgree
  <2> QED
    BY <1>4, <2>2, <2>3 DEF M!Get
<1>6. CASE ~Has(t, k)
  <2>1. k \notin DOMAIN Contents /\ res' = M!Answer(FALSE, NoVal)
    BY <1>1, <1>2, <1>3, <1>6, AnswersAgree
  <2> QED
    BY <1>4, <2>1 DEF M!Get
<1> QED
  BY <1>5, <1>6

(* A slot stored in the table is one stored in the map.                    *)
LEMMA PutMaps ==
  ASSUME Fits(t), Fits(t'), NEW k \in Key, NEW v, Puts(t', t, k, v)
  PROVE  M!Put(k, v)
<1>1. ContentsOf(t') = PutInto(ContentsOf(t), k, v)
  BY PutContents
<1>2. Contents' = PutInto(Contents, k, v)
  BY <1>1, ContentsAre
<1> QED
  BY <1>2 DEF M!Put, PutInto

(* The keys of the map are those of the array.                             *)
LEMMA PresentMaps ==
  ASSUME Fits(t), NEW k \in Key
  PROVE  /\ k \in DOMAIN Contents <=> ~Absent(t, k)
         /\ \A v : Holds(t, k, v) <=> k \in DOMAIN Contents /\ Contents[k] = v
BY ContentsAre, ContentsFields

LEMMA NullIsNoSlot ==
  ASSUME Fits(t)
  PROVE  NullKey \notin DOMAIN Contents
BY ContentsAre, ContentsFields, FitsFind

LEMMA SetMaps ==
  ASSUME IInv, IInv', NEW k \in Key \cup {NullKey}, NEW v \in Val, Set(k, v)
  PROVE  M!Set(k, v)
<1>1. Fits(t) /\ Fits(t')
  BY DEF IInv
<1>2. CASE k \in Key /\ ~Absent(t, k) /\ res' = Silent /\ Puts(t', t, k, v)
  <2>1. M!Put(k, v) /\ k \in DOMAIN Contents /\ res' = M!Silent
    BY <1>1, <1>2, PutMaps, PresentMaps, AnswersAgree
  <2> QED
    BY <2>1 DEF M!Set
<1>3. CASE k \in Key /\ Absent(t, k) /\ res' = Refused /\ t' = t
  <2>1. Contents' = Contents /\ k \notin DOMAIN Contents /\ res' = M!Answer(FALSE, NoVal)
    BY <1>1, <1>3, ContentsAre, PresentMaps, AnswersAgree
  <2> QED
    BY <2>1 DEF M!Set
<1>4. CASE k = NullKey /\ res' = Silent /\ Same(t', t)
  <2>1. Contents' = Contents /\ res' = M!Silent
    BY <1>1, <1>4, ContentsAre, SameContents, AnswersAgree
  <2> QED
    BY <1>4, <2>1 DEF M!Set
<1>5. CASE k = NullKey /\ res' = Refused /\ t' = t
  <2>1. Contents' = Contents /\ k \notin DOMAIN Contents /\ res' = M!Answer(FALSE, NoVal)
    BY <1>1, <1>5, ContentsAre, NullIsNoSlot, AnswersAgree
  <2> QED
    BY <2>1 DEF M!Set
<1> QED
  BY <1>2, <1>3, <1>4, <1>5, SetStep

LEMMA NewSlotMaps ==
  ASSUME IInv, IInv', NEW k \in Key, NEW v \in Val, NewSlot(k, v)
  PROVE  M!NewSlot(k, v)
<1>1. Fits(t) /\ Fits(t')
  BY DEF IInv
<1>2. M!Put(k, v)
  BY <1>1, NewSlotStep, PutMaps
<1>3. res' = M!Answer(FALSE, NoVal) \/ (k \notin DOMAIN Contents /\ res' = M!Silent)
  BY <1>1, NewSlotStep, PresentMaps, AnswersAgree
<1> QED
  BY <1>2, <1>3 DEF M!NewSlot

LEMMA IncNumMaps ==
  ASSUME IInv, IInv', NEW k \in Key, NEW v \in Val, NEW addMissing \in BOOLEAN,
         IncNum(k, v, addMissing)
  PROVE  M!IncNum(k, v, addMissing)
<1>1. Fits(t) /\ Fits(t')
  BY DEF IInv
<1>2. CASE ~Absent(t, k) /\ res' = Silent
           /\ \E w \in Val : Holds(t, k, w) /\ Puts(t', t, k, (w + v) % 2^Width)
  <2>1. PICK w \in Val : Holds(t, k, w) /\ Puts(t', t, k, (w + v) % 2^Width)
    BY <1>2
  <2>2. k \in DOMAIN Contents /\ Contents[k] = w /\ res' = M!Silent
    BY <1>1, <1>2, <2>1, PresentMaps, AnswersAgree
  <2>3. M!Put(k, (w + v) % 2^Width)
    BY <1>1, <2>1, PutMaps
  <2>4. M!Put(k, (Contents[k] + v) % 2^Width)
    BY <2>2, <2>3
  <2> QED
    BY <2>2, <2>4 DEF M!IncNum
<1>3. CASE Absent(t, k) /\ addMissing /\ res' = Silent /\ Puts(t', t, k, v)
  <2>1. k \notin DOMAIN Contents /\ M!Put(k, v) /\ res' = M!Silent
    BY <1>1, <1>3, PresentMaps, PutMaps, AnswersAgree
  <2> QED
    BY <1>3, <2>1 DEF M!IncNum
<1>4. CASE Absent(t, k) /\ ~addMissing /\ res' = Refused /\ t' = t
  <2>1. k \notin DOMAIN Contents /\ Contents' = Contents /\ res' = M!Answer(FALSE, NoVal)
    BY <1>1, <1>4, PresentMaps, ContentsAre, AnswersAgree
  <2> QED
    BY <1>4, <2>1 DEF M!IncNum
<1> QED
  BY <1>2, <1>3, <1>4, IncNumStep

LEMMA DeleteSlotMaps ==
  ASSUME IInv, IInv', NEW k \in Key \cup {NullKey}, DeleteSlot(k)
  PROVE  M!DeleteSlot(k)
<1>1. Fits(t) /\ Fits(t')
  BY DEF IInv
<1>2. CASE k \in Key /\ ~Absent(t, k) /\ Drops(t', t, k)
           /\ \E w \in Val : Holds(t, k, w) /\ res' = Answer(TRUE, w)
  <2>1. PICK w \in Val : Holds(t, k, w) /\ res' = Answer(TRUE, w)
    BY <1>2
  <2>2. k \in DOMAIN Contents /\ Contents[k] = w
    BY <1>1, <1>2, <2>1, PresentMaps
  <2>3. Contents' = DropFrom(Contents, k)
    <3>1. k \in Key /\ Drops(t', t, k)
      BY <1>2
    <3>2. ContentsOf(t') = DropFrom(ContentsOf(t), k)
      BY <1>1, <3>1, DropContents
    <3> QED
      BY <3>2, ContentsAre
  <2>4. res' = M!Answer(TRUE, Contents[k])
    BY <2>1, <2>2, AnswersAgree
  <2> QED
    BY <2>2, <2>3, <2>4 DEF M!DeleteSlot, DropFrom
<1>3. CASE (k = NullKey \/ Absent(t, k)) /\ res' = Refused /\ t' = t
  <2>1. k \notin DOMAIN Contents
    BY <1>1, <1>3, PresentMaps, NullIsNoSlot
  <2>2. Contents' = Contents /\ res' = M!Answer(FALSE, NoVal)
    BY <1>3, ContentsAre, AnswersAgree
  <2> QED
    BY <2>1, <2>2 DEF M!DeleteSlot
<1> QED
  BY <1>2, <1>3, DeleteSlotStep

LEMMA ClearMaps ==
  ASSUME IInv, IInv', Clear
  PROVE  M!Clear
<1>1. Fits(t') /\ res' = M!Silent /\ \A k \in Key : \A v : ~Holds(t', k, v)
  BY ClearStep, AnswersAgree
<1>2. Contents' = <<>>
  BY <1>1, NoContents, ContentsAre
<1> QED
  BY <1>1, <1>2 DEF M!Clear

LEMMA CloneMaps ==
  ASSUME IInv, IInv', Clone
  PROVE  M!Clone
<1>1. Fits(t) /\ Fits(t') /\ Same(t', t) /\ res' = M!Silent
  BY CloneStep, AnswersAgree DEF IInv
<1>2. Contents' = Contents
  BY <1>1, SameContents, ContentsAre
<1> QED
  BY <1>1, <1>2 DEF M!Clone

LEMMA InitMaps == Init => M!Init
<1> SUFFICES ASSUME Init PROVE M!Init
  OBVIOUS
<1>1. PICK n \in InitSize : t = AllocNodes(n)
  BY DEF Init
<1>2. IsSize(n) /\ n \in Nat /\ n >= MinPower2
  BY <1>1, Sizes DEF IsSize
<1>3. Good(t, n) /\ \A i \in Nodes(t) : t.key[i] = NullKey
  BY <1>1, <1>2, AllocGood
<1>4. NullKey \notin Key
  BY <1>3, ArrayFields DEF Good
<1>5. Fits(t) /\ \A k \in Key : \A v : ~Holds(t, k, v)
  BY <1>2, <1>3, <1>4 DEF Fits, Holds
<1>6. Contents = <<>>
  BY <1>5, NoContents, ContentsAre
<1>7. res = M!Silent
  BY AnswersAgree DEF Init
<1> QED
  BY <1>6, <1>7 DEF M!Init

(* Every step of the table is a step of the map, or none.                  *)
LEMMA StepMaps == IInv /\ IInv' /\ [Next]_vars => [M!Next]_<<Contents, res>>
<1> SUFFICES ASSUME IInv, IInv', [Next]_vars PROVE [M!Next]_<<Contents, res>>
  OBVIOUS
<1>1. CASE t' = t /\ res' = res
  BY <1>1, ContentsAre
<1>2. CASE UNCHANGED vars
  BY <1>1, <1>2 DEF vars
<1>3. CASE Foreach \/ Visit \/ Done
  BY <1>1, <1>3 DEF Foreach, Visit, Done
<1>4. ASSUME NEW k \in Key \cup {NullKey}, Get(k) \/ DeleteSlot(k) \/ \E v \in Val : Set(k, v)
      PROVE  M!Next
  <2>1. CASE Get(k)
    BY <2>1, GetMaps, Zenon DEF M!Next
  <2>2. CASE DeleteSlot(k)
    BY <2>2, DeleteSlotMaps, Zenon DEF M!Next
  <2>3. ASSUME NEW v \in Val, Set(k, v) PROVE M!Next
    <3>1. M!Set(k, v) /\ v \in M!Val
      BY <2>3, SetMaps, AnswersAgree
    <3> QED
      BY <3>1, Zenon DEF M!Next
  <2> QED
    BY <1>4, <2>1, <2>2, <2>3
<1>5. ASSUME NEW k \in Key, NEW v \in Val,
             NewSlot(k, v) \/ \E addMissing \in BOOLEAN : IncNum(k, v, addMissing)
      PROVE  M!Next
  <2>1. v \in M!Val
    BY AnswersAgree
  <2>2. CASE NewSlot(k, v)
    BY <2>1, <2>2, NewSlotMaps, Zenon DEF M!Next
  <2>3. ASSUME NEW addMissing \in BOOLEAN, IncNum(k, v, addMissing) PROVE M!Next
    <3>1. M!IncNum(k, v, addMissing)
      BY <2>3, IncNumMaps
    <3> QED
      BY <2>1, <3>1, Zenon DEF M!Next
  <2> QED
    BY <1>5, <2>2, <2>3
<1>6. CASE Clear \/ Clone
  <2>1. M!Clear \/ M!Clone
    BY <1>6, ClearMaps, CloneMaps
  <2> QED
    BY <2>1, Zenon DEF M!Next
<1> QED
  BY <1>2, <1>3, <1>4, <1>5, <1>6 DEF Next

(* Whatever happens inside the node array, the table is a map to those who *)
(* look keys up: a call stores, adds or removes its own slot, answers with *)
(* what that slot was, and leaves the slots of the other keys alone.       *)
THEOREM TableIsMap == Spec => ImplementsMap
<1>1. Spec => M!Init
  BY InitMaps DEF Spec
<1>2. Spec => [][M!Next]_<<Contents, res>>
  BY Invariance, StepMaps, PTL DEF Spec
<1> QED
  BY <1>1, <1>2, PTL DEF ImplementsMap
-----------------------------------------------------------------------------
(* The foreach.                                                            *)
LEMMA VisitIsNew ==
  ASSUME IInv, Visit
  PROVE  loop.seen' # loop.seen
<1>1. PICK i \in Nodes(t) :
         t.key[i] \notin loop.seen /\ loop' = [at |-> i + 1, seen |-> loop.seen \cup {t.key[i]}]
  BY VisitStep
<1> QED
  BY <1>1

(* Nothing is ahead: every key is behind.                                  *)
LEMMA DoneHasSeenAll ==
  ASSUME IInv, Done
  PROVE  DOMAIN Contents \subseteq loop.seen
<1>1. loop.at # Nil /\ loop.at \in Nat /\ Ahead = {}
  BY DEF IInv, Tours, Done
<1> SUFFICES ASSUME NEW k \in DOMAIN Contents PROVE k \in loop.seen
  OBVIOUS
<1>2. k \in Key /\ ~Absent(t, k)
  BY ContentsAre, ContentsFields DEF IInv
<1>3. PICK i \in Nodes(t) : t.key[i] = k
  BY <1>2 DEF Absent
<1>4. k # NullKey /\ i \in Nat
  BY <1>2, FitsFind DEF IInv
<1>5. i < loop.at
  BY <1>1, <1>3, <1>4 DEF Ahead
<1> QED
  BY <1>1, <1>3, <1>4, <1>5 DEF IInv, Toured

(* A foreach whose body creates no slot visits each key once, whatever the *)
(* body stores and removes, and ends only when it has visited all of them. *)
THEOREM ForeachVisitsEach == Spec => VisitsEach
<1>1. IInv /\ [Next]_vars =>
        [/\ Visit => loop.seen' # loop.seen
         /\ Done => DOMAIN Contents \subseteq loop.seen]_vars
  BY VisitIsNew, DoneHasSeenAll
<1> QED
  BY <1>1, Invariance, PTL DEF Spec, VisitsEach
=============================================================================
