------------------------------- MODULE Table -------------------------------
(***************************************************************************)
(* SQTable (sqtable.h, sqtable.cpp): the node array behind a SquiLu table, *)
(* and a foreach loop that walks it while its body changes it.             *)
(*                                                                         *)
(* Colliding keys are chained through the array itself.  firstfree only    *)
(* ever moves down; when it finds no free node left the array is           *)
(* reallocated, and so it is after a removal that leaves it too empty or   *)
(* too full.  A removed node keeps its next: it stays a link of its chain. *)
(*                                                                         *)
(* A key is a number whose main position is its remainder by the size; the *)
(* null key hashes to 0.  A table is a record of the arrays key, val and   *)
(* next over the positions 0 .. size - 1, of firstfree and of used.        *)
(***************************************************************************)
EXTENDS Integers, FiniteSets, FiniteSetsExt

CONSTANTS Key,       \* the keys that are not null, natural numbers
          NullKey,   \* the null object: the key of an empty node
          NoVal,     \* the null object in place of a value
          Nil,       \* the null pointer in place of a position
          Width,     \* the integers of the script have this many bits
          InitSize,  \* the sizes a table is created with, powers of two
          Loops      \* whether the script runs a foreach over the table

MinPower2 == 4

(* Sizes are powers of two: they have no odd divisor but 1.                *)
IsSize(n) ==
    /\ n \in Nat /\ n >= MinPower2
    /\ \A d \in 2 .. n : n % d = 0 => d % 2 = 0

ASSUME KeysAreNumbers == Key \subseteq Nat /\ NullKey \notin Nat /\ Nil \notin Nat
ASSUME Sizes == \A n \in InitSize : IsSize(n)
ASSUME Words == 2^Width \in Nat \ {0} /\ Loops \in BOOLEAN

Val == 0 .. 2^Width - 1

VARIABLES t,     \* the table
          res,   \* what the last call handed back
          loop   \* the foreach: where it stands, what it saw

vars == <<t, res, loop>>

Nodes(tab) == 0 .. tab.size - 1

AllocNodes(n) ==
    [size |-> n, firstfree |-> n - 1, used |-> 0,
     key  |-> [i \in 0 .. n - 1 |-> NullKey],
     val  |-> [i \in 0 .. n - 1 |-> NoVal],
     next |-> [i \in 0 .. n - 1 |-> Nil]]

-----------------------------------------------------------------------------
(* Looking a key up.                                                       *)

Main(tab, k) == IF k = NullKey THEN 0 ELSE k % tab.size

(* The nodes linked from h on, h included: at most size links are followed.*)
Chain(tab, h) ==
    LET c[n \in 0 .. tab.size] ==
            [p \in Nodes(tab) |->
                {p} \cup IF tab.next[p] = Nil \/ n = 0 THEN {} ELSE c[n - 1][tab.next[p]]]
    IN  c[tab.size][h]

(* _Get: the first node with the key k on the chain of its main position.  *)
Find(tab, k) ==
    LET f[n \in 0 .. tab.size] ==
            [p \in Nodes(tab) |->
                IF tab.key[p] = k THEN p
                ELSE IF tab.next[p] = Nil \/ n = 0 THEN Nil
                ELSE f[n - 1][tab.next[p]]]
    IN  f[tab.size][Main(tab, k)]

Has(tab, k) == k # NullKey /\ Find(tab, k) # Nil

-----------------------------------------------------------------------------
(* Inserting a key that is not there: where it goes, and the array then.   *)

AtMain(tab, k) ==
    [at |-> Main(tab, k), tab |-> [tab EXCEPT !.key[Main(tab, k)] = k]]

(* The main position is taken by a key that belongs there, or that was     *)
(* never moved: the new key goes to the free node, chained behind it.      *)
AtFree(tab, k) ==
    LET mp == Main(tab, k)  n == tab.firstfree
    IN  [at |-> n,
         tab |-> [tab EXCEPT !.key[n] = k,
                             !.next[n] = tab.next[mp], !.next[mp] = n]]

(* Mutant: the chain of the node moved away is not redone.                 *)
MoveCollidingUnchained(tab, k) ==
    LET mp == Main(tab, k)  n == tab.firstfree
    IN  [at |-> mp,
         tab |-> [tab EXCEPT !.key[n] = tab.key[mp], !.key[mp] = k,
                             !.val[n] = tab.val[mp], !.val[mp] = NoVal,
                             !.next[n] = tab.next[mp], !.next[mp] = Nil]]

(* The main position is taken by a key of another chain: that one moves to *)
(* the free node and its chain is redone.                                  *)
MoveColliding(tab, k) ==
    LET mp == Main(tab, k)  n == tab.firstfree
        previous == CHOOSE p \in Chain(tab, Main(tab, tab.key[mp])) : tab.next[p] = mp
    IN  [at |-> mp,
         tab |-> [tab EXCEPT !.next[previous] = n,
                             !.key[n] = tab.key[mp], !.key[mp] = k,
                             !.val[n] = tab.val[mp], !.val[mp] = NoVal,
                             !.next[n] = tab.next[mp], !.next[mp] = Nil]]

Place(tab, k) ==
    LET mp == Main(tab, k)
    IN  IF tab.key[mp] = NullKey THEN AtMain(tab, k)
        ELSE IF mp > tab.firstfree /\ Main(tab, tab.key[mp]) # mp
        THEN MoveColliding(tab, k)
        ELSE AtFree(tab, k)

FreeNodes(tab) ==
    {i \in 0 .. tab.firstfree : tab.key[i] = NullKey /\ tab.next[i] = Nil}

(* The end of an insertion: firstfree is corrected, and only if there is a *)
(* free node is the value stored and the key counted.                      *)
Settle(p, v) ==
    LET free == FreeNodes(p.tab)
    IN  IF free = {} THEN [p.tab EXCEPT !.firstfree = 0]
        ELSE [p.tab EXCEPT !.firstfree = Max(free), !.val[p.at] = v, !.used = @ + 1]

(* NewSlot as Rehash and Clone call it, into an array with room: it does   *)
(* not reallocate.  Were the array too small, firstfree would be left on a *)
(* node that is not free (RoomIsKnown).                                    *)
Insert(tab, k, v) ==
    LET n == Find(tab, k)
    IN  IF n # Nil THEN [tab EXCEPT !.val[n] = v] ELSE Settle(Place(tab, k), v)

InsertNode(from, i, to) ==
    IF from.key[i] = NullKey THEN to ELSE Insert(to, from.key[i], from.val[i])

InsertAll(from, to) ==
    LET f[i \in 0 .. from.size] ==
            IF i = 0 THEN to ELSE InsertNode(from, i - 1, f[i - 1])
    IN  f[from.size]

(* Mutant: the table grows only beyond 3/4.                                *)
GrowsLate(tab) == tab.used > tab.size - tab.size \div 4

Grows(tab) == tab.used >= tab.size - tab.size \div 4
Shrinks(tab) == tab.used <= tab.size \div 4 /\ tab.size > MinPower2

Rehash(tab, force) ==
    IF Grows(tab) THEN InsertAll(tab, AllocNodes(tab.size * 2))
    ELSE IF Shrinks(tab) THEN InsertAll(tab, AllocNodes(tab.size \div 2))
    ELSE IF force THEN InsertAll(tab, AllocNodes(tab.size))
    ELSE tab

(* Mutant: NewSlot does not start over after the reallocation.             *)
NewSlotInOnce(tab, k, v) ==
    LET tab1 == Insert(tab, k, v)
    IN  IF FreeNodes(tab1) # {} THEN tab1 ELSE Rehash(tab1, TRUE)

(* The key is in the array, but neither counted nor given its value, while *)
(* the array is reallocated; the insertion then starts over.               *)
NewSlotIn(tab, k, v) ==
    LET tab1 == Insert(tab, k, v)
    IN  IF FreeNodes(tab1) # {} THEN tab1 ELSE Insert(Rehash(tab1, TRUE), k, v)

(* What NewSlot returns: after a reallocation it finds the key.            *)
Creates(tab, k) == Find(tab, k) = Nil /\ FreeNodes(Place(tab, k).tab) # {}

(* Mutants: the removal is not counted; the node removed becomes the first *)
(* free one again; the array is reallocated at each removal.               *)
RemoveUncounted(tab, k) ==
    LET n == Find(tab, k)
    IN  Rehash([tab EXCEPT !.val[n] = NoVal, !.key[n] = NullKey], FALSE)

RemoveFrees(tab, k) ==
    LET n == Find(tab, k)
    IN  Rehash([tab EXCEPT !.val[n] = NoVal, !.key[n] = NullKey, !.used = @ - 1,
                           !.firstfree = IF tab.next[n] = Nil THEN Max({n, @}) ELSE @], FALSE)

RemoveForced(tab, k) ==
    LET n == Find(tab, k)
    IN  Rehash([tab EXCEPT !.val[n] = NoVal, !.key[n] = NullKey, !.used = @ - 1], TRUE)

Remove(tab, k) ==
    LET n == Find(tab, k)
    IN  Rehash([tab EXCEPT !.val[n] = NoVal, !.key[n] = NullKey, !.used = @ - 1], FALSE)

-----------------------------------------------------------------------------
(* The calls.  A foreach is disturbed by a new slot and by a reallocation: *)
(* nothing is promised of its further visits, and they are not followed.   *)

NoLoop == [at |-> Nil, seen |-> {}]

Answer(ok, v) == [ok |-> ok, val |-> v]
Silent == Answer(TRUE, NoVal)
Refused == Answer(FALSE, NoVal)

Becomes(tab) == t' = tab /\ UNCHANGED loop
Disturbs(tab) == t' = tab /\ loop' = NoLoop

Get(k) ==
    /\ res' = IF Has(t, k) THEN Answer(TRUE, t.val[Find(t, k)]) ELSE Refused
    /\ UNCHANGED <<t, loop>>

(* The null key is not refused: an empty node on its chain takes the value.*)
Set(k, v) ==
    LET n == Find(t, k)
    IN  IF n = Nil
        THEN res' = Refused /\ UNCHANGED <<t, loop>>
        ELSE res' = Silent /\ Becomes([t EXCEPT !.val[n] = v])

NewSlot(k, v) ==
    /\ res' = Answer(Creates(t, k), NoVal)
    /\ IF Has(t, k) THEN Becomes(NewSlotIn(t, k, v)) ELSE Disturbs(NewSlotIn(t, k, v))

IncNum(k, v, addMissing) ==
    LET n == Find(t, k)
    IN  IF n # Nil
        THEN res' = Silent /\ Becomes([t EXCEPT !.val[n] = (@ + v) % 2^Width])
        ELSE IF addMissing THEN res' = Silent /\ Disturbs(NewSlotIn(t, k, v))
             ELSE res' = Refused /\ UNCHANGED <<t, loop>>

DeleteSlot(k) ==
    IF ~Has(t, k)
    THEN res' = Refused /\ UNCHANGED <<t, loop>>
    ELSE /\ res' = Answer(TRUE, t.val[Find(t, k)])
         /\ LET tab == Remove(t, k)
            IN  IF tab.size = t.size THEN Becomes(tab) ELSE Disturbs(tab)

Clear ==
    /\ res' = Silent
    /\ Disturbs(Rehash([t EXCEPT !.key = [i \in Nodes(t) |-> NullKey],
                                 !.val = [i \in Nodes(t) |-> NoVal],
                                 !.used = 0], TRUE))

(* The script goes on with the clone, and a foreach over the original ends.*)
Clone ==
    /\ res' = Silent
    /\ t' = InsertAll(t, AllocNodes(t.size))
    /\ loop' = NoLoop

Foreach ==
    /\ Loops /\ loop.at = Nil
    /\ loop' = [at |-> 0, seen |-> {}]
    /\ UNCHANGED <<t, res>>

Ahead == {i \in Nodes(t) : i >= loop.at /\ t.key[i] # NullKey}

(* Next, from the position the loop kept.                                  *)
Visit ==
    /\ loop.at # Nil /\ Ahead # {}
    /\ LET i == Min(Ahead)
       IN  loop' = [at |-> i + 1, seen |-> loop.seen \cup {t.key[i]}]
    /\ UNCHANGED <<t, res>>

Done ==
    /\ loop.at # Nil /\ Ahead = {}
    /\ loop' = NoLoop
    /\ UNCHANGED <<t, res>>

Init ==
    /\ \E n \in InitSize : t = AllocNodes(n)
    /\ res = Silent
    /\ loop = NoLoop

Next ==
    \/ \E k \in Key \cup {NullKey} : Get(k) \/ DeleteSlot(k) \/ \E v \in Val : Set(k, v)
    \/ \E k \in Key, v \in Val :
          NewSlot(k, v) \/ \E addMissing \in BOOLEAN : IncNum(k, v, addMissing)
    \/ Clear \/ Clone
    \/ Foreach \/ Visit \/ Done

Spec == Init /\ [][Next]_vars

-----------------------------------------------------------------------------
TableOf(n) ==
    [size : {n}, firstfree : 0 .. n - 1, used : 0 .. n - 1,
     key  : [0 .. n - 1 -> Key \cup {NullKey}],
     val  : [0 .. n - 1 -> Val \cup {NoVal}],
     next : [0 .. n - 1 -> (0 .. n - 1) \cup {Nil}]]

Positions == {i \in Nodes(t) : t.key[i] # NullKey}

TypeOK ==
    /\ IsSize(t.size) /\ t \in TableOf(t.size)
    /\ res \in [ok : BOOLEAN, val : Val \cup {NoVal}]
    /\ loop \in [at : Nat \cup {Nil}, seen : SUBSET Key]

(* Every key in the array is found from its main position, so no slot is   *)
(* lost when a colliding key moves or a removed node leaves a chain, and   *)
(* no key is in the array twice.                                           *)
EveryKeyFound == \A i \in Positions : Find(t, t.key[i]) = i

(* Every call leaves _usednodes, on which the size is decided, the number  *)
(* of slots, and firstfree on a node that is free and links nothing: the   *)
(* next insertion has a place, and a reallocation never had too little     *)
(* room.                                                                   *)
RoomIsKnown ==
    /\ t.used = Cardinality(Positions)
    /\ t.key[t.firstfree] = NullKey /\ t.next[t.firstfree] = Nil

(* No chain is a cycle, removed nodes included: a lookup of a missing key  *)
(* ends.                                                                   *)
ChainsEnd == \A i \in Nodes(t) : t.next[i] # Nil => i \notin Chain(t, t.next[i])

(* What a lookup of each key returns.                                      *)
Contents ==
    LET at == [k \in Key |-> Find(t, k)]
    IN  [k \in {x \in Key : at[x] # Nil} |-> t.val[at[k]]]

(* Seen through lookups the table is a map: no call changes, loses or      *)
(* invents the slot of another key.                                        *)
M == INSTANCE TableMap WITH map <- Contents
ImplementsMap == M!Init /\ [][M!Next]_<<Contents, res>>

(* A foreach that is not disturbed visits no key twice, and when it ends   *)
(* it has visited every key, whatever its body stored or removed.          *)
VisitsEach ==
    [][/\ Visit => loop.seen' # loop.seen
       /\ Done => DOMAIN Contents \subseteq loop.seen]_vars
=============================================================================
