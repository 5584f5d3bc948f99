----------------------------- MODULE RefTable -----------------------------
(***************************************************************************)
(* RefTable (sqstate.cpp), the table of the objects that native code keeps *)
(* alive with sq_addref, and the native objects that do so: an instance    *)
(* whose C++ part pins objects of the script until the release hook of the *)
(* instance gives them back with sq_release.                               *)
(*                                                                         *)
(* The hook runs inside the destructor of its instance, so sq_release is   *)
(* called in the middle of whatever destroyed the instance: an assignment, *)
(* another sq_release, the sweep of a collection, or the shutdown; and     *)
(* what it releases may be an instance with a hook.                        *)
(*                                                                         *)
(* How counts and marks are kept is the subject of Collector; here an      *)
(* object is destroyed when it is not marked and nothing refers to it.     *)
(***************************************************************************)
EXTENDS Integers, FiniteSets, Sequences

CONSTANTS Obj,        \* the objects: addresses, which are their hashes
          Native,     \* those with a release hook; the others are leaves
          None,       \* no object, or no bucket
          InitSlots   \* the size of a new table (4 in the code)

ASSUME ObjectsAreNumbers == Obj \subseteq Nat /\ Native \subseteq Obj /\ None \notin Nat
ASSUME SomeSlots == InitSlots \in Nat \ {0}

VARIABLES tab,      \* the table, see AllocNodes
          held,     \* what the script holds: variables, the stack, the registry
          fld,      \* the member of each native instance
          pin,      \* what the native part of each instance has pinned
          live,     \* the objects that are allocated
          dtors,    \* the destructors that run, the innermost first
          marked,   \* the objects with MARK_FLAG, in a collection
          todo,     \* what is left of the chain a sweep walks
          t,        \* where the sweep stands: its local variable, counted
          pc        \* run, sweep, or a phase of the shutdown

vars == <<tab, held, fld, pin, live, dtors, marked, todo, t, pc>>
heap == <<tab, held, fld, pin, live>>
walk == <<marked, todo, t, pc>>

-----------------------------------------------------------------------------
(* The table: the bucket each object is linked in, if it is, and how often *)
(* it was pinned.  A free node has no object and refs 0.                   *)

AllocNodes(n) ==
    [slots |-> n, used |-> 0,
     bucket |-> [x \in Obj |-> None], refs |-> [x \in Obj |-> 0]]

Linked(tb) == {x \in Obj : tb.bucket[x] # None}

Mainpos(tb, x) == x % tb.slots

(* Only the bucket of the main position is searched.                       *)
Found(tb, x) == tb.bucket[x] = Mainpos(tb, x)

Add(tb, x, mainpos) == [tb EXCEPT !.bucket[x] = mainpos, !.used = @ + 1]

Resize(tb, n) ==
    [slots |-> n, used |-> Cardinality(Linked(tb)), refs |-> tb.refs,
     bucket |-> [x \in Obj |-> IF x \in Linked(tb) THEN x % n ELSE None]]

(* Mutants: a full table is not enlarged; a new object goes where it would *)
(* have gone before the table was enlarged.                                *)
GetFull(tb, x) == IF Found(tb, x) THEN tb ELSE Add(tb, x, Mainpos(tb, x))

GetStale(tb, x) ==
    IF Found(tb, x) THEN tb
    ELSE IF tb.used = tb.slots
    THEN Add(Resize(tb, 2 * tb.slots), x, Mainpos(tb, x))
    ELSE Add(tb, x, Mainpos(tb, x))

(* Get with add: the table with a node for x.                              *)
Get(tb, x) ==
    LET roomy == IF tb.used = tb.slots THEN Resize(tb, 2 * tb.slots) ELSE tb
    IN  IF Found(tb, x) THEN tb ELSE Add(roomy, x, Mainpos(roomy, x))

AddRef(tb, x) == [Get(tb, x) EXCEPT !.refs[x] = @ + 1]

GetRefCount(tb, x) == IF Found(tb, x) THEN tb.refs[x] ELSE 0

(* What is not found is the assertion of Release: nothing happens.         *)
Release(tb, x) ==
    IF ~Found(tb, x) THEN tb
    ELSE IF tb.refs[x] > 1 THEN [tb EXCEPT !.refs[x] = @ - 1]
    ELSE [tb EXCEPT !.refs[x] = 0, !.bucket[x] = None, !.used = @ - 1]

-----------------------------------------------------------------------------
Dying == {dtors[i] : i \in 1 .. Len(dtors)}

Referenced == held \cup {fld[n] : n \in Native} \cup Linked(tab) \cup {t}

(* A reference to x has gone: if it was the last one, and x is not marked, *)
(* the destructor of x begins.                                             *)
Unrefer(x) ==
    dtors' = IF x \in live \ (Referenced' \cup marked \cup Dying)
             THEN <<x>> \o dtors ELSE dtors

(* The script runs: no destructor and no collection is in progress.        *)
Running == pc = "run" /\ dtors = <<>>

Closing == pc \in {"closing", "finalize", "final"}

(* sq_release; when the VM is closing it does nothing.                     *)
SqRelease(x) ==
    IF Closing
    THEN UNCHANGED <<tab, dtors>>
    ELSE tab' = Release(tab, x) /\ Unrefer(x)

New(x) ==
    /\ Running /\ x \notin live
    /\ live' = live \cup {x}
    /\ held' = held \cup {x}
    /\ UNCHANGED <<tab, fld, pin, dtors, walk>>

(* A constructor or a setter of n keeps x: sq_addref.                      *)
Pin(n, x) ==
    /\ Running /\ {n, x} \subseteq held /\ x \notin pin[n]
    /\ tab' = AddRef(tab, x)
    /\ pin' = [pin EXCEPT ![n] = @ \cup {x}]
    /\ UNCHANGED <<held, fld, live, dtors, walk>>

(* A setter of n gives x back.                                             *)
Unpin(n, x) ==
    /\ Running /\ n \in held /\ x \in pin[n]
    /\ pin' = [pin EXCEPT ![n] = @ \ {x}]
    /\ UNCHANGED <<held, fld, live, walk>>
    /\ SqRelease(x)

(* The script assigns to the member of n.                                  *)
SetField(n, x) ==
    /\ Running /\ n \in held /\ x \in held \cup {None}
    /\ fld' = [fld EXCEPT ![n] = x]
    /\ UNCHANGED <<tab, held, pin, live, walk>>
    /\ Unrefer(fld[n])

(* The script reads the member, or asks n for what it pinned.              *)
Fetch(n, x) ==
    /\ Running /\ n \in held /\ x \in (pin[n] \cup {fld[n]}) \ {None}
    /\ held' = held \cup {x}
    /\ UNCHANGED <<tab, fld, pin, live, dtors, walk>>

(* The script drops x; at the shutdown, the root VM and ~SQSharedState do. *)
Drop(x) ==
    /\ pc \in {"run", "closing"} /\ dtors = <<>> /\ x \in held
    /\ held' = held \ {x}
    /\ UNCHANGED <<tab, fld, pin, live, walk>>
    /\ Unrefer(x)

-----------------------------------------------------------------------------
(* SQInstance::Release: the hook, which gives back what the native part of *)
(* the instance pinned, and then the destructor.                           *)

RunHook ==
    /\ dtors # <<>>
    /\ \E x \in pin[Head(dtors)] :
          /\ pin' = [pin EXCEPT ![Head(dtors)] = @ \ {x}]
          /\ UNCHANGED <<held, fld, live, walk>>
          /\ SqRelease(x)

DropField ==
    /\ dtors # <<>> /\ pin[Head(dtors)] = {} /\ fld[Head(dtors)] # None
    /\ fld' = [fld EXCEPT ![Head(dtors)] = None]
    /\ UNCHANGED <<tab, held, pin, live, walk>>
    /\ Unrefer(fld[Head(dtors)])

Free ==
    /\ dtors # <<>> /\ pin[Head(dtors)] = {} /\ fld[Head(dtors)] = None
    /\ live' = live \ {Head(dtors)}
    /\ dtors' = Tail(dtors)
    /\ UNCHANGED <<tab, held, fld, pin, walk>>

-----------------------------------------------------------------------------
(* CollectGarbage, and the sweep of ~SQSharedState, where nothing is       *)
(* marked.  RefTable::Mark makes what the table holds a root.              *)

Reach(from) ==
    {x \in Obj : \A S \in SUBSET Obj :
        (from \subseteq S /\ \A n \in Native \cap S : fld[n] \in S \cup {None}) => x \in S}

(* The sweep goes on with one of the chain, which it pins, or is through.  *)
Next_t(chain) ==
    \/ chain = {} /\ t' = None /\ todo' = {}
    \/ \E x \in chain : t' = x /\ todo' = chain \ {x}

(* Mutant: the table is not marked.                                        *)
CollectUnmarked ==
    /\ Running
    /\ marked' = Reach(held)
    /\ pc' = "sweep"
    /\ Next_t(live \ marked')
    /\ UNCHANGED <<heap, dtors>>

Collect ==
    /\ Running
    /\ marked' = Reach(held \cup Linked(tab))
    /\ pc' = "sweep"
    /\ Next_t(live \ marked')
    /\ UNCHANGED <<heap, dtors>>

Sweeping == pc \in {"sweep", "final"} /\ dtors = <<>>

Finalize ==
    /\ Sweeping /\ t # None /\ fld[t] # None
    /\ fld' = [fld EXCEPT ![t] = None]
    /\ UNCHANGED <<tab, held, pin, live, walk>>
    /\ Unrefer(fld[t])

Advance ==
    /\ Sweeping /\ t # None /\ fld[t] = None
    /\ Next_t(todo \cap live)
    /\ UNCHANGED <<heap, marked, pc>>
    /\ Unrefer(t)

(* Mutant: the marks of a collection stay.                                 *)
EndSweepMarked ==
    /\ Sweeping /\ t = None
    /\ pc' = IF pc = "sweep" THEN "run" ELSE "closed"
    /\ UNCHANGED <<heap, dtors, marked, todo, t>>

EndSweep ==
    /\ Sweeping /\ t = None
    /\ marked' = {}
    /\ pc' = IF pc = "sweep" THEN "run" ELSE "closed"
    /\ UNCHANGED <<heap, dtors, todo, t>>

-----------------------------------------------------------------------------
(* sq_close and ~SQSharedState: the holders, the table, and what is left.  *)

Close ==
    /\ Running
    /\ pc' = "closing"
    /\ UNCHANGED <<heap, dtors, marked, todo, t>>

BeginFinalize ==
    /\ pc = "closing" /\ held = {} /\ dtors = <<>>
    /\ pc' = "finalize"
    /\ UNCHANGED <<heap, dtors, marked, todo, t>>

(* RefTable::Finalize nulls the object of each node.                       *)
FinalizeNode(x) ==
    /\ pc = "finalize" /\ dtors = <<>> /\ x \in Linked(tab)
    /\ tab' = [tab EXCEPT !.bucket[x] = None]
    /\ UNCHANGED <<held, fld, pin, live, walk>>
    /\ Unrefer(x)

BeginFinal ==
    /\ pc = "finalize" /\ dtors = <<>> /\ Linked(tab) = {}
    /\ pc' = "final"
    /\ Next_t(live)
    /\ UNCHANGED <<heap, dtors, marked>>

Init ==
    /\ tab = AllocNodes(InitSlots)
    /\ held = {} /\ live = {} /\ marked = {} /\ todo = {}
    /\ fld = [x \in Obj |-> None] /\ pin = [x \in Obj |-> {}]
    /\ dtors = <<>> /\ t = None /\ pc = "run"

Next ==
    \/ \E x \in Obj : New(x) \/ Drop(x) \/ FinalizeNode(x)
    \/ \E n \in Native, x \in Obj : Pin(n, x) \/ Unpin(n, x) \/ Fetch(n, x)
    \/ \E n \in Native, x \in Obj \cup {None} : SetField(n, x)
    \/ RunHook \/ DropField \/ Free
    \/ Collect \/ Finalize \/ Advance \/ EndSweep
    \/ Close \/ BeginFinalize \/ BeginFinal

Spec == Init /\ [][Next]_vars

-----------------------------------------------------------------------------
(* Types; what is referred to or being destroyed is allocated, and nothing *)
(* is destroyed twice: each hook is called once, also when the instance is *)
(* released by what its own hook or its neighbours in the sweep release.   *)
TypeOK ==
    /\ tab.used \in 0 .. tab.slots
    /\ tab.refs \in [Obj -> Nat]
    /\ tab.bucket \in [Obj -> (0 .. tab.slots - 1) \cup {None}]
    /\ fld \in [Obj -> Obj \cup {None}] /\ pin \in [Obj -> SUBSET Obj]
    /\ (Referenced \ {None}) \cup Dying \subseteq live /\ live \subseteq Obj
    /\ marked \subseteq Obj /\ todo \subseteq Obj
    /\ Cardinality(Dying) = Len(dtors)
    /\ pc \in {"run", "sweep", "closing", "finalize", "final", "closed"}

(* The table says of every object how often native code has pinned it, and *)
(* finds it where it looks, also between the destructors that a release    *)
(* has started: so no sq_release meets the assertion, what is pinned is    *)
(* not freed, and what was given back is not kept.                         *)
RefsExact ==
    pc \in {"run", "sweep"} =>
        /\ \A x \in Obj : GetRefCount(tab, x) = Cardinality({n \in live : x \in pin[n]})
        /\ tab.used = Cardinality(Linked(tab))

(* When a collection ends nothing is left that it did not mark, and when   *)
(* the program has closed nothing is left at all, whichever pins and       *)
(* members tie the instances to each other.                                *)
FreesAll ==
    [][/\ pc = "sweep" /\ pc' = "run" => live' \subseteq marked
       /\ pc' = "closed" => live' = {}]_vars

(* What nothing refers to and what is not being destroyed either.          *)
Forgotten == live \ (Referenced \cup Dying)

(* No step of the script leaves an object behind like that.  A collection  *)
(* does: a hook of the sweep that gives back a marked object does not      *)
(* destroy it, and nobody looks at it again before the next collection.    *)
OnlySweepForgets == [][pc = "run" /\ pc' = "run" => Forgotten' \subseteq Forgotten]_vars
=============================================================================
