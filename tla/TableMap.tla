------------------------------ MODULE TableMap ------------------------------
(***************************************************************************)
(* What a SquiLu table promises its callers: a finite map, whatever its    *)
(* node array looks like.  res is what the last call handed back: a truth  *)
(* value and the value of a slot.                                          *)
(*                                                                         *)
(* Two answers are left open because the array decides them: NewSlot may   *)
(* deny that it created a slot, and storing into the slot null, which is   *)
(* never a slot, may claim success.                                        *)
(***************************************************************************)
EXTENDS Integers

CONSTANTS Key,      \* the keys that are not null
          NullKey,  \* the null object used as a key
          NoVal,    \* the null object in place of a value
          Width     \* the integers of the script have this many bits

VARIABLES map, res

vars == <<map, res>>

Val == 0 .. 2^Width - 1
Answer(ok, v) == [ok |-> ok, val |-> v]
Silent == Answer(TRUE, NoVal)

Put(k, v) == map' = [x \in DOMAIN map \cup {k} |-> IF x = k THEN v ELSE map[x]]

Init == map = <<>> /\ res = Silent

Get(k) ==
    /\ res' = IF k \in DOMAIN map THEN Answer(TRUE, map[k]) ELSE Answer(FALSE, NoVal)
    /\ UNCHANGED map

Set(k, v) ==
    \/ res' = Silent /\ k \in DOMAIN map /\ Put(k, v)
    \/ res' = Answer(FALSE, NoVal) /\ k \notin DOMAIN map /\ UNCHANGED map
    \/ res' = Silent /\ k = NullKey /\ UNCHANGED map

NewSlot(k, v) ==
    /\ \/ res' = Answer(FALSE, NoVal)
       \/ k \notin DOMAIN map /\ res' = Silent
    /\ Put(k, v)

(* Adds v to a slot, in the arithmetic of the machine.                     *)
IncNum(k, v, addMissing) ==
    IF k \in DOMAIN map
    THEN res' = Silent /\ Put(k, (map[k] + v) % 2^Width)
    ELSE IF addMissing THEN res' = Silent /\ Put(k, v)
         ELSE UNCHANGED map /\ res' = Answer(FALSE, NoVal)

DeleteSlot(k) ==
    IF k \in DOMAIN map
    THEN /\ res' = Answer(TRUE, map[k])
         /\ map' = [x \in DOMAIN map \ {k} |-> map[x]]
    ELSE UNCHANGED map /\ res' = Answer(FALSE, NoVal)

Clear == res' = Silent /\ map' = <<>>

(* The caller goes on with the clone: the same map.                        *)
Clone == UNCHANGED map /\ res' = Silent

Next ==
    \/ \E k \in Key \cup {NullKey} : Get(k) \/ DeleteSlot(k) \/ \E v \in Val : Set(k, v)
    \/ \E k \in Key, v \in Val :
          NewSlot(k, v) \/ \E addMissing \in BOOLEAN : IncNum(k, v, addMissing)
    \/ Clear \/ Clone

Spec == Init /\ [][Next]_vars
=============================================================================
