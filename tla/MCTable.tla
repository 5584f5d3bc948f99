------------------------------ MODULE MCTable ------------------------------
(***************************************************************************)
(* Keys for TLC.  Keys7 can grow the array to 16 nodes, at an insertion    *)
(* and at a removal, with two pairs of keys that collide at size 8; Keys4  *)
(* has three keys of one main position at size 4 and one, 3, whose main    *)
(* position the first of them is moved to.                                 *)
(***************************************************************************)
EXTENDS Table

Keys7 == {0, 8, 1, 9, 3, 6, 7}
Keys4 == {0, 3, 4, 8}
Four == {4}
FourOrEight == {4, 8}

(* What the last call handed back does not decide what follows.            *)
Array == t
State == <<t, loop>>
=============================================================================
