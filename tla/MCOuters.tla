------------------------------ MODULE MCOuters ------------------------------
(***************************************************************************)
(* Two closures, enough to share a variable or to be told apart by one.    *)
(***************************************************************************)
EXTENDS Outers, TLC

CONSTANTS k1, k2

TwoClosures == {k1, k2}
TwoValues == {0, 1}
Alike == Permutations(TwoClosures)
=============================================================================
