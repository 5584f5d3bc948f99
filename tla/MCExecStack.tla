---------------------------- MODULE MCExecStack ----------------------------
(***************************************************************************)
(* Three generators for TLC, each with the uses a run gives it.            *)
(***************************************************************************)
EXTENDS ExecStack

CONSTANTS g1, g2, g3

NoGens == {}
Gen1 == {g1}
Gen2 == {g2}
Gen3 == {g3}
Gen12 == {g1, g2}
Gen123 == {g1, g2, g3}
=============================================================================
