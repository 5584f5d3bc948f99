---------------------------- MODULE MCRefTable ----------------------------
(***************************************************************************)
(* Three native instances.  They do not fit in a table of two nodes, where *)
(* 0 and 2 have one main position; with four nodes 2 and 3 have other main *)
(* positions than before.                                                  *)
(***************************************************************************)
EXTENDS RefTable

Objects == {0, 2, 3}
=============================================================================
