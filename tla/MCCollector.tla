---------------------------- MODULE MCCollector ----------------------------
(* Instances of Collector for TLC.  Objects are interchangeable, and so    *)
(* are the holders of one kind, in the runs that check no liveness.        *)
EXTENDS Collector, TLC

CONSTANTS o1, o2, o3, r1, r2, h1

Symmetry == Permutations(Obj)
=============================================================================
