----------------------------- MODULE MCSlaveVm ------------------------------
(***************************************************************************)
(* Two threads: one more than the code means to have at a time.            *)
(***************************************************************************)
EXTENDS SlaveVm

CONSTANTS t1, t2

TwoThreads == {t1, t2}
=============================================================================
