---------------------------- MODULE MCRelayStore ----------------------------
(***************************************************************************)
(* RelayStore for TLC: the threads are interchangeable in every run that   *)
(* checks invariants only.                                                 *)
(***************************************************************************)
EXTENDS RelayStore, TLC

Threads == Permutations(Thread)
=============================================================================
