----------------------------- MODULE MCHostGuest -----------------------------
(***************************************************************************)
(* One task with one exec for TLC.                                         *)
(***************************************************************************)
EXTENDS HostGuest, TLC

Symmetry == Permutations(Calls)
=============================================================================
