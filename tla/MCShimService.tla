---------------------------- MODULE MCShimService ----------------------------
(* Model-checking instances of ShimService: the calls are interchangeable, *)
(* which the runs that check no temporal property use.                     *)
EXTENDS ShimService, TLC

CallSymmetry == Permutations(Calls)
=============================================================================
