---------------------------- MODULE MCTaskManager ----------------------------
(* Model-checking instances of TaskManager.                                *)
EXTENDS TaskManager, TLC

\* The requests are interchangeable as long as no temporal property is
\* checked; key and pc give each of them its part.
CallSymmetry == Permutations(Calls)
=============================================================================
