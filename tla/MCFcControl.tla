----------------------------- MODULE MCFcControl -----------------------------
(* Model-checking instances of FcControl.                                  *)
EXTENDS FcControl, TLC

\* Requests and VM IDs are interchangeable in a run without a temporal
\* property.
Symmetry == Permutations(Calls) \cup Permutations(Vms)
=============================================================================
