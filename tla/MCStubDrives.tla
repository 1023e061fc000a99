---------------------------- MODULE MCStubDrives ----------------------------
(* Model-checking instances of StubDrives.                                 *)
EXTENDS StubDrives, TLC

\* The requests are interchangeable; only runs without a temporal property
\* use it.
CallSymmetry == Permutations(Calls)
=============================================================================
