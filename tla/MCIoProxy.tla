------------------------------ MODULE MCIoProxy ------------------------------
(* Model-checking instances of IoProxy.                                    *)
EXTENDS IoProxy

\* A stream into the process and one out of it.
InAndOut == {"stdin", "stdout"}
=============================================================================
