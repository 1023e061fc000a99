---------------------------- MODULE MCEventBridge ----------------------------
(***************************************************************************)
(* The event bridge of one VM for TLC.                                     *)
(***************************************************************************)
EXTENDS EventBridge
=============================================================================
