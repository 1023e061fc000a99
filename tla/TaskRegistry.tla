---------------------------- MODULE TaskRegistry ----------------------------
(***************************************************************************)
(* What a TaskManager promises its callers (the comments of the interface  *)
(* TaskManager in internal/vm/task.go): processes are registered under     *)
(* distinct keys, an exec only in a task that is registered, and once the  *)
(* registry was closed, which takes an empty one, nothing is ever          *)
(* registered again.                                                       *)
(***************************************************************************)
EXTENDS Naturals

CONSTANTS
    Tasks,  \* task IDs
    Execs,  \* exec IDs
    Init0   \* the exec ID of a task's first process ("" in the code)

Keys == Tasks \X Execs
TaskOf(k) == k[1]
IsInit(k) == k[2] = Init0

VARIABLES
    registered,  \* the keys under which a process is registered
    closed       \* whether ShutdownIfEmpty has answered TRUE

Init == registered = {} /\ closed = FALSE

Register(k) ==
    /\ ~closed
    /\ k \notin registered
    /\ IsInit(k) \/ \E j \in registered : TaskOf(j) = TaskOf(k)
    /\ registered' = registered \cup {k}
    /\ UNCHANGED closed

Unregister(k) ==
    /\ k \in registered
    /\ registered' = registered \ {k}
    /\ UNCHANGED closed

Close ==
    /\ registered = {}
    /\ closed' = TRUE
    /\ UNCHANGED registered

Next == Close \/ \E k \in Keys : Register(k) \/ Unregister(k)

Spec == Init /\ [][Next]_<<registered, closed>>
=============================================================================
