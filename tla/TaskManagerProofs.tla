-------------------------- MODULE TaskManagerProofs --------------------------
(***************************************************************************)
(* Proofs about TaskManager.  What the module guarantees without any       *)
(* assumption on its callers is the registry of TaskRegistry; what it      *)
(* guarantees about the processes of the task service needs callers that   *)
(* do not overlap requests for one key (~Overlap).                         *)
(***************************************************************************)
EXTENDS TaskManager, TLAPS

\* The two halves of the type invariant.
LEMMA TypeInit == Init => TypeOK
  BY Init0Assumption, NoProcAssumption DEF Init, TypeOK, Keys, Running, Over

\* Every action keeps the types.
LEMMA TypeStep == TypeOK /\ [Next]_vars => TypeOK'
<1> SUFFICES ASSUME TypeOK, [Next]_vars PROVE TypeOK'
  OBVIOUS
<1> USE Init0Assumption, NoProcAssumption DEF TypeOK, Keys, Running, Over
<1> USE DEF Goto, managerVars, procVars, svcVars
<1>1. ASSUME NEW c \in Calls, NewProc(c) PROVE TypeOK'
  <2>1. CASE CanAdd(key[c])
    <3>1. procs' = With(procs, key[c], c) /\ UNCHANGED <<isShutdown, key, victim, procVars, svcVars>>
      BY <1>1, <2>1 DEF NewProc
    <3>2. pc' \in [Calls -> {"idle"} \cup Running \cup Over]
      BY <1>1, <2>1 DEF NewProc
    <3>3. DOMAIN procs' \subseteq Keys /\ procs' \in [DOMAIN procs' -> Calls]
      BY <3>1 DEF With
    <3>. QED
      BY <3>1, <3>2, <3>3
  <2>2. CASE ~CanAdd(key[c])
    BY <1>1, <2>2 DEF NewProc
  <2>. QED
    BY <2>1, <2>2
<1>2. ASSUME NEW c \in Calls, DeleteProcess(c) PROVE TypeOK'
  BY <1>2 DEF DeleteProcess
<1>3. ASSUME NEW c \in Calls, StartIO(c) PROVE TypeOK'
  BY <1>3 DEF StartIO
<1>4. ASSUME NEW c \in Calls, ServeCreate(c) PROVE TypeOK'
  <2>1. /\ UNCHANGED <<managerVars, key, victim, procVars, exited>>
        /\ pc' \in [Calls -> {"idle"} \cup Running \cup Over]
    BY <1>4 DEF ServeCreate
  <2>2. svc' = svc \/ svc' = With(svc, key[c], c)
    BY <1>4 DEF ServeCreate
  <2>3. DOMAIN svc' \subseteq Keys /\ svc' \in [DOMAIN svc' -> Calls]
    BY <2>2 DEF With
  <2>. QED
    BY <2>1, <2>3
<1>5. ASSUME NEW c \in Calls, AwaitInit(c) PROVE TypeOK'
  BY <1>5 DEF AwaitInit
<1>6. ASSUME NEW c \in Calls, Undo(c) PROVE TypeOK'
  BY <1>6 DEF Undo, Without, Restrict
<1>7. ASSUME NEW c \in Calls, ServeDelete(c) PROVE TypeOK'
  BY <1>7 DEF ServeDelete, Without, Restrict
<1>8. ASSUME NEW c \in Calls, TakeProc(c) PROVE TypeOK'
  <2>1. CASE key[c] \in DOMAIN procs
    <3>1. procs' = Without(procs, {key[c]}) /\ UNCHANGED <<isShutdown, key, procVars, svcVars>>
      BY <1>8, <2>1 DEF TakeProc
    <3>2. /\ pc' \in [Calls -> {"idle"} \cup Running \cup Over]
          /\ victim' \in [Calls -> Calls \cup {NoProc}]
      BY <1>8, <2>1 DEF TakeProc
    <3>3. DOMAIN procs' \subseteq Keys /\ procs' \in [DOMAIN procs' -> Calls]
      BY <3>1 DEF Without, Restrict
    <3>. QED
      BY <3>1, <3>2, <3>3
  <2>2. CASE key[c] \notin DOMAIN procs
    BY <1>8, <2>2 DEF TakeProc
  <2>. QED
    BY <2>1, <2>2
<1>9. ASSUME NEW c \in Calls, Flushed(c) PROVE TypeOK'
  BY <1>9 DEF Flushed
<1>10. ASSUME NEW c \in Calls, MonitorExit(c) PROVE TypeOK'
  BY <1>10 DEF MonitorExit
<1>11. ASSUME NEW c \in Calls, InitIO(c) PROVE TypeOK'
  BY <1>11 DEF InitIO
<1>12. ASSUME NEW c \in Calls, CloseIO(c) PROVE TypeOK'
  BY <1>12 DEF CloseIO
<1>13. ASSUME NEW k \in Keys, ProcessExits(k) PROVE TypeOK'
  BY <1>13 DEF ProcessExits
<1>14. CASE ShutdownIfEmpty
  BY <1>14 DEF ShutdownIfEmpty
<1>15. CASE UNCHANGED vars
  BY <1>15 DEF vars
<1>. QED
  BY <1>1, <1>2, <1>3, <1>4, <1>5, <1>6, <1>7, <1>8, <1>9, <1>10, <1>11,
     <1>12, <1>13, <1>14, <1>15 DEF Next, CreateStep, DeleteStep

\* TypeCorrect: every variable stays in its type, whatever the requests.
THEOREM TypeCorrect == Spec => []TypeOK
  BY TypeInit, TypeStep, PTL DEF Spec

\* The actions that change the registry; all others leave it alone.
LEMMA OthersKeepProcs ==
    ASSUME Next
    PROVE  \/ \E c \in Calls : NewProc(c) \/ Undo(c) \/ TakeProc(c)
           \/ ShutdownIfEmpty
           \/ UNCHANGED <<procs, isShutdown>>
  BY DEF Next, CreateStep, DeleteStep, DeleteProcess, StartIO, ServeCreate,
         AwaitInit, ServeDelete, Flushed, MonitorExit, InitIO, CloseIO,
         ProcessExits, managerVars

-----------------------------------------------------------------------------
(* Requests of one key that do not overlap.                                *)

Creating == {"start", "create", "init", "undo"}

\* No two requests that run are for the same key.
NoOverlap ==
    \A c, d \in Calls :
        c # d /\ pc[c] \in Running /\ pc[d] \in Running => key[c] # key[d]

\* A registered vmProc is registered under its own key, by its creator.
RegisteredByCreator ==
    \A k \in DOMAIN procs :
        key[procs[k]] = k /\ pc[procs[k]] \in Creating \cup {"created"}

\* The vmProc of a request that is still creating it is registered.
CreatingIsRegistered ==
    \A c \in Calls :
        pc[c] \in Creating => key[c] \in DOMAIN procs /\ procs[key[c]] = c

\* A process of the task service was created there by a request for its key.
ServedByCreator ==
    \A k \in DOMAIN svc :
        key[svc[k]] = k /\ pc[svc[k]] \in {"init", "undo", "failed", "created"}

\* DeleteProcess takes a process only once the task service forgot it.
TakenIsForgotten == \A c \in Calls : pc[c] = "take" => key[c] \notin DOMAIN svc

ClosedIsEmpty == isShutdown => DOMAIN procs = {}

IInv ==
    /\ TypeOK
    /\ NoOverlap
    /\ RegisteredByCreator
    /\ CreatingIsRegistered
    /\ ServedByCreator
    /\ TakenIsForgotten
    /\ CreatedIsManaged
    /\ ClosedIsEmpty

\* Inductive: without overlap every step preserves the invariant.
THEOREM Inductive ==
    ASSUME ~Overlap, IInv, TypeOK', [Next]_vars
    PROVE  IInv'
<1> USE DEF IInv, TypeOK, Creating, Running, Over, NoOverlap, RegisteredByCreator,
        CreatingIsRegistered, ServedByCreator, TakenIsForgotten,
        CreatedIsManaged, ClosedIsEmpty, Goto, managerVars, procVars, svcVars
<1>1. ASSUME NEW c \in Calls, NewProc(c) PROVE IInv'
  BY <1>1 DEF NewProc, With, CanAdd, MayArrive
<1>2. ASSUME NEW c \in Calls, DeleteProcess(c) PROVE IInv'
  BY <1>2 DEF DeleteProcess, MayArrive
<1>3. ASSUME NEW c \in Calls, StartIO(c) PROVE IInv'
  BY <1>3 DEF StartIO
<1>4. ASSUME NEW c \in Calls, ServeCreate(c) PROVE IInv'
  BY <1>4 DEF ServeCreate, With
<1>5. ASSUME NEW c \in Calls, AwaitInit(c) PROVE IInv'
  BY <1>5 DEF AwaitInit
<1>6. ASSUME NEW c \in Calls, Undo(c) PROVE IInv'
  BY <1>6 DEF Undo, Without, Restrict
<1>7. ASSUME NEW c \in Calls, ServeDelete(c) PROVE IInv'
  <2>1. /\ pc[c] = "delete"
        /\ \E to \in {"take", "failed"} : pc' = [pc EXCEPT ![c] = to]
    BY <1>7 DEF ServeDelete
  <2>2. UNCHANGED <<procs, isShutdown, key>>
    BY <1>7 DEF ServeDelete
  <2>3. /\ DOMAIN svc' \subseteq DOMAIN svc
        /\ \A k \in DOMAIN svc' : svc'[k] = svc[k]
        /\ pc'[c] = "take" => key[c] \notin DOMAIN svc'
    <3>1. CASE UNCHANGED svc
      BY <1>7, <3>1 DEF ServeDelete, Without, Restrict
    <3>2. ASSUME NEW K, key[c] \in K, svc' = Without(svc, K) PROVE <2>3
      BY <3>2 DEF Without, Restrict
    <3>. QED
      BY <1>7, <3>1, <3>2 DEF ServeDelete, IsInit, TaskOf
  <2>. QED
    BY <2>1, <2>2, <2>3
<1>8. ASSUME NEW c \in Calls, TakeProc(c) PROVE IInv'
  BY <1>8 DEF TakeProc, Without, Restrict
<1>9. ASSUME NEW c \in Calls, Flushed(c) PROVE IInv'
  BY <1>9 DEF Flushed
<1>10. ASSUME NEW c \in Calls, MonitorExit(c) PROVE IInv'
  BY <1>10 DEF MonitorExit
<1>11. ASSUME NEW c \in Calls, InitIO(c) PROVE IInv'
  BY <1>11 DEF InitIO
<1>12. ASSUME NEW c \in Calls, CloseIO(c) PROVE IInv'
  BY <1>12 DEF CloseIO
<1>13. ASSUME NEW k \in Keys, ProcessExits(k) PROVE IInv'
  BY <1>13 DEF ProcessExits
<1>14. CASE ShutdownIfEmpty
  BY <1>14 DEF ShutdownIfEmpty
<1>15. CASE UNCHANGED vars
  BY <1>15 DEF vars
<1>. QED
  BY <1>1, <1>2, <1>3, <1>4, <1>5, <1>6, <1>7, <1>8, <1>9, <1>10, <1>11,
     <1>12, <1>13, <1>14, <1>15 DEF Next, CreateStep, DeleteStep

\* Invariance: the invariant that Managed, EmptyWhenClosed and GivenUp rest on.
THEOREM Invariance ==
    ASSUME ~Overlap
    PROVE  Spec => []IInv
<1>1. Init => IInv
  BY TypeInit DEF Init, IInv, NoOverlap, RegisteredByCreator, CreatingIsRegistered,
     ServedByCreator, TakenIsForgotten, CreatedIsManaged, ClosedIsEmpty,
     Creating, Running
<1>2. IInv /\ [Next]_vars => IInv'
  <2>1. IInv /\ [Next]_vars => TypeOK'
    BY TypeStep DEF IInv
  <2>. QED
    BY <2>1, Inductive
<1>. QED
  BY <1>1, <1>2, PTL DEF Spec

\* Managed: CreatedIsManaged, for callers that do not overlap requests for one
\* key, however many requests, tasks and execs, and however many lost replies.
THEOREM Managed ==
    ASSUME ~Overlap
    PROVE  Spec => []CreatedIsManaged
<1>1. IInv => CreatedIsManaged
  BY DEF IInv
<1>. QED
  BY <1>1, Invariance, PTL

\* EmptyWhenClosed: NothingLeftBehind under the same condition, without which
\* the run task_overlap refutes it.
THEOREM EmptyWhenClosed ==
    ASSUME ~Overlap
    PROVE  Spec => []NothingLeftBehind
<1>1. IInv => NothingLeftBehind
  BY DEF IInv, TypeOK, CreatedIsManaged, ClosedIsEmpty, NothingLeftBehind
<1>. QED
  BY <1>1, Invariance, PTL

\* GivenUp: a process is given up only as GivenUpRightly says, under the same
\* condition.
THEOREM GivenUp ==
    ASSUME ~Overlap
    PROVE  Spec => GivenUpRightly
<1> DEFINE Step == \A k \in DOMAIN procs \ DOMAIN procs' :
                      pc[procs[k]] = "undo" \/ k \notin DOMAIN svc
<1>1. IInv /\ [Next]_vars => [Step]_vars
  <2> SUFFICES ASSUME IInv, Next PROVE Step
    OBVIOUS
  <2>1. ASSUME NEW c \in Calls, Undo(c) PROVE Step
    BY <2>1 DEF Undo, Without, Restrict, IInv, CreatingIsRegistered, Creating, Goto
  <2>2. ASSUME NEW c \in Calls, TakeProc(c) PROVE Step
    BY <2>2 DEF TakeProc, Without, Restrict, IInv, TakenIsForgotten, Goto
  <2>3. ASSUME NEW c \in Calls, NewProc(c) PROVE Step
    BY <2>3 DEF NewProc, With
  <2>4. ASSUME UNCHANGED procs PROVE Step
    BY <2>4
  <2>5. ShutdownIfEmpty => UNCHANGED procs
    BY DEF ShutdownIfEmpty
  <2> HIDE DEF Step
  <2>. QED
    BY <2>1, <2>2, <2>3, <2>4, <2>5, OthersKeepProcs
<1>. QED
  BY <1>1, Invariance, PTL DEF Spec, GivenUpRightly

-----------------------------------------------------------------------------
(* The refinement, which needs no assumption on the callers.               *)

\* Implements: whatever the requests, their overlaps and the failures of the
\* task service and the streams, the TaskManager is the registry its
\* interface promises.
THEOREM Implements == Spec => RegistrySpec
<1>1. Init => Registry!Init
  BY DEF Init, Registry!Init
<1>2. TypeOK /\ [Next]_vars => [Registry!Next]_<<DOMAIN procs, isShutdown>>
  <2> SUFFICES ASSUME TypeOK, [Next]_vars
               PROVE  Registry!Next \/ UNCHANGED <<DOMAIN procs, isShutdown>>
    OBVIOUS
  <2> USE DEF Registry!Next, Registry!Keys, Keys, TypeOK, Goto
  <2>1. ASSUME NEW c \in Calls, NewProc(c)
        PROVE  Registry!Register(key[c]) \/ UNCHANGED <<procs, isShutdown>>
    BY <2>1 DEF NewProc, With, CanAdd, IsInit, TaskOf,
                Registry!Register, Registry!IsInit, Registry!TaskOf
  <2>2. ASSUME NEW c \in Calls, Undo(c)
        PROVE  Registry!Unregister(key[c]) \/ UNCHANGED <<DOMAIN procs, isShutdown>>
    BY <2>2 DEF Undo, Without, Restrict, Registry!Unregister
  <2>3. ASSUME NEW c \in Calls, TakeProc(c)
        PROVE  Registry!Unregister(key[c]) \/ UNCHANGED <<procs, isShutdown>>
    BY <2>3 DEF TakeProc, Without, Restrict, Registry!Unregister
  <2>4. CASE ShutdownIfEmpty
    BY <2>4 DEF ShutdownIfEmpty, Registry!Close
  <2>5. CASE UNCHANGED <<procs, isShutdown>>
    BY <2>5
  <2>6. CASE UNCHANGED vars
    BY <2>6 DEF vars, managerVars
  <2>. QED
    BY <2>1, <2>2, <2>3, <2>4, <2>5, <2>6, OthersKeepProcs
<1>. QED
  BY <1>1, <1>2, TypeCorrect, PTL DEF Spec, RegistrySpec, Registry!Spec
=============================================================================
