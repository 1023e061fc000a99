----------------------------- MODULE TaskManager -----------------------------
(***************************************************************************)
(* The TaskManager (internal/vm/task.go) with the requests that run in it  *)
(* concurrently: CreateTask and ExecProcess, which share all of their      *)
(* control and are told apart by the key they create, DeleteProcess and    *)
(* ShutdownIfEmpty.  A request is a model value; a vmProc is named after   *)
(* the request that created it.                                            *)
(*                                                                         *)
(* Outside of the module's control: the task service a request is          *)
(* forwarded to (the agent on the host, runc in the VM) and the IO proxy.  *)
(***************************************************************************)
EXTENDS Naturals, Functions

CONSTANTS
    Tasks, Execs, Init0,  \* as in TaskRegistry
    Calls,       \* the requests, one model value each
    NoProc,      \* a nil *vmProc or channel
    Overlap,     \* whether a request may arrive while another for the same
                 \* key is still running
    LoseReplies  \* whether the task service may serve a request and the
                 \* answer be lost (deadline, broken connection)

ASSUME Init0Assumption == Init0 \in Execs
ASSUME NoProcAssumption == NoProc \notin Calls
ASSUME FlagsAssumption == Overlap \in BOOLEAN /\ LoseReplies \in BOOLEAN

Keys == Tasks \X Execs
TaskOf(k) == k[1]
IsInit(k) == k[2] = Init0

VARIABLES
    procs,       \* m.tasks, flattened: key -> the vmProc registered under it
    isShutdown,  \* m.isShutdown
    pc,          \* where each request is
    key,         \* the key each request is about
    victim,      \* the vmProc whose ioCopyDone a DeleteProcess waits for
    io,          \* the state of each vmProc's streams
    cancelled,   \* the vmProcs whose ctx is cancelled
    monitor,     \* the monitorExit goroutine of each vmProc
    svc,         \* the task service: key -> the request that created the process
    exited       \* the processes of the task service that have exited

managerVars == <<procs, isShutdown>>
procVars == <<io, cancelled, monitor>>
svcVars == <<svc, exited>>
vars == <<managerVars, pc, key, victim, procVars, svcVars>>

Running == {"start", "create", "init", "undo", "delete", "take", "flush"}
Over == {"refused", "created", "deleted", "failed"}

Init ==
    /\ procs = [k \in {} |-> NoProc]
    /\ isShutdown = FALSE
    /\ pc = [c \in Calls |-> "idle"]
    /\ key \in [Calls -> Keys]
    /\ victim = [c \in Calls |-> NoProc]
    /\ io = [c \in Calls |-> "none"]
    /\ cancelled = {}
    /\ monitor = [c \in Calls |-> "off"]
    /\ svc = [k \in {} |-> NoProc]
    /\ exited = {}

Goto(c, from, to) == /\ pc[c] = from
                     /\ pc' = [pc EXCEPT ![c] = to]

\* f with k mapped to c, and f without the keys of K.
With(f, k, c) == [j \in DOMAIN f \cup {k} |-> IF j = k THEN c ELSE f[j]]
Without(f, K) == Restrict(f, DOMAIN f \ K)

\* A request may arrive for a key.
MayArrive(k) == Overlap \/ \A d \in Calls : pc[d] \in Running => key[d] # k

-----------------------------------------------------------------------------
(* CreateTask and ExecProcess.                                             *)

\* Mutant of CanAdd: the registry is open after it was shut down.
ReopenedCanAdd(k) ==
    /\ IsInit(k) \/ \E j \in DOMAIN procs : TaskOf(j) = TaskOf(k)
    /\ k \notin DOMAIN procs

\* Mutant of CanAdd: an exec needs no task.
OrphanCanAdd(k) ==
    /\ ~isShutdown
    /\ k \notin DOMAIN procs

\* What newProc asks of a key.
CanAdd(k) ==
    /\ ~isShutdown
    /\ IsInit(k) \/ \E j \in DOMAIN procs : TaskOf(j) = TaskOf(k)
    /\ k \notin DOMAIN procs

\* Mutant of NewProc: the key is reserved with a nil vmProc.
NilNewProc(c) ==
    /\ MayArrive(key[c])
    /\ IF CanAdd(key[c])
       THEN Goto(c, "idle", "start") /\ procs' = With(procs, key[c], NoProc)
       ELSE Goto(c, "idle", "refused") /\ UNCHANGED procs
    /\ UNCHANGED <<isShutdown, key, victim, procVars, svcVars>>

\* newProc, under the mutex.
NewProc(c) ==
    /\ MayArrive(key[c])
    /\ IF CanAdd(key[c])
       THEN Goto(c, "idle", "start") /\ procs' = With(procs, key[c], c)
       ELSE Goto(c, "idle", "refused") /\ UNCHANGED procs
    /\ UNCHANGED <<isShutdown, key, victim, procVars, svcVars>>

\* ioProxy.start: begins the initialisation and sets both channels.
StartIO(c) ==
    /\ Goto(c, "start", "create")
    /\ io' = [io EXCEPT ![c] = "init"]
    /\ UNCHANGED <<managerVars, key, victim, cancelled, monitor, svcVars>>

\* taskService.Create or Exec.  The service serves the request only if it has
\* no such process and, for an exec, has the task.
ServeCreate(c) ==
    /\ \/ /\ key[c] \notin DOMAIN svc
          /\ IsInit(key[c]) \/ <<TaskOf(key[c]), Init0>> \in DOMAIN svc
          /\ svc' = With(svc, key[c], c)
          /\ Goto(c, "create", "init") \/ (LoseReplies /\ Goto(c, "create", "undo"))
       \/ Goto(c, "create", "undo") /\ UNCHANGED svc
    /\ UNCHANGED <<managerVars, key, victim, procVars, exited>>

\* <-proc.ioInitDone, then either the error path or "go m.monitorExit".
AwaitInit(c) ==
    /\ \/ /\ io[c] \in {"copying", "closed"}
          /\ Goto(c, "init", "created")
          /\ monitor' = [monitor EXCEPT ![c] = "wait"]
       \/ io[c] = "failed" /\ Goto(c, "init", "undo") /\ UNCHANGED monitor
    /\ UNCHANGED <<managerVars, key, victim, io, cancelled, svcVars>>

\* The deferred error path: proc.cancel() and deleteProc, which looks the
\* process up by its key, whoever is registered there by now.
Undo(c) ==
    /\ Goto(c, "undo", "failed")
    /\ cancelled' = cancelled \cup {c}
    /\ procs' = Without(procs, {key[c]})
    /\ UNCHANGED <<isShutdown, key, victim, io, monitor, svcVars>>

-----------------------------------------------------------------------------
(* DeleteProcess.                                                          *)

\* Mutant of DeleteProcess: the process is given up before the service is asked.
BlindDeleteProcess(c) ==
    /\ MayArrive(key[c])
    /\ Goto(c, "idle", "take")
    /\ UNCHANGED <<managerVars, key, victim, procVars, svcVars>>

\* A DeleteProcess request arrives.
DeleteProcess(c) ==
    /\ MayArrive(key[c])
    /\ Goto(c, "idle", "delete")
    /\ UNCHANGED <<managerVars, key, victim, procVars, svcVars>>

\* taskService.Delete: an exited process, and with a task's first process the
\* whole task, is forgotten by the service.
ServeDelete(c) ==
    /\ \/ /\ key[c] \in DOMAIN svc /\ svc[key[c]] \in exited
          /\ svc' = Without(svc, IF IsInit(key[c])
                                 THEN {k \in DOMAIN svc : TaskOf(k) = TaskOf(key[c])}
                                 ELSE {key[c]})
          /\ Goto(c, "delete", "take") \/ (LoseReplies /\ Goto(c, "delete", "failed"))
       \/ Goto(c, "delete", "failed") /\ UNCHANGED svc
    /\ UNCHANGED <<managerVars, key, victim, procVars, exited>>

\* deleteProc, under the mutex, and the channel the caller will wait for: nil
\* if the streams of the process were not started.
TakeProc(c) ==
    /\ IF key[c] \in DOMAIN procs
       THEN /\ Goto(c, "take", "flush")
            /\ procs' = Without(procs, {key[c]})
            /\ LET p == procs[key[c]]
               IN victim' = [victim EXCEPT ![c] = IF io[p] = "none" THEN NoProc ELSE p]
       ELSE Goto(c, "take", "failed") /\ UNCHANGED <<procs, victim>>
    /\ UNCHANGED <<isShutdown, key, procVars, svcVars>>

\* <-proc.ioCopyDone
Flushed(c) ==
    /\ victim[c] # NoProc /\ io[victim[c]] \in {"failed", "closed"}
    /\ Goto(c, "flush", "deleted")
    /\ UNCHANGED <<managerVars, key, victim, procVars, svcVars>>

-----------------------------------------------------------------------------
(* ShutdownIfEmpty and monitorExit.                                        *)

ShutdownIfEmpty ==
    /\ DOMAIN procs = {}
    /\ isShutdown' = TRUE
    /\ UNCHANGED <<procs, pc, key, victim, procVars, svcVars>>

\* Mutant of MonitorExit: the exited process is given up at once.
ReapingMonitorExit(p) ==
    /\ monitor[p] = "wait"
    /\ p \in exited \cup cancelled \/ p \notin Range(svc)
    /\ monitor' = [monitor EXCEPT ![p] = "done"]
    /\ cancelled' = cancelled \cup {p}
    /\ procs' = Without(procs, {key[p]})
    /\ UNCHANGED <<isShutdown, pc, key, victim, io, svcVars>>

\* taskService.Wait(proc.ctx) returns when the process has exited, is not
\* known to the service, or the context is cancelled; then proc.cancel().
MonitorExit(p) ==
    /\ monitor[p] = "wait"
    /\ p \in exited \cup cancelled \/ p \notin Range(svc)
    /\ monitor' = [monitor EXCEPT ![p] = "done"]
    /\ cancelled' = cancelled \cup {p}
    /\ UNCHANGED <<managerVars, pc, key, victim, io, svcVars>>

-----------------------------------------------------------------------------
(* The environment.                                                        *)

\* The streams of a process are connected, or fail to.
InitIO(p) ==
    /\ io[p] = "init"
    /\ io' = [io EXCEPT ![p] = "copying"] \/ io' = [io EXCEPT ![p] = "failed"]
    /\ UNCHANGED <<managerVars, pc, key, victim, cancelled, monitor, svcVars>>

\* Copying ends: the streams close, at the latest a flush timeout after the
\* context was cancelled.
CloseIO(p) ==
    /\ io[p] = "copying"
    /\ io' = [io EXCEPT ![p] = "closed"]
    /\ UNCHANGED <<managerVars, pc, key, victim, cancelled, monitor, svcVars>>

ProcessExits(k) ==
    /\ k \in DOMAIN svc
    /\ svc[k] \notin exited
    /\ exited' = exited \cup {svc[k]}
    /\ UNCHANGED <<managerVars, pc, key, victim, procVars, svc>>

CreateStep(c) == StartIO(c) \/ ServeCreate(c) \/ AwaitInit(c) \/ Undo(c)
DeleteStep(c) == ServeDelete(c) \/ TakeProc(c) \/ Flushed(c)

Next ==
    \/ \E c \in Calls : \/ NewProc(c) \/ DeleteProcess(c)
                        \/ CreateStep(c) \/ DeleteStep(c)
                        \/ MonitorExit(c) \/ InitIO(c) \/ CloseIO(c)
    \/ \E k \in Keys : ProcessExits(k)
    \/ ShutdownIfEmpty

Spec == Init /\ [][Next]_vars

-----------------------------------------------------------------------------
(* Properties.                                                             *)

TypeOK ==
    /\ DOMAIN procs \subseteq Keys /\ procs \in [DOMAIN procs -> Calls]
    /\ isShutdown \in BOOLEAN
    /\ pc \in [Calls -> {"idle"} \cup Running \cup Over]
    /\ key \in [Calls -> Keys]
    /\ victim \in [Calls -> Calls \cup {NoProc}]
    /\ io \in [Calls -> {"none", "init", "copying", "failed", "closed"}]
    /\ cancelled \subseteq Calls
    /\ monitor \in [Calls -> {"off", "wait", "done"}]
    /\ DOMAIN svc \subseteq Keys /\ svc \in [DOMAIN svc -> Calls]
    /\ exited \subseteq Calls

\* A process whose creation succeeded is managed as long as the task service
\* has it, so an ID is never free for reuse while its process exists.
CreatedIsManaged ==
    \A k \in DOMAIN svc :
        pc[svc[k]] = "created" => k \in DOMAIN procs /\ procs[k] = svc[k]

\* "check if there are no tasks left being managed and, if so, prevent any new
\* tasks from being added": after ShutdownIfEmpty answered TRUE no process
\* that a caller was told exists is left behind in the task service.
NothingLeftBehind ==
    isShutdown => \A k \in DOMAIN svc : pc[svc[k]] # "created"

\* A managed process is given up by its own failing creator, or by a
\* DeleteProcess once the task service has forgotten the process: deleteProc
\* looks up by key, and must not hit a process somebody else relies on.
GivenUpRightly ==
    [][\A k \in DOMAIN procs \ DOMAIN procs' :
          pc[procs[k]] = "undo" \/ k \notin DOMAIN svc]_vars

\* The TaskManager implements the registry its interface promises.
Registry == INSTANCE TaskRegistry WITH registered <- DOMAIN procs,
                                       closed <- isShutdown
RegistrySpec == Registry!Spec
=============================================================================
