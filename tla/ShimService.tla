----------------------------- MODULE ShimService -----------------------------
(***************************************************************************)
(* The life of one microVM inside its runtime shim (runtime/service.go):   *)
(* CreateVM, which runs once; the vmReady gate other calls wait at;        *)
(* StopVM and containerd's Shutdown; the shutdownLoop goroutine each of    *)
(* them starts; monitorVMExit; the cleanup that runs once; and the two     *)
(* VM events the shim publishes.                                           *)
(*                                                                         *)
(* A call is a model value.  Its program counter pc[c] says which handler  *)
(* it is in and how far it got; the final values of pc are the replies.    *)
(* The VMM process, the in-VM agent and the jailer are the environment:    *)
(* every request to them may succeed or fail.  Timers are choices.         *)
(***************************************************************************)
EXTENDS Naturals, Sequences

CONSTANTS
    Calls,         \* the RPCs that reach the shim, one model value each
    Bounded,       \* the calls whose context ends: the caller has set a
                   \* deadline or goes away.  The shim itself sets none
    MaxTasks,      \* bound on the tasks registered at once
    JailerSignals  \* whether jailer.Stop() can signal the VMM: FALSE for the
                   \* noop jailer without a firecracker_binary_path, whose pid
                   \* stays 0

ASSUME BoundedAssumption == Bounded \subseteq Calls
ASSUME MaxTasksAssumption == MaxTasks \in Nat
ASSUME JailerSignalsAssumption == JailerSignals \in BOOLEAN

VARIABLES
    pc,         \* Calls -> where the handler of the call is
    loop,       \* Calls -> where the shutdownLoop goroutine it started is
    once,       \* vmStartOnce: "idle", "running" or "done"
    machine,    \* s.machine: "nil", "created", "running" or "exited"
    vmErr,      \* whether machine.Wait returns an error once it has exited
    clients,    \* whether agentClient, eventBridgeClient, driveMountClient are set
    exitAfter,  \* s.exitAfterAllTasksDeleted
    vmReady,    \* whether the channel vmReady is closed
    monitor,    \* the monitorVMExit goroutine: "off", "wait", "clean" or "done"
    cleanup,    \* cleanupOnce: "idle", "publish", "cancel" or "done"
    cleanErr,   \* s.cleanupErr # nil
    events,     \* the VM events published, oldest first
    shimDone,   \* whether shimCancel() was called
    up,         \* whether the shim process lives
    tasks,      \* how many tasks the TaskManager holds
    isShutdown, \* taskManager.isShutdown
    sigterm     \* whether the VMM was sent SIGTERM

vmVars == <<machine, vmErr, sigterm>>
taskVars == <<tasks, isShutdown>>
cleanVars == <<cleanup, cleanErr, shimDone, events>>
readyVars == <<once, clients, exitAfter, vmReady>>
vars == <<pc, loop, monitor, up, vmVars, taskVars, cleanVars, readyVars>>

CreatePc == {"once", "build", "start", "dial", "arm", "mount",
             "abort", "announce", "monitor", "ready"}
StopPc == {"gate", "stop", "clean"}
Replies == {"created", "exists", "failed", "timeout", "ignored",
            "stopped", "forced", "closed"}
Pc == {"idle"} \cup CreatePc \cup StopPc \cup Replies

Init ==
    /\ pc = [c \in Calls |-> "idle"]
    /\ loop = [c \in Calls |-> "off"]
    /\ once = "idle"
    /\ machine = "nil" /\ vmErr = FALSE /\ sigterm = FALSE
    /\ clients = FALSE /\ exitAfter = FALSE /\ vmReady = FALSE
    /\ monitor = "off"
    /\ cleanup = "idle" /\ cleanErr = FALSE
    /\ events = <<>>
    /\ shimDone = FALSE /\ up = TRUE
    /\ tasks = 0 /\ isShutdown = FALSE

Goto(c, from, to) == /\ pc[c] = from
                     /\ pc' = [pc EXCEPT ![c] = to]

-----------------------------------------------------------------------------
(* CreateVM.                                                               *)

\* A CreateVM request arrives.
CreateVM(c) ==
    /\ Goto(c, "idle", "once")
    /\ UNCHANGED <<loop, monitor, up, vmVars, taskVars, cleanVars, readyVars>>

\* vmStartOnce.Do: the first caller runs createVM; the others block until it
\* has returned and then get AlreadyExists, whatever it returned.
StartOnce(c) ==
    /\ \/ once = "idle" /\ Goto(c, "once", "build") /\ once' = "running"
       \/ once = "done" /\ Goto(c, "once", "exists") /\ UNCHANGED once
    /\ UNCHANGED <<loop, monitor, up, vmVars, taskVars, cleanVars,
                   clients, exitAfter, vmReady>>

\* newJailer, buildVMConfiguration, BuildJailedMachine and NewMachine: only
\* when all of them succeed is s.machine set.
Build(c) ==
    /\ \/ Goto(c, "build", "start") /\ machine' = "created" /\ UNCHANGED once
       \/ Goto(c, "build", "abort") /\ once' = "done" /\ UNCHANGED machine
    /\ UNCHANGED <<loop, monitor, up, vmErr, sigterm, taskVars, cleanVars,
                   clients, exitAfter, vmReady>>

\* machine.Start: a failure may come before or after the VMM process exists.
StartMachine(c) ==
    /\ \/ Goto(c, "start", "dial") /\ machine' = "running" /\ UNCHANGED once
       \/ /\ Goto(c, "start", "abort") /\ once' = "done"
          /\ machine' \in {"created", "running"}
    /\ UNCHANGED <<loop, monitor, up, vmErr, sigterm, taskVars, cleanVars,
                   clients, exitAfter, vmReady>>

\* VSockDial to the agent until the timeout of the request, then the clients.
DialAgent(c) ==
    /\ \/ /\ machine = "running" /\ Goto(c, "dial", "arm")
          /\ clients' = TRUE /\ UNCHANGED once
       \/ Goto(c, "dial", "abort") /\ once' = "done" /\ UNCHANGED clients
    /\ UNCHANGED <<loop, monitor, up, vmVars, taskVars, cleanVars,
                   exitAfter, vmReady>>

\* exitAfterAllTasksDeleted is copied from the request, the drives not being
\* mounted yet.
ArmExit(c) ==
    /\ Goto(c, "arm", "mount")
    /\ exitAfter' \in BOOLEAN
    /\ UNCHANGED <<loop, monitor, up, vmVars, taskVars, cleanVars,
                   once, clients, vmReady>>

\* mountDrives: with no drive to mount it succeeds even if the VM is gone.
MountDrives(c) ==
    /\ \/ Goto(c, "mount", "announce")
       \/ Goto(c, "mount", "abort")
    /\ once' = "done"
    /\ UNCHANGED <<loop, monitor, up, vmVars, taskVars, cleanVars,
                   clients, exitAfter, vmReady>>

\* "If we failed to create the VM, we have no point in existing anymore".
AbortCreate(c) ==
    /\ Goto(c, "abort", "failed")
    /\ shimDone' = TRUE
    /\ UNCHANGED <<loop, monitor, up, vmVars, taskVars, readyVars,
                   cleanup, cleanErr, events>>

AnnounceVM(c) ==
    /\ Goto(c, "announce", "monitor")
    /\ events' = Append(events, "start")
    /\ UNCHANGED <<loop, monitor, up, vmVars, taskVars, readyVars,
                   cleanup, cleanErr, shimDone>>

GoMonitor(c) ==
    /\ Goto(c, "monitor", "ready")
    /\ monitor' = "wait"
    /\ UNCHANGED <<loop, up, vmVars, taskVars, cleanVars, readyVars>>

OpenGate(c) ==
    /\ Goto(c, "ready", "created")
    /\ vmReady' = TRUE
    /\ UNCHANGED <<loop, monitor, up, vmVars, taskVars, cleanVars,
                   once, clients, exitAfter>>

CreateStep(c) ==
    \/ StartOnce(c) \/ Build(c) \/ StartMachine(c) \/ DialAgent(c) \/ ArmExit(c)
    \/ MountDrives(c) \/ AbortCreate(c) \/ AnnounceVM(c) \/ GoMonitor(c) \/ OpenGate(c)

-----------------------------------------------------------------------------
(* StopVM and Shutdown.                                                    *)

\* A StopVM request arrives and waits at the gate.
StopVM(c) ==
    /\ Goto(c, "idle", "gate")
    /\ UNCHANGED <<loop, monitor, up, vmVars, taskVars, cleanVars, readyVars>>

\* Mutant of WaitVMReady: StopVM does not wait for the VM.
UngatedWaitVMReady(c) ==
    /\ Goto(c, "gate", "stop")
    /\ loop' = [loop EXCEPT ![c] = "agent"]
    /\ UNCHANGED <<monitor, up, vmVars, taskVars, cleanVars, readyVars>>

\* waitVMReady: the gate opens, or vmReadyTimeout runs out.  A select whose
\* two channels are both ready picks either, so the timeout is never excluded.
\* An open gate lets StopVM into shutdown, which starts a shutdownLoop.
WaitVMReady(c) ==
    /\ \/ /\ vmReady
          /\ Goto(c, "gate", "stop")
          /\ loop' = [loop EXCEPT ![c] = "agent"]
       \/ Goto(c, "gate", "timeout") /\ UNCHANGED loop
    /\ UNCHANGED <<monitor, up, vmVars, taskVars, cleanVars, readyVars>>

\* containerd's Shutdown (its Now is never set): ignored unless
\* exitAfterAllTasksDeleted is set and ShutdownIfEmpty finds no task, which
\* closes the TaskManager for good.  It does not wait for vmReady.
Shutdown(c) ==
    /\ IF exitAfter /\ tasks = 0
       THEN /\ Goto(c, "idle", "stop")
            /\ isShutdown' = TRUE
            /\ loop' = [loop EXCEPT ![c] = "agent"]
       ELSE Goto(c, "idle", "ignored") /\ UNCHANGED <<isShutdown, loop>>
    /\ UNCHANGED <<monitor, up, vmVars, tasks, cleanVars, readyVars>>

\* shutdown: machine.Wait(context.Background()) returns when the VMM has
\* exited and not before; then cleanup().
AwaitMachine(c) ==
    /\ machine = "exited"
    /\ Goto(c, "stop", "clean")
    /\ UNCHANGED <<loop, monitor, up, vmVars, taskVars, cleanVars, readyVars>>

\* Mutant of ReplyStop: shutdown takes a cleanup that has begun for done.
HastyReplyStop(c) ==
    /\ cleanup # "idle"
    /\ Goto(c, "clean", IF vmErr \/ cleanErr THEN "forced" ELSE "stopped")
    /\ UNCHANGED <<loop, monitor, up, vmVars, taskVars, cleanVars, readyVars>>

\* shutdown returns: any error, of Wait or of cleanup, becomes "the VMM was
\* killed forcibly".
ReplyStop(c) ==
    /\ cleanup = "done"
    /\ Goto(c, "clean", IF vmErr \/ cleanErr THEN "forced" ELSE "stopped")
    /\ UNCHANGED <<loop, monitor, up, vmVars, taskVars, cleanVars, readyVars>>

StopStep(c) == WaitVMReady(c) \/ AwaitMachine(c) \/ ReplyStop(c)

\* shutdownLoop, first action: ask the agent to shut the VM down.
AskAgent(c) ==
    /\ loop[c] = "agent"
    /\ loop' = [loop EXCEPT ![c] = IF machine = "exited" THEN "done" ELSE "asked"]
    /\ UNCHANGED <<pc, monitor, up, vmVars, taskVars, cleanVars, readyVars>>

\* agentClient.Shutdown returns: the agent agrees, or the request fails, with
\* its context at the latest.  The loop goes on, if the agent agrees after a
\* sleep.  An agent that hangs, asked without a deadline, holds the loop here.
AgentReturns(c) ==
    /\ loop[c] = "asked"
    /\ loop' = [loop EXCEPT ![c] = "jailer"]
    /\ UNCHANGED <<pc, monitor, up, vmVars, taskVars, cleanVars, readyVars>>

\* shutdownLoop, second and last action: jailer.Stop(), a SIGTERM.
StopJailer(c) ==
    /\ loop[c] = "jailer"
    /\ loop' = [loop EXCEPT ![c] = "done"]
    /\ sigterm' = (sigterm \/ (machine # "exited" /\ JailerSignals))
    /\ UNCHANGED <<pc, monitor, up, machine, vmErr, taskVars, cleanVars, readyVars>>

LoopStep(c) == AskAgent(c) \/ AgentReturns(c) \/ StopJailer(c)

-----------------------------------------------------------------------------
(* monitorVMExit and cleanup.                                              *)

\* Mutant of MonitorVMExit: the monitor waits for the shim's context alone.
DeafMonitorVMExit ==
    /\ \/ monitor = "wait" /\ shimDone /\ monitor' = "clean"
       \/ monitor = "clean" /\ cleanup = "done" /\ monitor' = "done"
    /\ UNCHANGED <<pc, loop, up, vmVars, taskVars, cleanVars, readyVars>>

\* machine.Wait(s.shimCtx) returns when the VMM exits or the shim is done.
MonitorVMExit ==
    /\ \/ monitor = "wait" /\ (machine = "exited" \/ shimDone) /\ monitor' = "clean"
       \/ monitor = "clean" /\ cleanup = "done" /\ monitor' = "done"
    /\ UNCHANGED <<pc, loop, up, vmVars, taskVars, cleanVars, readyVars>>

Cleaning == monitor = "clean" \/ \E c \in Calls : pc[c] = "clean"

\* Mutant of CloseJailer: cleanup without the sync.Once.
RepeatedCloseJailer ==
    /\ cleanup \in {"idle", "done"} /\ Cleaning
    /\ cleanup' = "publish"
    /\ cleanErr' \in BOOLEAN
    /\ UNCHANGED <<pc, loop, monitor, up, vmVars, taskVars, readyVars,
                   events, shimDone>>

\* cleanupOnce.Do, by whoever comes first; the others wait for it to return.
\* jailer.Close() may fail, and the cleanup goes on.
CloseJailer ==
    /\ cleanup = "idle" /\ Cleaning
    /\ cleanup' = "publish"
    /\ cleanErr' \in BOOLEAN
    /\ UNCHANGED <<pc, loop, monitor, up, vmVars, taskVars, readyVars,
                   events, shimDone>>

PublishVMStop ==
    /\ cleanup = "publish"
    /\ cleanup' = "cancel"
    /\ events' = Append(events, "stop")
    /\ UNCHANGED <<pc, loop, monitor, up, vmVars, taskVars, readyVars,
                   cleanErr, shimDone>>

\* "once the VM shuts down, the shim should too"
CancelShim ==
    /\ cleanup = "cancel"
    /\ cleanup' = "done"
    /\ shimDone' = TRUE
    /\ UNCHANGED <<pc, loop, monitor, up, vmVars, taskVars, readyVars,
                   cleanErr, events>>

CleanupStep == CloseJailer \/ PublishVMStop \/ CancelShim

-----------------------------------------------------------------------------
(* The TaskManager as this module sees it: tasks come and go until it is   *)
(* closed.  A task is registered only by a Create that passed the gate.    *)

\* Mutant of NewProc: tasks are registered after ShutdownIfEmpty said yes.
LateNewProc ==
    /\ vmReady
    /\ tasks < MaxTasks
    /\ tasks' = tasks + 1
    /\ UNCHANGED <<pc, loop, monitor, up, vmVars, isShutdown, cleanVars, readyVars>>

NewProc ==
    /\ vmReady /\ ~isShutdown
    /\ tasks < MaxTasks
    /\ tasks' = tasks + 1
    /\ UNCHANGED <<pc, loop, monitor, up, vmVars, isShutdown, cleanVars, readyVars>>

\* Mutant of DeleteProc: a task is deleted twice.
DoubleDeleteProc ==
    /\ vmReady
    /\ tasks' = tasks - 1
    /\ UNCHANGED <<pc, loop, monitor, up, vmVars, isShutdown, cleanVars, readyVars>>

DeleteProc ==
    /\ tasks > 0
    /\ tasks' = tasks - 1
    /\ UNCHANGED <<pc, loop, monitor, up, vmVars, isShutdown, cleanVars, readyVars>>

-----------------------------------------------------------------------------
(* The environment.                                                        *)

\* The VMM exits: the guest rebooted, it crashed, or a signal ended it.
VmmExits ==
    /\ machine = "running"
    /\ machine' = "exited"
    /\ vmErr' \in BOOLEAN
    /\ UNCHANGED <<pc, loop, monitor, up, sigterm, taskVars, cleanVars, readyVars>>

\* A cancelled shim process exits at some point; the calls it had not
\* answered end with a closed connection.
ShimExits ==
    /\ up /\ shimDone
    /\ up' = FALSE
    /\ pc' = [c \in Calls |-> IF pc[c] \in Replies \cup {"idle"} THEN pc[c] ELSE "closed"]
    /\ UNCHANGED <<loop, monitor, vmVars, taskVars, cleanVars, readyVars>>

CallStep(c) == up /\ (CreateStep(c) \/ StopStep(c))
GoroutineStep(c) == up /\ LoopStep(c)
BackgroundStep == up /\ (MonitorVMExit \/ CleanupStep)

Next ==
    \/ \E c \in Calls :
          \/ up /\ (CreateVM(c) \/ StopVM(c) \/ Shutdown(c))
          \/ CallStep(c)
          \/ GoroutineStep(c)
    \/ BackgroundStep
    \/ up /\ (NewProc \/ DeleteProc)
    \/ VmmExits
    \/ ShimExits

Spec == Init /\ [][Next]_vars

\* The Go scheduler runs every goroutine that can run; a request to the agent
\* ends with its context, if that ends; a VMM that got SIGTERM exits; a shim
\* whose context is cancelled exits.  Nothing is assumed of the agent.
Fairness ==
    /\ \A c \in Calls : /\ WF_vars(up /\ StopStep(c))
                        /\ WF_vars(up /\ (AskAgent(c) \/ StopJailer(c)))
    /\ \A c \in Bounded : WF_vars(up /\ AgentReturns(c))
    /\ WF_vars(BackgroundStep)
    /\ WF_vars(sigterm /\ VmmExits)
    /\ WF_vars(ShimExits)

FairSpec == Spec /\ Fairness

-----------------------------------------------------------------------------
(* Properties.                                                             *)

TypeOK ==
    /\ pc \in [Calls -> Pc]
    /\ loop \in [Calls -> {"off", "agent", "asked", "jailer", "done"}]
    /\ once \in {"idle", "running", "done"}
    /\ machine \in {"nil", "created", "running", "exited"}
    /\ vmErr \in BOOLEAN /\ clients \in BOOLEAN /\ exitAfter \in BOOLEAN
    /\ vmReady \in BOOLEAN /\ cleanErr \in BOOLEAN /\ shimDone \in BOOLEAN
    /\ up \in BOOLEAN /\ isShutdown \in BOOLEAN /\ sigterm \in BOOLEAN
    /\ monitor \in {"off", "wait", "clean", "done"}
    /\ cleanup \in {"idle", "publish", "cancel", "done"}
    /\ events \in Seq({"start", "stop"})
    /\ tasks \in 0 .. MaxTasks

Published(e) == \E i \in DOMAIN events : events[i] = e

\* A shutdown uses s.machine and s.agentClient without a check: whoever is in
\* it, StopVM behind the gate or Shutdown in front of it, finds a VMM that was
\* started and an agent that was dialled, never a nil pointer.
ShutdownFindsVM ==
    \A c \in Calls :
        pc[c] \in {"stop", "clean"} \/ loop[c] # "off" =>
            clients /\ machine \in {"running", "exited"}

\* Once containerd's Shutdown was accepted the VM holds no task and never
\* gets one again: no container dies with a VM that was shut down as empty.
AcceptedShutdownIsEmpty == isShutdown => tasks = 0 /\ exitAfter

\* A caller told that the VM was stopped finds the VMM gone, the stop event
\* published and the shim on its way out, whoever of the racing callers and
\* the monitor ran the cleanup.
StoppedMeansGone ==
    \A c \in Calls :
        pc[c] \in {"stopped", "forced"} =>
            machine = "exited" /\ Published("stop") /\ shimDone

\* Unless containerd's Shutdown was accepted, a VM is announced once, before
\* its stop event, and its end is announced at most once.
EventsInOrder ==
    ~isShutdown => events \in {<<>>, <<"start">>, <<"start", "stop">>}

\* A VM that exits after its start succeeded, crashed or not, is noticed: the
\* stop event is published and the shim cancelled without any request.
ExitIsNoticed == vmReady /\ machine = "exited" ~> Published("stop") /\ shimDone

\* Every StopVM and every accepted Shutdown whose context ends comes back,
\* whether or not the agent answers: the loop reaches its SIGTERM.
StopReturns == \A c \in Bounded : pc[c] = "stop" ~> pc[c] # "stop"

\* Neither the end of the VM nor a bounded request to end it goes unanswered.
NothingHangs == ExitIsNoticed /\ StopReturns
=============================================================================
