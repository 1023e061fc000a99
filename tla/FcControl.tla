------------------------------ MODULE FcControl ------------------------------
(***************************************************************************)
(* The firecracker-control plugin (firecracker-control/local.go): CreateVM *)
(* takes two abstract socket addresses and a directory for a VM ID, forks  *)
(* a shim that inherits the sockets, starts a goroutine that reaps it,     *)
(* forwards the request to it and records its pid; StopVM forwards the     *)
(* request and waits, under the mutex of the records, for that pid to go.  *)
(*                                                                         *)
(* Shims and reapers are named after the CreateVM that started them.  An   *)
(* address is taken while any process holds a descriptor of it: the        *)
(* plugin's listener ("call"), the copy the reaper closes ("file") or the  *)
(* shim ("shim").  The shim is the environment; ShimService is its inside. *)
(***************************************************************************)
EXTENDS Naturals

CONSTANTS
    Calls,       \* the CreateVM and StopVM requests
    Vms,         \* VM IDs
    NoCall,
    EagerStop,   \* whether a StopVM may come before the CreateVM of its VM
                 \* has returned
    MaxRestarts  \* bound on the restarts of containerd, the plugin's process

ASSUME NoCallAssumption == NoCall \notin Calls
ASSUME EagerStopAssumption == EagerStop \in BOOLEAN
ASSUME MaxRestartsAssumption == MaxRestarts \in Nat

VARIABLES
    pc,         \* where each request is
    vm,         \* the VM ID each request is about
    err,        \* the value of err (shimErr in StopVM) is not nil
    target,     \* the shim whose socket a StopVM was connected to
    expired,    \* the requests whose context is done
    shimFds,    \* descriptors of the shim sockets: <<kind, CreateVM>>
    fcFds,      \* descriptors of the fccontrol sockets
    shim,       \* the process of each shim: "booting" until its VM is up,
                \* "serving", "stopping" with its VM gone, "dying" unasked
    reaper,     \* the goroutine that waits for each shim
    dir,        \* whether the directory of a VM ID exists
    processes,  \* s.processes: the shim recorded for each VM ID
    mu,         \* who holds s.processesMu across a wait
    restarts

callVars == <<pc, vm, err, target, expired>>
fdVars == <<shimFds, fcFds>>
shimVars == <<shim, reaper>>
recordVars == <<processes, mu>>
vars == <<callVars, fdVars, shimVars, dir, recordVars, restarts>>

Creating == {"dir", "fc", "fork", "oom", "call", "kill", "record",
             "closeFc", "rmdir", "closeShim"}
Stopping == {"stop", "lookup", "poll"}
Living == {"booting", "serving", "stopping", "dying"}
Replies == {"exists", "failed", "created", "refused", "unknown", "gaveUp",
            "forced", "stopped", "closed"}

Init ==
    /\ pc = [c \in Calls |-> "idle"]
    /\ vm \in [Calls -> Vms]
    /\ err = [c \in Calls |-> FALSE]
    /\ target = [c \in Calls |-> NoCall]
    /\ expired = {}
    /\ shimFds = {} /\ fcFds = {}
    /\ shim = [c \in Calls |-> "none"]
    /\ reaper = [c \in Calls |-> "off"]
    /\ dir = [v \in Vms |-> FALSE]
    /\ processes = [v \in Vms |-> NoCall] /\ mu = NoCall
    /\ restarts = 0

Goto(c, from, to) == /\ pc[c] = from
                     /\ pc' = [pc EXCEPT ![c] = to]

\* A CreateVM that goes on with an error.
Fail(c, from, to) == Goto(c, from, to) /\ err' = [err EXCEPT ![c] = TRUE]
Succeed(c, from, to) == Goto(c, from, to) /\ UNCHANGED err

\* Mutant of InUse: only what the plugin itself holds counts.
PluginInUse(fds, v) == \E h \in fds : vm[h[2]] = v /\ h[1] # "shim"

\* The address of a VM ID cannot be listened on.
InUse(fds, v) == \E h \in fds : vm[h[2]] = v

-----------------------------------------------------------------------------
(* CreateVM.                                                               *)

\* shim.NewSocket: EADDRINUSE is taken for a shim that manages the VM.
CreateVM(c) ==
    /\ IF InUse(shimFds, vm[c])
       THEN Goto(c, "idle", "exists") /\ UNCHANGED shimFds
       ELSE \/ Goto(c, "idle", "dir") /\ shimFds' = shimFds \cup {<<"call", c>>}
            \/ Goto(c, "idle", "failed") /\ UNCHANGED shimFds
    /\ UNCHANGED <<vm, err, target, expired, fcFds, shimVars, dir, recordVars, restarts>>

\* The base directory and shimDir.Mkdir, a no-op if the directory is there.
MakeDir(c) ==
    /\ \/ Succeed(c, "dir", "fc") /\ dir' = [dir EXCEPT ![vm[c]] = TRUE]
       \/ Fail(c, "dir", "closeShim") /\ UNCHANGED dir
    /\ UNCHANGED <<vm, target, expired, fdVars, shimVars, recordVars, restarts>>

\* The socket of the fccontrol service; any failure is an error.
ListenFc(c) ==
    /\ \/ /\ ~InUse(fcFds, vm[c])
          /\ Succeed(c, "fc", "fork") /\ fcFds' = fcFds \cup {<<"call", c>>}
       \/ Fail(c, "fc", "rmdir") /\ UNCHANGED fcFds
    /\ UNCHANGED <<vm, target, expired, shimFds, shimVars, dir, recordVars, restarts>>

\* newShim up to "go func": copies of the sockets, cmd.Start in the directory,
\* the reaper.  An error leaves the copies made so far to the garbage collector.
Fork(c) ==
    /\ \/ /\ dir[vm[c]]
          /\ Succeed(c, "fork", "oom")
          /\ shimFds' = shimFds \cup {<<"file", c>>, <<"shim", c>>}
          /\ fcFds' = fcFds \cup {<<"file", c>>, <<"shim", c>>}
          /\ shim' = [shim EXCEPT ![c] = "booting"]
          /\ reaper' = [reaper EXCEPT ![c] = "wait"]
       \/ /\ Fail(c, "fork", "closeFc")
          /\ \/ UNCHANGED fdVars
             \/ shimFds' = shimFds \cup {<<"file", c>>} /\ UNCHANGED fcFds
             \/ /\ shimFds' = shimFds \cup {<<"file", c>>}
                /\ fcFds' = fcFds \cup {<<"file", c>>}
          /\ UNCHANGED <<shim, reaper>>
    /\ UNCHANGED <<vm, target, expired, dir, recordVars, restarts>>

\* setShimOOMScore: its error is returned before the deferred Kill exists.
SetShimOOMScore(c) ==
    /\ Succeed(c, "oom", "call") \/ Fail(c, "oom", "closeFc")
    /\ UNCHANGED <<vm, target, expired, fdVars, shimVars, dir, recordVars, restarts>>

\* shimFirecrackerClient and client.CreateVM, which puts the sockets of the VM
\* in the directory: on an error, be it the context's, the VM may be up.
CallShim(c) ==
    /\ \/ /\ shim[c] = "booting" /\ dir[vm[c]]
          /\ shim' = [shim EXCEPT ![c] = "serving"]
          /\ Succeed(c, "call", "record") \/ Fail(c, "call", "kill")
       \/ Fail(c, "call", "kill") /\ UNCHANGED shim
    /\ UNCHANGED <<vm, target, expired, fdVars, reaper, dir, recordVars, restarts>>

Kill(c) ==
    /\ Goto(c, "kill", "closeFc")
    /\ shim' = [shim EXCEPT ![c] = IF @ \in Living THEN "dying" ELSE @]
    /\ UNCHANGED <<vm, err, target, expired, fdVars, reaper, dir, recordVars, restarts>>

\* Mutant of AddShim: the VM ID is recorded in the place of the pid.
SwappedAddShim(c) ==
    /\ mu = NoCall
    /\ Goto(c, "record", "closeFc")
    /\ processes' = [processes EXCEPT ![vm[c]] = vm[c]]
    /\ UNCHANGED <<vm, err, target, expired, fdVars, shimVars, dir, mu, restarts>>

\* addShim
AddShim(c) ==
    /\ mu = NoCall
    /\ Goto(c, "record", "closeFc")
    /\ processes' = [processes EXCEPT ![vm[c]] = c]
    /\ UNCHANGED <<vm, err, target, expired, fdVars, shimVars, dir, mu, restarts>>

\* The deferred calls, last one first: fcSocket.Close, os.RemoveAll on an
\* error, shimSocket.Close.
CloseFc(c) ==
    /\ Goto(c, "closeFc", IF err[c] THEN "rmdir" ELSE "closeShim")
    /\ fcFds' = fcFds \ {<<"call", c>>}
    /\ UNCHANGED <<vm, err, target, expired, shimFds, shimVars, dir, recordVars, restarts>>

RemoveDir(c) ==
    /\ Goto(c, "rmdir", "closeShim")
    /\ dir' = [dir EXCEPT ![vm[c]] = FALSE]
    /\ UNCHANGED <<vm, err, target, expired, fdVars, shimVars, recordVars, restarts>>

CloseShim(c) ==
    /\ Goto(c, "closeShim", IF err[c] THEN "failed" ELSE "created")
    /\ shimFds' = shimFds \ {<<"call", c>>}
    /\ UNCHANGED <<vm, err, target, expired, fcFds, shimVars, dir, recordVars, restarts>>

CreateStep(c) ==
    \/ MakeDir(c) \/ ListenFc(c) \/ Fork(c) \/ SetShimOOMScore(c)
    \/ Kill(c) \/ AddShim(c) \/ CloseFc(c) \/ RemoveDir(c) \/ CloseShim(c)

-----------------------------------------------------------------------------
(* StopVM.                                                                 *)

\* shimFirecrackerClient connects if anybody holds the socket of the VM ID.
StopVM(c) ==
    /\ EagerStop \/ \A d \in Calls : vm[d] = vm[c] => pc[d] \notin Creating
    /\ \/ /\ ~InUse(fcFds, vm[c])
          /\ Goto(c, "idle", "refused") /\ UNCHANGED target
       \/ \E h \in fcFds :
             /\ vm[h[2]] = vm[c]
             /\ Goto(c, "idle", "stop") /\ target' = [target EXCEPT ![c] = h[2]]
    /\ UNCHANGED <<vm, err, expired, fdVars, shimVars, dir, recordVars, restarts>>

\* client.StopVM returns: the shim stopped its VM, and is about to exit, with
\* or without an error; or it waited in vain for a VM, is gone or never came,
\* or the context is done.
ShimAnswers(c) ==
    LET t == target[c]
    IN /\ pc[c] = "stop"
       /\ \/ /\ shim[t] \in {"serving", "stopping"}
             /\ shim' = [shim EXCEPT ![t] = "stopping"]
             /\ Succeed(c, "stop", "lookup") \/ Fail(c, "stop", "lookup")
          \/ /\ \/ shim[t] \in {"booting", "dying", "zombie", "reaped"}
                \/ shim[t] = "none" /\ ~ \E h \in fcFds : h[2] = t
                \/ c \in expired
             /\ Fail(c, "stop", "lookup")
             /\ UNCHANGED shim
       /\ UNCHANGED <<vm, target, expired, fdVars, reaper, dir, recordVars, restarts>>

\* Mutant of LookUp: the mutex is not given back when there is no pid.
StuckLookUp(c) ==
    /\ mu = NoCall
    /\ mu' = c
    /\ Goto(c, "lookup", IF processes[vm[c]] = NoCall THEN "unknown" ELSE "poll")
    /\ UNCHANGED <<vm, err, target, expired, fdVars, shimVars, dir, processes, restarts>>

\* waitForShimToExit takes the mutex and looks the pid up.
LookUp(c) ==
    /\ mu = NoCall
    /\ IF processes[vm[c]] = NoCall
       THEN Goto(c, "lookup", "unknown") /\ UNCHANGED mu
       ELSE Goto(c, "lookup", "poll") /\ mu' = c
    /\ UNCHANGED <<vm, err, target, expired, fdVars, shimVars, dir, processes, restarts>>

\* Mutant of Poll: a process that no longer serves counts as gone.
HastyPoll(c) ==
    /\ pc[c] = "poll"
    /\ \/ /\ shim[processes[vm[c]]] \notin {"booting", "serving"}
          /\ Goto(c, "poll", IF err[c] THEN "forced" ELSE "stopped")
       \/ c \in expired /\ Goto(c, "poll", "gaveUp")
    /\ processes' = [processes EXCEPT ![vm[c]] = NoCall]
    /\ mu' = NoCall
    /\ UNCHANGED <<vm, err, target, expired, fdVars, shimVars, dir, restarts>>

\* WaitForPidToExit, and the deferred delete and Unlock.  A zombie still
\* exists; the context is looked at first.
Poll(c) ==
    /\ pc[c] = "poll"
    /\ \/ /\ c \notin expired /\ shim[processes[vm[c]]] = "reaped"
          /\ Goto(c, "poll", IF err[c] THEN "forced" ELSE "stopped")
       \/ c \in expired /\ Goto(c, "poll", "gaveUp")
    /\ processes' = [processes EXCEPT ![vm[c]] = NoCall]
    /\ mu' = NoCall
    /\ UNCHANGED <<vm, err, target, expired, fdVars, shimVars, dir, restarts>>

\* The context of a StopVM is done: a deadline, or its client went away.
\* The wait for the mutex does not look at it.
Expire(c) ==
    /\ pc[c] \in {"stop", "poll"} /\ c \notin expired
    /\ expired' = expired \cup {c}
    /\ UNCHANGED <<pc, vm, err, target, fdVars, shimVars, dir, recordVars, restarts>>

StopStep(c) == LookUp(c) \/ Poll(c)

-----------------------------------------------------------------------------
(* The shims and their reapers.                                            *)

\* A shim ends by itself: its CreateVM failed, or its VMM exited.
ShimStops(c) ==
    /\ shim[c] \in {"booting", "serving"}
    /\ shim' = [shim EXCEPT ![c] = IF @ = "serving" THEN "stopping" ELSE "dying"]
    /\ UNCHANGED <<callVars, fdVars, reaper, dir, recordVars, restarts>>

\* The process ends, and its descriptors are closed.
ShimExits(c) ==
    /\ shim[c] \in {"stopping", "dying"}
    /\ shim' = [shim EXCEPT ![c] = "zombie"]
    /\ shimFds' = shimFds \ {<<"shim", c>>}
    /\ fcFds' = fcFds \ {<<"shim", c>>}
    /\ UNCHANGED <<callVars, reaper, dir, recordVars, restarts>>

\* cmd.Wait returns; without the plugin that forked it, init waits for the shim.
Wait(c) ==
    /\ shim[c] = "zombie"
    /\ shim' = [shim EXCEPT ![c] = "reaped"]
    /\ reaper' = [reaper EXCEPT ![c] = IF @ = "wait" THEN "closeShim" ELSE "off"]
    /\ UNCHANGED <<callVars, fdVars, dir, recordVars, restarts>>

\* Mutant of Reap: the directory is left.
LittererReap(c) ==
    /\ \/ /\ reaper[c] = "closeShim" /\ reaper' = [reaper EXCEPT ![c] = "closeFc"]
          /\ shimFds' = shimFds \ {<<"file", c>>} /\ UNCHANGED fcFds
       \/ /\ reaper[c] = "closeFc" /\ reaper' = [reaper EXCEPT ![c] = "off"]
          /\ fcFds' = fcFds \ {<<"file", c>>} /\ UNCHANGED shimFds
    /\ UNCHANGED <<callVars, shim, dir, recordVars, restarts>>

\* The rest of the goroutine: both copies are closed, the directory removed.
Reap(c) ==
    /\ \/ /\ reaper[c] = "closeShim" /\ reaper' = [reaper EXCEPT ![c] = "closeFc"]
          /\ shimFds' = shimFds \ {<<"file", c>>} /\ UNCHANGED <<fcFds, dir>>
       \/ /\ reaper[c] = "closeFc" /\ reaper' = [reaper EXCEPT ![c] = "remove"]
          /\ fcFds' = fcFds \ {<<"file", c>>} /\ UNCHANGED <<shimFds, dir>>
       \/ /\ reaper[c] = "remove" /\ reaper' = [reaper EXCEPT ![c] = "off"]
          /\ dir' = [dir EXCEPT ![vm[c]] = FALSE] /\ UNCHANGED fdVars
    /\ UNCHANGED <<callVars, shim, recordVars, restarts>>

\* The finalizers of the copies of a fork that failed.
CollectFiles(c) ==
    /\ shim[c] = "none"
    /\ \/ <<"file", c>> \in shimFds /\ shimFds' = shimFds \ {<<"file", c>>} /\ UNCHANGED fcFds
       \/ <<"file", c>> \in fcFds /\ fcFds' = fcFds \ {<<"file", c>>} /\ UNCHANGED shimFds
    /\ UNCHANGED <<callVars, shimVars, dir, recordVars, restarts>>

ShimStep(c) == ShimExits(c) \/ Wait(c) \/ Reap(c) \/ CollectFiles(c)

\* containerd is restarted.  Only the shims and their descriptors are left:
\* processes is not stored anywhere.
Restart ==
    /\ restarts < MaxRestarts
    /\ restarts' = restarts + 1
    /\ pc' = [c \in Calls |-> IF pc[c] \in Creating \cup Stopping THEN "closed" ELSE pc[c]]
    /\ shimFds' = {h \in shimFds : h[1] = "shim"}
    /\ fcFds' = {h \in fcFds : h[1] = "shim"}
    /\ reaper' = [c \in Calls |-> "off"]
    /\ processes' = [v \in Vms |-> NoCall] /\ mu' = NoCall
    /\ UNCHANGED <<vm, err, target, expired, shim, dir>>

Next ==
    \/ \E c \in Calls : \/ CreateVM(c) \/ CreateStep(c) \/ CallShim(c)
                        \/ StopVM(c) \/ StopStep(c) \/ ShimAnswers(c) \/ Expire(c)
                        \/ ShimStops(c) \/ ShimStep(c)
    \/ Restart

Spec == Init /\ [][Next]_vars

\* Goroutines run; a shim that ends exits and is waited for; finalizers run.
\* Nothing is assumed of the answers of the shims and the contexts of the
\* requests: no code sets these a deadline.
Fairness ==
    \A c \in Calls : WF_vars(CreateStep(c)) /\ WF_vars(StopStep(c)) /\ WF_vars(ShimStep(c))

FairSpec == Spec /\ Fairness

-----------------------------------------------------------------------------
(* Properties.                                                             *)

Kinds == {"call", "file", "shim"}

TypeOK ==
    /\ pc \in [Calls -> {"idle"} \cup Creating \cup Stopping \cup Replies]
    /\ vm \in [Calls -> Vms]
    /\ err \in [Calls -> BOOLEAN]
    /\ target \in [Calls -> Calls \cup {NoCall}]
    /\ expired \subseteq Calls
    /\ shimFds \subseteq Kinds \X Calls /\ fcFds \subseteq Kinds \X Calls
    /\ shim \in [Calls -> Living \cup {"none", "zombie", "reaped"}]
    /\ reaper \in [Calls -> {"off", "wait", "closeShim", "closeFc", "remove"}]
    /\ dir \in [Vms -> BOOLEAN]
    /\ processes \in [Vms -> Calls \cup {NoCall}]
    /\ mu \in Calls \cup {NoCall}
    /\ restarts \in 0 .. MaxRestarts

Alive(c) == shim[c] \in Living

\* One shim per VM ID, also when creations race each other, fail half way or
\* leave a shim behind, and across a restart of containerd that forgets all.
OneShim == \A c, d \in Calls : Alive(c) /\ Alive(d) /\ vm[c] = vm[d] => c = d

\* "If the function above uses StopVMRequest, all underlying processes must be
\* dead at the end of the request": a StopVM that reports success has waited
\* for the shim that served it, though the pid is looked up by VM ID afterwards.
StoppedMeansGone == \A c \in Calls : pc[c] = "stopped" => ~Alive(target[c])

Settled(v) ==
    \A c \in Calls :
        vm[c] = v => /\ pc[c] \in {"idle"} \cup Replies
                     /\ shim[c] \in {"none", "reaped"} /\ reaper[c] = "off"
                     /\ <<"file", c>> \notin shimFds \cup fcFds

\* When nothing runs for a VM ID any more, whatever failed on the way, its
\* directory is gone and its addresses are free, so that the ID can be used.
NothingLeft ==
    \A v \in Vms :
        Settled(v) /\ restarts = 0 =>
            ~dir[v] /\ ~InUse(shimFds, v) /\ ~InUse(fcFds, v)

\* What a request waits for by itself: the answer of its shim, and the exit of
\* the process it has found, unless its context is done.
ShimsAnswer == []<>(\A c \in Calls : pc[c] \notin {"call", "stop"})
WaitsEnd ==
    []<>(\A c \in Calls :
            pc[c] = "poll" => c \in expired \/ shim[processes[vm[c]]] = "reaped")

\* Every request comes back when these waits end.  They are the only ones: the
\* mutex that is held over a wait is given back on every path, and nobody who
\* holds it, or an address, waits for somebody who needs it.
CallsReturn ==
    ShimsAnswer /\ WaitsEnd => \A c \in Calls : pc[c] # "idle" ~> pc[c] \in Replies

\* "Our plugin creates the VM, placing the firecracker socket at path
\* /var/lib/firecracker-containerd/shim-base/<vm_id>/firecracker.sock": a VM
\* that was created has its directory while it runs.
CreatedHasDir ==
    \A c \in Calls : pc[c] = "created" /\ shim[c] = "serving" => dir[vm[c]]
=============================================================================
