------------------------------ MODULE HostGuest ------------------------------
(***************************************************************************)
(* A task on both sides of the VM: Create, Exec and Delete of the shim     *)
(* (runtime/service.go) and the requests they make of the agent            *)
(* (AgentTasks).  A request may be given up by the shim, when its context  *)
(* ends, and still be served by the agent.                                 *)
(*                                                                         *)
(* The stub drives are abstracted to the set of tasks that have one        *)
(* (StubDrives has the handler), and the TaskManager to its registry.      *)
(***************************************************************************)
EXTENDS AgentTasks

CONSTANTS
    LoseReplies  \* whether the shim may give a request up

ASSUME LoseRepliesAssumption == LoseReplies \in BOOLEAN

VARIABLES
    hpc,       \* where each request is in the shim
    links,     \* the tasks with a bundle link in the VM directory
    drives,    \* the tasks that have a stub drive
    known,     \* the processes in the TaskManager of the shim
    nextPort,  \* s.vsockIOPortCount
    ports,     \* the vsock ports of each request
    gaveUp     \* the requests whose answer the shim did not wait for

hostVars == <<hpc, links, drives, known, nextPort, ports, gaveUp>>
vars == <<agentVars, hostVars>>

Over == {"created", "deleted", "failed"}

Init ==
    /\ AgentInit
    /\ hpc = [c \in Calls |-> "idle"]
    /\ links = {} /\ drives = {}
    /\ known = [k \in Keys |-> NoCall]
    /\ nextPort = 0 /\ ports = [c \in Calls |-> {}]
    /\ gaveUp = {}

Goto(c, from, to) == hpc[c] = from /\ hpc' = [hpc EXCEPT ![c] = to]

-----------------------------------------------------------------------------
(* containerd.                                                             *)

\* containerd was told that a process was created.
Told(k) == \E d \in Calls : hpc[d] = "created" /\ Key(d) = k

\* It does not send two requests about a process at a time, and asks for execs
\* of tasks, and for the deletion of processes, that it was told of.
MayCall(method, k) ==
    /\ \A d \in Calls : hpc[d] \notin Over \cup {"idle"} => Key(d) # k
    /\ method = "create" => IsInit(k)
    /\ method = "exec" => ~IsInit(k) /\ Told(<<TaskOf(k), Init0>>)
    /\ method = "delete" => Told(k)

\* The streams of a process are proxied, or its IO stays within the agent.
IOs(method) == IF method = "delete" THEN {"none"} ELSE {"streams", "agent"}

Call(c, method, k, io) ==
    /\ MayCall(method, k)
    /\ Goto(c, "idle", CASE method = "create" -> "link"
                         [] method = "exec" -> "ports"
                         [] method = "delete" -> "send")
    /\ req' = [req EXCEPT ![c] = [method |-> method, key |-> k, io |-> io]]
    /\ UNCHANGED <<apc, mountVars, fifos, cleanVars, managed, runcVars,
                   links, drives, known, nextPort, ports, gaveUp>>

-----------------------------------------------------------------------------
(* Create and Exec.                                                        *)

\* CreateBundleLink and CreateAddressLink fail if the link is there.
CreateLink(c) ==
    /\ IF Task(c) \in links
       THEN Goto(c, "link", "failed") /\ UNCHANGED links
       ELSE Goto(c, "link", "reserve") /\ links' = links \cup {Task(c)}
    /\ UNCHANGED <<agentVars, drives, known, nextPort, ports, gaveUp>>

\* The one mount of the rootfs is checked and a stub drive reserved: the agent
\* makes the bundle and mounts the image of the task in it.
Reserve(c) ==
    /\ \/ /\ Task(c) \notin drives
          /\ Goto(c, "reserve", "ports")
          /\ drives' = drives \cup {Task(c)}
          /\ mounted' = mounted \cup {Task(c)} /\ bundles' = bundles \cup {Task(c)}
       \/ Goto(c, "reserve", "failed") /\ UNCHANGED <<drives, mountVars>>
    /\ UNCHANGED <<req, apc, fifos, cleanVars, managed, runcVars,
                   links, known, nextPort, ports, gaveUp>>

\* generateExtraData: three times nextVSockPort, each under the mutex.
GenerateExtraData(c) ==
    /\ \/ Goto(c, "ports", "register") \/ Goto(c, "ports", "failed")
    /\ nextPort' = nextPort + 3
    /\ ports' = [ports EXCEPT ![c] = nextPort..(nextPort + 2)]
    /\ UNCHANGED <<agentVars, links, drives, known, gaveUp>>

\* TaskManager: newProc; the streams are started and the agent is asked.
Register(c) ==
    /\ IF known[Key(c)] = NoCall
          /\ (IsInit(Key(c)) \/ \E k \in Siblings(Key(c)) : known[k] # NoCall)
       THEN /\ Goto(c, "register", "wait")
            /\ known' = [known EXCEPT ![Key(c)] = c]
            /\ apc' = [apc EXCEPT ![c] = "sent"]
       ELSE Goto(c, "register", "failed") /\ UNCHANGED <<known, apc>>
    /\ UNCHANGED <<req, mountVars, fifos, cleanVars, managed, runcVars,
                   links, drives, nextPort, ports, gaveUp>>

\* The answer of the agent to Create or Exec, or the shim stops waiting for it.
CreateReturns(c) ==
    /\ req[c].method \in {"create", "exec"}
    /\ \/ apc[c] = "served" /\ Goto(c, "wait", "io") /\ UNCHANGED gaveUp
       \/ apc[c] = "failed" /\ Goto(c, "wait", "undo") /\ UNCHANGED gaveUp
       \/ LoseReplies /\ Goto(c, "wait", "undo") /\ gaveUp' = gaveUp \cup {c}
    /\ UNCHANGED <<agentVars, links, drives, known, nextPort, ports>>

\* The streams are connected, or are not.
HostAwaitIO(c) ==
    /\ Goto(c, "io", "created") \/ (HasStreams(c) /\ Goto(c, "io", "undo"))
    /\ UNCHANGED <<agentVars, links, drives, known, nextPort, ports, gaveUp>>

\* TaskManager: the deferred deleteProc.  Nothing else is taken back.
HostUndo(c) ==
    /\ Goto(c, "undo", "failed")
    /\ known' = [known EXCEPT ![Key(c)] = NoCall]
    /\ UNCHANGED <<agentVars, links, drives, nextPort, ports, gaveUp>>

-----------------------------------------------------------------------------
(* Delete.                                                                 *)

SendDelete(c) ==
    /\ Goto(c, "send", "wait")
    /\ apc' = [apc EXCEPT ![c] = "sent"]
    /\ UNCHANGED <<req, mountVars, fifos, cleanVars, managed, runcVars,
                   links, drives, known, nextPort, ports, gaveUp>>

\* The answer of the agent to Delete, or the shim stops waiting for it.
DeleteReturns(c) ==
    /\ req[c].method = "delete"
    /\ \/ apc[c] = "served" /\ Goto(c, "wait", "take") /\ UNCHANGED gaveUp
       \/ apc[c] = "failed" /\ Goto(c, "wait", "failed") /\ UNCHANGED gaveUp
       \/ LoseReplies /\ Goto(c, "wait", "failed") /\ gaveUp' = gaveUp \cup {c}
    /\ UNCHANGED <<agentVars, links, drives, known, nextPort, ports>>

\* TaskManager: deleteProc.  The Delete of an exec ends here.
HostTakeProc(c) ==
    /\ IF known[Key(c)] = NoCall
       THEN Goto(c, "take", "failed") /\ UNCHANGED known
       ELSE /\ Goto(c, "take", IF IsInit(Key(c)) THEN "release" ELSE "deleted")
            /\ known' = [known EXCEPT ![Key(c)] = NoCall]
    /\ UNCHANGED <<agentVars, links, drives, nextPort, ports, gaveUp>>

\* Release of the stub drive, which may fail: its unmount, if the agent has
\* not done it before.
Release(c) ==
    /\ \/ /\ Task(c) \in drives
          /\ Goto(c, "release", "unlink")
          /\ drives' = drives \ {Task(c)} /\ mounted' = mounted \ {Task(c)}
       \/ Goto(c, "release", "unlinkErr") /\ UNCHANGED <<drives, mounted>>
    /\ UNCHANGED <<req, apc, bundles, fifos, cleanVars, managed, runcVars,
                   links, known, nextPort, ports, gaveUp>>

\* The bundle link is removed in any case.
Unlink(c) ==
    /\ Goto(c, "unlink", "deleted") \/ Goto(c, "unlinkErr", "failed")
    /\ links' = links \ {Task(c)}
    /\ UNCHANGED <<agentVars, drives, known, nextPort, ports, gaveUp>>

-----------------------------------------------------------------------------
HostStep(c) ==
    \/ CreateLink(c) \/ Reserve(c) \/ GenerateExtraData(c) \/ Register(c)
    \/ CreateReturns(c) \/ HostAwaitIO(c) \/ HostUndo(c)
    \/ SendDelete(c) \/ DeleteReturns(c) \/ HostTakeProc(c) \/ Release(c) \/ Unlink(c)

\* Start, Pause, Resume and Kill are forwarded as they are.
Forward == UNCHANGED hostVars /\ \E k \in Keys : ServeStep(k)

Next ==
    \/ \E c \in Calls :
          \/ \E method \in Methods, k \in Keys : \E io \in IOs(method) :
                Call(c, method, k, io)
          \/ req[c] # Idle /\ HostStep(c)
          \/ req[c] # Idle /\ AgentStep(c) /\ UNCHANGED hostVars
    \/ Forward

Spec == Init /\ [][Next]_vars

-----------------------------------------------------------------------------
(* Properties.                                                             *)

\* The variables have their types, and runc has a status for what it has.
TypeOK ==
    /\ req \in [Calls -> {Idle} \cup [method : Methods, key : Keys,
                                     io : {"streams", "agent", "none"}]]
    /\ mounted \subseteq Tasks /\ bundles \subseteq Tasks /\ fifos \subseteq Calls
    /\ cleanups \in [Keys -> Seq([what : {"bundle", "rootfs", "fifos"}, by : Calls])]
    /\ cleaner \in Calls \cup {NoCall}
    /\ managed \in [Keys -> Calls \cup {NoCall}] /\ known \in [Keys -> Calls \cup {NoCall}]
    /\ runc \in [Keys -> Calls \cup {NoCall}]
    /\ \A k \in Keys : runc[k] = NoCall <=> status[k] = "none"
    /\ links \subseteq Tasks /\ drives \subseteq Tasks /\ gaveUp \subseteq Calls

\* The processes both sides have.
Shared == {c \in Calls : /\ hpc[c] = "created"
                         /\ known[Key(c)] = c /\ runc[Key(c)] = c}

Deleted(t) ==
    \E d \in Calls : req[d].method = "delete" /\ Key(d) = <<t, Init0>> /\ apc[d] = "served"

\* A process that containerd was told of, and that both the shim and runc
\* still have, keeps what it needs: its entry in the TaskManager of the agent, a
\* task its link and drive on the host, its mounted image and bundle in the VM
\* and the cleanups that will remove them, and every process its FIFOs and its
\* own ports.  No failing, retried, given-up or concurrent request takes them
\* away, except from an exec that was retried after the shim had given a request
\* for it up, or whose task was deleted, and created again, while it was being
\* created.
KeepsItsOwn ==
    \A c \in Shared :
        LET k == Key(c)
            retried == ~IsInit(k) /\ \E d \in gaveUp : Key(d) = k
        IN  /\ retried \/ managed[k] = c
            /\ IsInit(k) =>
                   /\ Task(c) \in links \cap drives \cap mounted \cap bundles
                   /\ Len(cleanups[k]) = 2
            /\ HasStreams(c) =>
                   c \in fifos \/ retried \/ (~IsInit(k) /\ Deleted(Task(c)))
            /\ \A d \in Shared \ {c} : ports[c] \cap ports[d] = {}

\* The bundle of a task is never removed while the image of its container is
\* mounted in it: os.RemoveAll would empty the image.
RemovedUnmounted ==
    [][\A t \in bundles \ bundles' : t \notin mounted]_vars

\* A Delete of a task that succeeds leaves nothing of it on either side; an
\* exec that arrives late may leave a bundle directory without a task.
DeletedIsGone ==
    [][\A c \in Calls : hpc[c] = "unlink" /\ hpc'[c] = "deleted" =>
          /\ Task(c) \notin links' \cup drives' \cup mounted'
          /\ Task(c) \in bundles' =>
                 \E d \in Calls : req[d].method = "exec" /\ Task(d) = Task(c)
          /\ known'[Key(c)] = NoCall /\ managed'[Key(c)] = NoCall
          /\ cleanups'[Key(c)] = << >>
          /\ \A k \in Siblings(Key(c)) : runc'[k] = NoCall]_vars
=============================================================================
