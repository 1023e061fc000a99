----------------------------- MODULE AgentTasks -----------------------------
(***************************************************************************)
(* The task service of the agent in a VM (agent/service.go): Create, Exec  *)
(* and Delete around its TaskManager and runc, with the cleanups that a    *)
(* request registers under the key of its process and that the same        *)
(* request, when it fails, or the Delete of the process runs in reverse;   *)
(* the other methods are passed to runc.                                   *)
(*                                                                         *)
(* The TaskManager is its registry here; the module TaskManager has its    *)
(* inside.  The FIFOs of a process are one thing, and one cleanup.         *)
(***************************************************************************)
EXTENDS Naturals, Sequences, SequencesExt

CONSTANTS
    Tasks,   \* task IDs
    Execs,   \* exec IDs
    Init0,   \* the exec ID of a task's first process ("" in the code)
    Calls,   \* the requests of containerd, one model value each
    NoCall   \* no request

ASSUME Init0Assumption == Init0 \notin Execs
ASSUME NoCallAssumption == NoCall \notin Calls

VARIABLES
    req,       \* what each request is: its method, process and kind of IO
    apc,       \* where each request is in the agent
    mounted,   \* the tasks whose image is mounted at the rootfs of their bundle
    bundles,   \* the tasks whose bundle directory is there
    fifos,     \* the requests whose FIFOs are there
    cleanups,  \* ts.execCleanups
    cleaner,   \* who holds ts.execCleanupsMu in doCleanup
    managed,   \* the processes in the TaskManager, by the request that made them
    runc,      \* the processes of runc, likewise
    status     \* their status

mountVars == <<mounted, bundles>>
cleanVars == <<cleanups, cleaner>>
runcVars == <<runc, status>>
agentVars == <<req, apc, mountVars, fifos, cleanVars, managed, runcVars>>

Keys == Tasks \X (Execs \cup {Init0})
TaskOf(k) == k[1]
IsInit(k) == k[2] = Init0
Siblings(k) == {j \in Keys : TaskOf(j) = TaskOf(k)}

Methods == {"create", "exec", "delete"}
Idle == [method |-> "none"]
Key(c) == req[c].key
Task(c) == TaskOf(Key(c))
HasStreams(c) == req[c].io = "streams"

AgentInit ==
    /\ req = [c \in Calls |-> Idle]
    /\ apc = [c \in Calls |-> "idle"]
    /\ mounted = {} /\ bundles = {} /\ fifos = {}
    /\ cleanups = [k \in Keys |-> << >>] /\ cleaner = NoCall
    /\ managed = [k \in Keys |-> NoCall]
    /\ runc = [k \in Keys |-> NoCall] /\ status = [k \in Keys |-> "none"]

GotoA(c, from, to) == apc[c] = from /\ apc' = [apc EXCEPT ![c] = to]

-----------------------------------------------------------------------------
(* Create and Exec.                                                        *)

\* addCleanup, under the mutex.
AddCleanup(c, what) ==
    /\ cleaner = NoCall
    /\ cleanups' = [cleanups EXCEPT ![Key(c)] = Append(@, [what |-> what, by |-> c])]

\* Create unmarshals the extra data; the bundle will be removed.
AcceptCreate(c) ==
    /\ req[c].method = "create"
    /\ \/ GotoA(c, "sent", "stat") /\ AddCleanup(c, "bundle")
       \/ GotoA(c, "sent", "fail") /\ UNCHANGED cleanups
    /\ UNCHANGED <<req, mountVars, fifos, cleaner, managed, runcVars>>

\* Mutant of StatRootfs: the unmount is registered before the removal.
SwappedStatRootfs(c) ==
    /\ \/ /\ Task(c) \in mounted
          /\ GotoA(c, "stat", "config")
          /\ cleaner = NoCall
          /\ cleanups' = [cleanups EXCEPT ![Key(c)] =
                             <<[what |-> "rootfs", by |-> c]>> \o @]
       \/ GotoA(c, "stat", "fail") /\ UNCHANGED cleanups
    /\ UNCHANGED <<req, mountVars, fifos, cleaner, managed, runcVars>>

\* The rootfs must be a directory, as MountDrive left it; it will be unmounted.
StatRootfs(c) ==
    /\ \/ Task(c) \in mounted /\ GotoA(c, "stat", "config") /\ AddCleanup(c, "rootfs")
       \/ Task(c) \notin mounted /\ GotoA(c, "stat", "fail") /\ UNCHANGED cleanups
    /\ UNCHANGED <<req, mountVars, fifos, cleaner, managed, runcVars>>

\* The OCI config is written, and the connectors of the streams are made.
WriteConfig(c) ==
    /\ GotoA(c, "config", "newProc") \/ GotoA(c, "config", "fail")
    /\ UNCHANGED <<req, mountVars, fifos, cleanVars, managed, runcVars>>

\* Exec: a directory for the FIFOs is made in the bundle, which is made too if
\* it is gone; the FIFOs will be removed.  IO within the agent needs none.
AcceptExec(c) ==
    /\ req[c].method = "exec"
    /\ \/ /\ GotoA(c, "sent", "newProc")
          /\ IF HasStreams(c)
             THEN AddCleanup(c, "fifos") /\ bundles' = bundles \cup {Task(c)}
             ELSE UNCHANGED <<cleanups, bundles>>
       \/ GotoA(c, "sent", "fail") /\ UNCHANGED <<cleanups, bundles>>
    /\ UNCHANGED <<req, mounted, fifos, cleaner, managed, runcVars>>

\* TaskManager: newProc, then the streams are started, which makes the FIFOs.
NewProc(c) ==
    /\ IF managed[Key(c)] = NoCall
          /\ (IsInit(Key(c)) \/ \E k \in Siblings(Key(c)) : managed[k] # NoCall)
       THEN /\ GotoA(c, "newProc", "runc")
            /\ managed' = [managed EXCEPT ![Key(c)] = c]
            /\ fifos' = IF HasStreams(c) THEN fifos \cup {c} ELSE fifos
       ELSE GotoA(c, "newProc", "fail") /\ UNCHANGED <<managed, fifos>>
    /\ UNCHANGED <<req, mountVars, cleanVars, runcVars>>

\* TaskManager: Create or Exec of runc.
RuncCreate(c) ==
    /\ \/ /\ GotoA(c, "runc", "io")
          /\ runc[Key(c)] = NoCall
          /\ IF IsInit(Key(c)) THEN Task(c) \in mounted \cap bundles
                               ELSE runc[<<Task(c), Init0>>] # NoCall
          /\ runc' = [runc EXCEPT ![Key(c)] = c]
          /\ status' = [status EXCEPT ![Key(c)] = "created"]
       \/ GotoA(c, "runc", "undo") /\ UNCHANGED runcVars
    /\ UNCHANGED <<req, mountVars, fifos, cleanVars, managed>>

\* TaskManager: the streams are connected, or are not.
AwaitIO(c) ==
    /\ GotoA(c, "io", "served") \/ (HasStreams(c) /\ GotoA(c, "io", "undo"))
    /\ UNCHANGED <<req, mountVars, fifos, cleanVars, managed, runcVars>>

\* TaskManager: the deferred deleteProc.
Undo(c) ==
    /\ GotoA(c, "undo", "fail")
    /\ managed' = [managed EXCEPT ![Key(c)] = NoCall]
    /\ UNCHANGED <<req, mountVars, fifos, cleanVars, runcVars>>

-----------------------------------------------------------------------------
(* Delete.                                                                 *)

\* Mutant of RuncDelete: the cleanups run whatever runc says.
RecklessRuncDelete(c) ==
    /\ req[c].method = "delete"
    /\ \/ /\ GotoA(c, "sent", "take")
          /\ status[Key(c)] \in {"created", "stopped"}
          /\ LET gone == IF IsInit(Key(c)) THEN Siblings(Key(c)) ELSE {Key(c)}
             IN  /\ runc' = [k \in Keys |-> IF k \in gone THEN NoCall ELSE runc[k]]
                 /\ status' = [k \in Keys |-> IF k \in gone THEN "none" ELSE status[k]]
       \/ GotoA(c, "sent", "fail") /\ UNCHANGED runcVars
    /\ UNCHANGED <<req, mountVars, fifos, cleanVars, managed>>

\* Mutant of RuncDelete: the execs of a deleted task keep their status.
ForgetfulRuncDelete(c) ==
    /\ req[c].method = "delete"
    /\ \/ /\ GotoA(c, "sent", "take")
          /\ status[Key(c)] \in {"created", "stopped"}
          /\ LET gone == IF IsInit(Key(c)) THEN Siblings(Key(c)) ELSE {Key(c)}
             IN  /\ runc' = [k \in Keys |-> IF k \in gone THEN NoCall ELSE runc[k]]
                 /\ status' = [status EXCEPT ![Key(c)] = "none"]
       \/ GotoA(c, "sent", "failed") /\ UNCHANGED runcVars
    /\ UNCHANGED <<req, mountVars, fifos, cleanVars, managed>>

\* TaskManager: Delete of runc, of a process that does not run; with the first
\* process of a task the whole container is gone.
RuncDelete(c) ==
    /\ req[c].method = "delete"
    /\ \/ /\ GotoA(c, "sent", "take")
          /\ status[Key(c)] \in {"created", "stopped"}
          /\ LET gone == IF IsInit(Key(c)) THEN Siblings(Key(c)) ELSE {Key(c)}
             IN  /\ runc' = [k \in Keys |-> IF k \in gone THEN NoCall ELSE runc[k]]
                 /\ status' = [k \in Keys |-> IF k \in gone THEN "none" ELSE status[k]]
       \/ GotoA(c, "sent", "failed") /\ UNCHANGED runcVars
    /\ UNCHANGED <<req, mountVars, fifos, cleanVars, managed>>

\* Mutant of TakeProc: Delete ends with the TaskManager.
UncleanTakeProc(c) ==
    /\ IF managed[Key(c)] # NoCall
       THEN /\ GotoA(c, "take", "served")
            /\ managed' = [managed EXCEPT ![Key(c)] = NoCall]
       ELSE GotoA(c, "take", "failed") /\ UNCHANGED managed
    /\ UNCHANGED <<req, mountVars, fifos, cleanVars, runcVars>>

\* TaskManager: deleteProc and the end of the streams.  An error is returned
\* with no cleanup.
TakeProc(c) ==
    /\ IF managed[Key(c)] # NoCall
       THEN /\ GotoA(c, "take", "done")
            /\ managed' = [managed EXCEPT ![Key(c)] = NoCall]
       ELSE GotoA(c, "take", "failed") /\ UNCHANGED managed
    /\ UNCHANGED <<req, mountVars, fifos, cleanVars, runcVars>>

-----------------------------------------------------------------------------
(* doCleanup: deferred by Create and Exec, and called by Delete.           *)

\* The mutex is taken.
StartCleanup(c) ==
    /\ cleaner = NoCall
    /\ GotoA(c, "fail", "cleanFail") \/ GotoA(c, "done", "cleanDone")
    /\ cleaner' = c
    /\ UNCHANGED <<req, mountVars, fifos, cleanups, managed, runcVars>>

\* What a cleanup does.  The FIFOs of a task are in its bundle.
Clean(entry, task) ==
    CASE entry.what = "bundle" ->
             /\ bundles' = bundles \ {task}
             /\ fifos' = {d \in fifos : Task(d) # task}
             /\ UNCHANGED mounted
      [] entry.what = "rootfs" ->
             mounted' = mounted \ {task} /\ UNCHANGED <<bundles, fifos>>
      [] entry.what = "fifos" ->
             fifos' = fifos \ {entry.by} /\ UNCHANGED mountVars

\* The last cleanup that has not run.
CleanLast(c) ==
    /\ cleaner = c /\ cleanups[Key(c)] # << >>
    /\ Clean(Last(cleanups[Key(c)]), Task(c))
    /\ cleanups' = [cleanups EXCEPT ![Key(c)] = Front(@)]
    /\ UNCHANGED <<req, apc, cleaner, managed, runcVars>>

\* All have run.
EndCleanup(c) ==
    /\ cleaner = c /\ cleanups[Key(c)] = << >>
    /\ GotoA(c, "cleanFail", "failed") \/ GotoA(c, "cleanDone", "served")
    /\ cleaner' = NoCall
    /\ UNCHANGED <<req, mountVars, fifos, cleanups, managed, runcVars>>

-----------------------------------------------------------------------------
(* The methods that are passed to runc.                                    *)

SetStatus(k, from, to) ==
    /\ status[k] = from
    /\ status' = [status EXCEPT ![k] = to]
    /\ UNCHANGED <<req, apc, mountVars, fifos, cleanVars, managed, runc>>

\* Start: runc opens the FIFOs of an exec by their paths.
ServeStart(k) ==
    /\ SetStatus(k, "created", "running")
    /\ IsInit(k) \/ ~HasStreams(runc[k]) \/ runc[k] \in fifos

\* Pause and Resume freeze the container, that is, its first process.
ServePause(k) == IsInit(k) /\ SetStatus(k, "running", "paused")
ServeResume(k) == IsInit(k) /\ SetStatus(k, "paused", "running")

\* Kill, or the process exits.
ServeKill(k) == SetStatus(k, "created", "stopped") \/ SetStatus(k, "running", "stopped")

-----------------------------------------------------------------------------
CreateStep(c) ==
    \/ AcceptCreate(c) \/ StatRootfs(c) \/ WriteConfig(c) \/ AcceptExec(c)
    \/ NewProc(c) \/ RuncCreate(c) \/ AwaitIO(c) \/ Undo(c)

DeleteStep(c) == RuncDelete(c) \/ TakeProc(c)

CleanupStep(c) == StartCleanup(c) \/ CleanLast(c) \/ EndCleanup(c)

AgentStep(c) == CreateStep(c) \/ DeleteStep(c) \/ CleanupStep(c)

ServeStep(k) == ServeStart(k) \/ ServePause(k) \/ ServeResume(k) \/ ServeKill(k)
=============================================================================
