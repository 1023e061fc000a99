------------------------------ MODULE StubDrives ------------------------------
(***************************************************************************)
(* The stub drives of one VM (runtime/drive_handler.go) and the parts of   *)
(* the shim's Create and Delete that use them (runtime/service.go): a      *)
(* container's root file system reaches the VM on a drive taken from the   *)
(* list of free ones, patched to the container's image and mounted by the  *)
(* agent (agent/drive_handler.go); Delete unmounts the drive, patches it   *)
(* back to its stub and returns it to the list.                            *)
(*                                                                         *)
(* The StubDriveHandler holds its mutex across the requests to the VMM and *)
(* to the agent, each of which may fail; a request to the agent may also   *)
(* be given up by the host and still be served, at once or later.          *)
(***************************************************************************)
EXTENDS Naturals, Sequences, Functions

CONSTANTS
    DriveCount,  \* how many container stubs the VM was created with
    Ids,         \* container IDs; the image of a container is named by its ID
    Calls,       \* the Create and Delete requests, one model value each
    Stub,        \* the content of a drive that is patched to its stub file
    NoCall,      \* nobody holds the handler's mutex
    LoseReplies  \* whether a request may be served although the host gave it up

ASSUME DriveCountAssumption == DriveCount \in Nat
ASSUME StubAssumption == Stub \notin Ids
ASSUME NoCallAssumption == NoCall \notin Calls
ASSUME LoseRepliesAssumption == LoseReplies \in BOOLEAN

Drives == 1 .. DriveCount

VARIABLES
    pc,       \* where each request is
    cid,      \* the container each request is about
    free,     \* h.freeDrives
    used,     \* h.usedDrives: container -> drive
    holder,   \* who holds h.mu
    backing,  \* what the VMM serves as the content of each drive
    mounted,  \* in the VM: <<drive, container>>, mounted at the container's rootfs
    late,     \* mounts the agent still retries although the host gave up
    links,    \* the containers with a bundle link in the VM directory
    tasks     \* the containers with a task

handlerVars == <<free, used, holder>>
guestVars == <<backing, mounted, late>>
taskVars == <<links, tasks>>
vars == <<pc, cid, handlerVars, guestVars, taskVars>>

Reserving == {"patch", "mount"}
Releasing == {"unmount", "repatch"}
Waiting == {"reserve", "task", "release", "unlink", "unlinkErr"}
Replies == {"created", "deleted", "failed"}

Init ==
    /\ pc = [c \in Calls |-> "idle"]
    /\ cid \in [Calls -> Ids]
    /\ free = [i \in Drives |-> i]
    /\ used = [id \in {} |-> 0]
    /\ holder = NoCall
    /\ backing = [d \in Drives |-> Stub]
    /\ mounted = {} /\ late = {}
    /\ links = {} /\ tasks = {}

Goto(c, from, to) == /\ pc[c] = from
                     /\ pc' = [pc EXCEPT ![c] = to]

\* A request leaves the handler with an error: the deferred h.mu.Unlock().
GiveUp(c, from, to) == Goto(c, from, to) /\ holder' = NoCall

-----------------------------------------------------------------------------
(* Create.                                                                 *)

\* CreateBundleLink, which fails if the link is there, CreateAddressLink and
\* the check of the rootfs: an error after the first leaves the link behind.
Create(c) ==
    /\ IF cid[c] \in links
       THEN Goto(c, "idle", "failed") /\ UNCHANGED links
       ELSE /\ Goto(c, "idle", "reserve") \/ Goto(c, "idle", "failed")
            /\ links' = links \cup {cid[c]}
    /\ UNCHANGED <<cid, handlerVars, guestVars, tasks>>

\* Mutant of Reserve: the mutex is not taken.
UnlockedReserve(c) ==
    /\ IF free = <<>> \/ cid[c] \in DOMAIN used
       THEN Goto(c, "reserve", "failed") /\ UNCHANGED holder
       ELSE Goto(c, "reserve", "patch") /\ holder' = c
    /\ UNCHANGED <<cid, free, used, guestVars, taskVars>>

\* Reserve takes the mutex; ErrDrivesExhausted, or the container has a drive.
Reserve(c) ==
    /\ holder = NoCall
    /\ IF free = <<>> \/ cid[c] \in DOMAIN used
       THEN Goto(c, "reserve", "failed") /\ UNCHANGED holder
       ELSE Goto(c, "reserve", "patch") /\ holder' = c
    /\ UNCHANGED <<cid, free, used, guestVars, taskVars>>

\* Mutant of Patch: an error returns without unlocking.
StuckPatch(c) ==
    /\ \/ Goto(c, "patch", "mount") /\ backing' = [backing EXCEPT ![Head(free)] = cid[c]]
       \/ Goto(c, "patch", "failed") /\ UNCHANGED backing
    /\ UNCHANGED <<cid, handlerVars, mounted, late, taskVars>>

\* PatchAndMount: ExposeFileToJail and UpdateGuestDrive; a failed patch may or
\* may not have been applied.
Patch(c) ==
    /\ \/ /\ Goto(c, "patch", "mount")
          /\ backing' = [backing EXCEPT ![Head(free)] = cid[c]]
          /\ UNCHANGED holder
       \/ /\ GiveUp(c, "patch", "failed")
          /\ backing' \in {backing, [backing EXCEPT ![Head(free)] = cid[c]]}
    /\ UNCHANGED <<cid, free, used, mounted, late, taskVars>>

\* Mutant of Mount: the reserved drive stays in the list of free drives.
KeptMount(c) ==
    /\ GiveUp(c, "mount", "task")
    /\ used' = [id \in DOMAIN used \cup {cid[c]} |->
                   IF id = cid[c] THEN Head(free) ELSE used[id]]
    /\ mounted' = mounted \cup {<<Head(free), cid[c]>>}
    /\ UNCHANGED <<cid, free, backing, late, taskVars>>

\* PatchAndMount: the agent's MountDrive.  Only if it succeeds the drive moves
\* from the free to the used ones.
Mount(c) ==
    /\ \/ /\ GiveUp(c, "mount", "task")
          /\ mounted' = mounted \cup {<<Head(free), cid[c]>>}
          /\ used' = [id \in DOMAIN used \cup {cid[c]} |->
                         IF id = cid[c] THEN Head(free) ELSE used[id]]
          /\ free' = Tail(free)
          /\ UNCHANGED late
       \/ /\ GiveUp(c, "mount", "failed")
          /\ late' \in IF LoseReplies THEN {late, late \cup {<<Head(free), cid[c]>>}}
                                      ELSE {late}
          /\ UNCHANGED <<free, used, mounted>>
    /\ UNCHANGED <<cid, backing, taskVars>>

\* The rest of Create, up to taskManager.CreateTask; an error releases nothing.
CreateTask(c) ==
    /\ \/ Goto(c, "task", "created") /\ tasks' = tasks \cup {cid[c]}
       \/ Goto(c, "task", "failed") /\ UNCHANGED tasks
    /\ UNCHANGED <<cid, handlerVars, guestVars, links>>

-----------------------------------------------------------------------------
(* Delete of a container's task.                                           *)

\* taskManager.DeleteProcess: the task is deleted once.
Delete(c) ==
    /\ \/ /\ cid[c] \in tasks /\ tasks' = tasks \ {cid[c]}
          /\ Goto(c, "idle", "release") \/ (LoseReplies /\ Goto(c, "idle", "failed"))
       \/ Goto(c, "idle", "failed") /\ UNCHANGED tasks
    /\ UNCHANGED <<cid, handlerVars, guestVars, links>>

\* Release takes the mutex and looks the drive up.
Release(c) ==
    /\ holder = NoCall
    /\ IF cid[c] \in DOMAIN used
       THEN Goto(c, "release", "unmount") /\ holder' = c
       ELSE Goto(c, "release", "unlinkErr") /\ UNCHANGED holder
    /\ UNCHANGED <<cid, free, used, guestVars, taskVars>>

\* The agent's UnmountDrive, by the path of the device.
Unmount(c) ==
    /\ LET gone == {m \in mounted : m[1] # used[cid[c]]}
       IN \/ Goto(c, "unmount", "repatch") /\ mounted' = gone /\ UNCHANGED holder
          \/ /\ GiveUp(c, "unmount", "unlinkErr")
             /\ mounted' \in IF LoseReplies THEN {mounted, gone} ELSE {mounted}
    /\ UNCHANGED <<cid, free, used, backing, late, taskVars>>

\* Mutant of Repatch: the container is mapped to a nil drive, not removed.
NilRepatch(c) ==
    /\ GiveUp(c, "repatch", "unlink")
    /\ backing' = [backing EXCEPT ![used[cid[c]]] = Stub]
    /\ used' = [used EXCEPT ![cid[c]] = 0]
    /\ free' = Append(free, used[cid[c]])
    /\ UNCHANGED <<cid, mounted, late, taskVars>>

\* Mutant of Repatch: the drive keeps the image of the container.
SkippedRepatch(c) ==
    /\ GiveUp(c, "repatch", "unlink")
    /\ used' = Restrict(used, DOMAIN used \ {cid[c]})
    /\ free' = Append(free, used[cid[c]])
    /\ UNCHANGED <<cid, guestVars, taskVars>>

\* UpdateGuestDrive back to the stub; then the drive is free again.
Repatch(c) ==
    /\ LET stubbed == [backing EXCEPT ![used[cid[c]]] = Stub]
       IN \/ /\ GiveUp(c, "repatch", "unlink")
             /\ backing' = stubbed
             /\ used' = Restrict(used, DOMAIN used \ {cid[c]})
             /\ free' = Append(free, used[cid[c]])
          \/ /\ GiveUp(c, "repatch", "unlinkErr")
             /\ backing' \in {backing, stubbed}
             /\ UNCHANGED <<used, free>>
    /\ UNCHANGED <<cid, mounted, late, taskVars>>

\* os.Remove of the bundle link, whatever became of the drive.
Unlink(c) ==
    /\ Goto(c, "unlink", "deleted") \/ Goto(c, "unlinkErr", "failed")
    /\ links' = links \ {cid[c]}
    /\ UNCHANGED <<cid, handlerVars, guestVars, tasks>>

-----------------------------------------------------------------------------

\* The agent's MountDrive loop, whose host no longer listens, gets through or
\* gives up after maxRetries.
LateMount(m) ==
    /\ m \in late
    /\ late' = late \ {m}
    /\ mounted' \in {mounted, mounted \cup {m}}
    /\ UNCHANGED <<pc, cid, handlerVars, backing, taskVars>>

CreateStep(c) == Reserve(c) \/ Patch(c) \/ Mount(c) \/ CreateTask(c)
DeleteStep(c) == Release(c) \/ Unmount(c) \/ Repatch(c) \/ Unlink(c)
CallStep(c) == CreateStep(c) \/ DeleteStep(c)

Next ==
    \/ \E c \in Calls : Create(c) \/ Delete(c) \/ CallStep(c)
    \/ \E m \in late : LateMount(m)

Spec == Init /\ [][Next]_vars

\* Requests to the VMM and to the agent return; a goroutine waiting for the
\* mutex gets it, as every call takes it once.
Fairness == \A c \in Calls : WF_vars(CallStep(c))

FairSpec == Spec /\ Fairness

-----------------------------------------------------------------------------
(* Properties.                                                             *)

TypeOK ==
    /\ pc \in [Calls -> {"idle"} \cup Reserving \cup Releasing \cup Waiting \cup Replies]
    /\ cid \in [Calls -> Ids]
    /\ free \in Seq(Drives)
    /\ DOMAIN used \subseteq Ids /\ used \in [DOMAIN used -> Drives]
    /\ holder \in Calls \cup {NoCall}
    /\ backing \in [Drives -> Ids \cup {Stub}]
    /\ mounted \subseteq Drives \X Ids /\ late \subseteq Drives \X Ids
    /\ links \subseteq Ids /\ tasks \subseteq Ids

\* The handler neither loses a drive nor hands it out twice: every drive is
\* once in the list of free ones or is used by one container, also after any
\* number of failed reservations and releases.
DrivesPartitioned ==
    /\ \A i, j \in DOMAIN free : free[i] = free[j] => i = j
    /\ \A x, y \in DOMAIN used : used[x] = used[y] => x = y
    /\ \A i \in DOMAIN free, x \in DOMAIN used : free[i] # used[x]
    /\ \A d \in Drives : d \in Range(free) \cup Range(used)

\* A container with a task has a drive of its own, mounted as its rootfs, and
\* the drive serves its own image: no other Create, Delete or late mount
\* changes what a container reads, since each touches only the drive it holds.
OwnImage ==
    \A id \in tasks :
        /\ id \in DOMAIN used
        /\ backing[used[id]] = id
        /\ <<used[id], id>> \in mounted

\* A Delete that succeeds leaves no drive that serves the container's image,
\* so the image may be removed on the host.
ImageIsGone ==
    [][\A c \in Calls :
          pc[c] # "deleted" /\ pc'[c] = "deleted" =>
              \A d \in Drives : backing'[d] # cid[c]]_vars

\* Every request comes back: the mutex, held across requests to the VM, is
\* given back on every path.
CallsReturn == \A c \in Calls : pc[c] # "idle" ~> pc[c] \in Replies
=============================================================================
