--------------------------- MODULE HostGuestProofs ---------------------------
(***************************************************************************)
(* Proofs about HostGuest, for any number of tasks, execs and requests.    *)
(*                                                                         *)
(* The invariant is a conjunction of predicates of one or two requests, or *)
(* of a process.  Each has a lemma that goes through the actions: there    *)
(* <1>0 is what the invariant says of the requests the lemma is about, and *)
(* <2>0 what it says of the request that acts.                             *)
(***************************************************************************)
EXTENDS HostGuest, Integers, SequenceTheorems, TLAPS

-----------------------------------------------------------------------------
(* Names for what the invariants speak of.                                 *)

\* Where a Create or an Exec is in the agent, and where a Delete that runc has
\* served.
CreateActive ==
    {"sent", "stat", "config", "newProc", "runc", "io", "undo", "fail", "cleanFail"}
ExecActive == CreateActive \ {"stat", "config"}
Deleting == {"take", "done", "cleanDone"}

IsCreate(c) == req[c].method = "create"
IsExec(c) == req[c].method = "exec"
IsDelete(c) == req[c].method = "delete"

\* The first process of the task of a process.
InitOf(k) == <<TaskOf(k), Init0>>

Entries == [what : {"bundle", "rootfs", "fifos"}, by : Calls]
BundleEntry(c) == [what |-> "bundle", by |-> c]
RootfsEntry(c) == [what |-> "rootfs", by |-> c]
FifosEntry(c) == [what |-> "fifos", by |-> c]

Requests == {Idle} \cup [method : Methods, key : Keys, io : {"streams", "agent", "none"}]

-----------------------------------------------------------------------------
(* The inductive invariant.                                                *)

TypeInv ==
    /\ req \in [Calls -> Requests]
    /\ apc = [c \in Calls |-> apc[c]] /\ hpc = [c \in Calls |-> hpc[c]]
    /\ mounted \subseteq Tasks /\ bundles \subseteq Tasks /\ fifos \subseteq Calls
    /\ cleanups \in [Keys -> Seq(Entries)] /\ cleaner \in Calls \cup {NoCall}
    /\ managed \in [Keys -> Calls \cup {NoCall}] /\ known \in [Keys -> Calls \cup {NoCall}]
    /\ runc \in [Keys -> Calls \cup {NoCall}] /\ status = [k \in Keys |-> status[k]]
    /\ \A k \in Keys : runc[k] = NoCall <=> status[k] = "none"
    /\ links \subseteq Tasks /\ drives \subseteq Tasks /\ gaveUp \subseteq Calls
    /\ nextPort \in Nat /\ ports \in [Calls -> SUBSET Nat]

\* The types of what the other parts of the invariant speak of.
Types ==
    /\ apc = [c \in Calls |-> apc[c]] /\ hpc = [c \in Calls |-> hpc[c]]
    /\ known \in [Keys -> Calls \cup {NoCall}] /\ managed \in [Keys -> Calls \cup {NoCall}]
    /\ runc \in [Keys -> Calls \cup {NoCall}] /\ status = [k \in Keys |-> status[k]]
    /\ cleanups \in [Keys -> Seq(Entries)] /\ cleaner \in Calls \cup {NoCall}
    /\ req \in [Calls -> Requests]
    /\ \A c \in Calls : req[c].method \in Methods \cup {"none"}
    /\ \A c \in Calls : req[c] # Idle <=> req[c].method # "none"
    /\ \A c \in Calls : req[c].method # "none" => Key(c) \in Keys

\* Where a request is on both sides.
ControlAt(c) ==
    /\ hpc[c] = "idle" <=> req[c].method = "none"
    /\ apc[c] # "idle" => hpc[c] \notin {"idle", "link", "reserve", "ports", "register", "send"}
    /\ hpc[c] \in {"wait", "io", "undo", "created", "take", "release", "unlink",
                   "unlinkErr", "deleted"} => apc[c] # "idle"
    /\ IsCreate(c) =>
          /\ IsInit(Key(c))
          /\ apc[c] \in {"idle", "served", "failed"} \cup CreateActive
          /\ hpc[c] \in {"link", "reserve", "ports", "register", "wait", "io", "undo",
                         "created", "failed"}
    /\ IsExec(c) =>
          /\ ~IsInit(Key(c))
          /\ apc[c] \in {"idle", "served", "failed"} \cup ExecActive
          /\ hpc[c] \in {"ports", "register", "wait", "io", "undo", "created", "failed"}
    /\ IsDelete(c) =>
          /\ apc[c] \in {"idle", "sent", "served", "failed"} \cup Deleting
          /\ hpc[c] \in {"send", "wait", "take", "release", "unlink", "unlinkErr",
                         "deleted", "failed"}
          /\ hpc[c] \in {"release", "unlink", "unlinkErr"} => IsInit(Key(c))
    /\ hpc[c] \in {"io", "created", "take", "release", "unlink", "unlinkErr", "deleted"}
          => apc[c] = "served"
    /\ apc[c] \notin {"idle", "served", "failed"} => hpc[c] = "wait" \/ c \in gaveUp
    /\ c \in gaveUp => hpc[c] \in {"undo", "failed"}

ControlInv == \A c \in Calls : ControlAt(c)

\* Two requests that the shim serves are about different processes.
Active(c) == hpc[c] \notin Over \cup {"idle"}
SerialAt(c, d) == c # d /\ Active(c) /\ Active(d) => Key(c) # Key(d)

Serial == \A c, d \in Calls : SerialAt(c, d)

\* While a request is registered in the shim, the process is its own; a Delete
\* has taken it away.
RegisteredAt(c) ==
    /\ (IsCreate(c) \/ IsExec(c)) /\ hpc[c] \in {"wait", "io", "undo"} => known[Key(c)] = c
    /\ hpc[c] \in {"release", "unlink", "unlinkErr"} => known[Key(c)] = NoCall

Registered == \A c \in Calls : RegisteredAt(c)

\* What the shim knows is being created, or was.
KnownAt(k, c) ==
    known[k] = c =>
        /\ IsCreate(c) \/ IsExec(c)
        /\ Key(c) = k /\ hpc[c] \in {"wait", "io", "undo", "created"}

KnownInv == \A k \in Keys, c \in Calls : KnownAt(k, c)

\* So is what the agent manages, and what runc has.
ManagedAt(k, c) ==
    managed[k] = c =>
        /\ IsCreate(c) \/ IsExec(c)
        /\ Key(c) = k /\ apc[c] \in {"runc", "io", "undo", "served"}

RuncAt(k, c) ==
    runc[k] = c =>
        /\ IsCreate(c) \/ IsExec(c)
        /\ Key(c) = k
        /\ apc[c] \in {"io", "undo", "fail", "cleanFail", "failed", "served"}

\* runc has execs of tasks that it has.
ParentAt(k) == runc[k] # NoCall => runc[InitOf(k)] # NoCall

\* The mutex of the cleanups is held where doCleanup runs.
CleanerAt(c) == cleaner = c <=> apc[c] \in {"cleanFail", "cleanDone"}

AgentInv ==
    /\ \A k \in Keys, c \in Calls : ManagedAt(k, c) /\ RuncAt(k, c)
    /\ \A k \in Keys : ParentAt(k)
    /\ \A c \in Calls : CleanerAt(c)

\* A Create that has something of its task, or will have.
Current(c) ==
    /\ IsCreate(c)
    /\ \/ hpc[c] \in {"ports", "register", "wait", "io", "undo"}
       \/ apc[c] \in CreateActive
       \/ known[Key(c)] = c \/ managed[Key(c)] = c \/ runc[Key(c)] = c
       \/ cleanups[Key(c)] # << >> /\ Head(cleanups[Key(c)]).by = c

\* A Delete that takes a task away.
Deletes(d) ==
    /\ IsDelete(d) /\ IsInit(Key(d))
    /\ \/ apc[d] \in Deleting
       \/ apc[d] = "served" /\ hpc[d] \in {"wait", "take", "release", "unlink"}

\* There is one of each, for a task with a drive.
OneCurrent(c, d) == Current(c) /\ Current(d) /\ Key(c) = Key(d) => c = d
CurrentDrive(c) == Current(c) => Task(c) \in drives
OneDelete(c, d) == Deletes(c) /\ Deletes(d) /\ Key(c) = Key(d) => c = d
DeleteDrive(d) ==
    /\ Deletes(d) /\ apc[d] \in Deleting => Task(d) \in drives
    /\ hpc[d] = "unlink" => Task(d) \notin drives

\* What a Delete has taken stays away.
DeletesAt(d) ==
    Deletes(d) =>
        /\ runc[Key(d)] = NoCall
        /\ apc[d] \in {"done", "cleanDone", "served"} => managed[Key(d)] = NoCall
        /\ apc[d] = "served" => cleanups[Key(d)] = << >>

\* A Delete overtakes a Create only where runc has the task.
OvertakenAt(c, d) ==
    Current(c) /\ Deletes(d) /\ Key(c) = Key(d) =>
        /\ apc[c] \in {"io", "undo", "fail", "cleanFail", "failed", "served"}
        /\ hpc[d] \notin {"release", "unlink"}

TaskInv ==
    /\ \A c, d \in Calls : OneCurrent(c, d) /\ OneDelete(c, d) /\ OvertakenAt(c, d)
    /\ \A c \in Calls : CurrentDrive(c) /\ DeleteDrive(c) /\ DeletesAt(c)

\* The cleanups of a task: the bundle, and then the rootfs in it.
CleanedBy(k, c) ==
    /\ IsCreate(c) /\ Key(c) = k
    /\ \/ cleanups[k] = <<BundleEntry(c)>> /\ (TaskOf(k) \in mounted => apc[c] = "stat")
       \/ cleanups[k] = <<BundleEntry(c), RootfsEntry(c)>>

CleanupAt(k) ==
    IsInit(k) => cleanups[k] = << >> \/ \E c \in Calls : CleanedBy(k, c)

\* Those of an exec.
FifosAt(k) ==
    ~IsInit(k) =>
        \A n \in 1..Len(cleanups[k]) :
            \E c \in Calls : IsExec(c) /\ Key(c) = k /\ cleanups[k][n] = FifosEntry(c)

CleanupInv ==
    /\ \A k \in Keys : CleanupAt(k) /\ FifosAt(k)
    /\ mounted \subseteq drives

\* How far a Create is: it has no cleanup, the first, both, or its process too.
Fresh(c) == IsCreate(c) /\ (hpc[c] \in {"ports", "register"} \/ apc[c] = "sent")
Half(c) == IsCreate(c) /\ apc[c] = "stat"
Running(c) ==
    IsCreate(c) /\ (apc[c] = "runc" \/ (apc[c] \in {"io", "served"} /\ runc[Key(c)] = c))
Full(c) == Running(c) \/ (IsCreate(c) /\ apc[c] \in {"config", "newProc"})
Holding(c) == Fresh(c) \/ Half(c) \/ Full(c)

\* A Create and its task have what they need.
StageAt(c) ==
    /\ Fresh(c) => cleanups[Key(c)] = << >>
    /\ Half(c) => cleanups[Key(c)] = <<BundleEntry(c)>>
    /\ Full(c) => cleanups[Key(c)] = <<BundleEntry(c), RootfsEntry(c)>>

PlaceAt(c) == Holding(c) => Task(c) \in mounted /\ Task(c) \in bundles

ProcessAt(c) == Running(c) => managed[Key(c)] = c /\ (HasStreams(c) => c \in fifos)

OwnInv == \A c \in Calls : StageAt(c) /\ PlaceAt(c) /\ ProcessAt(c)

\* What the shim knows has its link.
LinkAt(c) == IsCreate(c) /\ hpc[c] \in {"reserve", "ports", "register"} => Task(c) \in links
LinkedAt(k) == IsInit(k) /\ known[k] # NoCall => TaskOf(k) \in links

LinkInv ==
    /\ \A c \in Calls : LinkAt(c)
    /\ \A k \in Keys : LinkedAt(k)

\* The bundle of a task is gone with its cleanups, unless an exec has made it.
ExecOf(t) == \E d \in Calls : IsExec(d) /\ Task(d) = t

EmptiedAt(c) ==
    IsCreate(c) /\ known[Key(c)] = c /\ apc[c] \in {"io", "undo", "served"}
    /\ cleanups[Key(c)] = << >>
    => Task(c) \notin bundles \/ ExecOf(Task(c))

RemovedAt(d) == hpc[d] \in {"release", "unlink"} => Task(d) \notin bundles \/ ExecOf(Task(d))

BundleInv == \A c \in Calls : EmptiedAt(c) /\ RemovedAt(c)

\* A task is created once more only after it was deleted, and an exec is of a
\* task that was created.
Reserved(c) == IsCreate(c) /\ (apc[c] # "idle" \/ hpc[c] \in {"ports", "register"})

ReservedAt(c) == Reserved(c) => Task(c) \in drives \/ Deleted(Task(c))

AgainAt(c, d) == Reserved(c) /\ Reserved(d) /\ Key(c) = Key(d) /\ c # d => Deleted(Task(c))

ToldAt(c) ==
    IsExec(c) => \E d \in Calls : IsCreate(d) /\ Key(d) = InitOf(Key(c)) /\ hpc[d] = "created"

DeletedInv ==
    /\ \A c \in Calls : ReservedAt(c) /\ ToldAt(c)
    /\ \A c, d \in Calls : AgainAt(c, d)

\* An exec keeps its process and FIFOs, unless a request for it was given up.
GivenUp(k) == \E d \in gaveUp : Key(d) = k

Attached(c) ==
    /\ IsExec(c) /\ known[Key(c)] = c
    /\ apc[c] = "runc" \/ (apc[c] \in {"io", "served"} /\ runc[Key(c)] = c)

Serving(c) == Attached(c) /\ ~GivenUp(Key(c))

FifosKept(c) ==
    HasStreams(c) => \/ c \in fifos \/ Deleted(Task(c))
                     \/ apc[c] = "runc" /\ runc[InitOf(Key(c))] = NoCall

ServingAt(c) == Serving(c) => managed[Key(c)] = c /\ FifosKept(c)

EndedAt(d) == IsDelete(d) /\ apc[d] \in Deleting /\ ~GivenUp(Key(d)) => runc[Key(d)] = NoCall

ExecInv == \A c \in Calls : ServingAt(c) /\ EndedAt(c)

\* The ports of two requests differ.
PortsAt(c, d) ==
    /\ \A n \in ports[c] : n < nextPort
    /\ c # d => ports[c] \cap ports[d] = {}

PortsInv == \A c, d \in Calls : PortsAt(c, d)

-----------------------------------------------------------------------------
\* The whole.
Inv ==
    /\ TypeInv /\ ControlInv /\ Serial /\ Registered /\ KnownInv /\ AgentInv
    /\ TaskInv /\ CleanupInv /\ OwnInv /\ LinkInv /\ BundleInv /\ DeletedInv
    /\ ExecInv /\ PortsInv

-----------------------------------------------------------------------------
(* Facts about keys, entries and requests.                                 *)

\* The processes of a task, and its first.
LEMMA KeyFacts ==
    /\ \A k \in Keys : /\ TaskOf(k) \in Tasks /\ InitOf(k) \in Keys
                       /\ IsInit(InitOf(k)) /\ TaskOf(InitOf(k)) = TaskOf(k)
                       /\ IsInit(k) => InitOf(k) = k
    /\ \A j, k \in Keys : IsInit(j) /\ IsInit(k) /\ TaskOf(j) = TaskOf(k) => j = k
BY DEF Keys, TaskOf, IsInit, InitOf

\* A request has a method and a process, or is none.
LEMMA RequestFacts ==
    ASSUME NEW r \in Requests
    PROVE  /\ r.method \in Methods \cup {"none"}
           /\ r.method # "none" => r.key \in Keys
           /\ r = Idle <=> r.method = "none"
BY DEF Requests, Idle, Methods

\* Types is a part of TypeInv.
LEMMA TypesHold ==
    ASSUME TypeInv
    PROVE  Types
<1>1. \A c \in Calls : req[c] \in Requests
  BY DEF TypeInv
<1>2. \A c \in Calls : /\ req[c].method \in Methods \cup {"none"}
                       /\ req[c] # Idle <=> req[c].method # "none"
                       /\ req[c].method # "none" => Key(c) \in Keys
  BY <1>1, RequestFacts DEF Key
<1> QED
  BY <1>2 DEF TypeInv, Types

\* The entries that cleanups have.
LEMMA EntryTypes ==
    ASSUME NEW c \in Calls
    PROVE  BundleEntry(c) \in Entries /\ RootfsEntry(c) \in Entries /\ FifosEntry(c) \in Entries
BY DEF Entries, BundleEntry, RootfsEntry, FifosEntry

\* addCleanup keeps the type of the cleanups.
LEMMA AddTyped ==
    ASSUME Types, NEW c \in Calls, Key(c) \in Keys,
           NEW what \in {"bundle", "rootfs", "fifos"}, AddCleanup(c, what)
    PROVE  cleanups' \in [Keys -> Seq(Entries)]
<1>1. [what |-> what, by |-> c] \in Entries
  BY DEF Entries
<1>2. Append(cleanups[Key(c)], [what |-> what, by |-> c]) \in Seq(Entries)
  BY <1>1 DEF Types
<1> QED
  BY <1>2 DEF Types, AddCleanup

\* So does the removal of the last one.
LEMMA FrontTyped ==
    ASSUME NEW s \in Seq(Entries), s # << >>
    PROVE  Front(s) \in Seq(Entries) /\ Last(s) \in Entries
<1>1. Len(s) \in Nat /\ Len(s) # 0 /\ \A n \in 1..Len(s) : s[n] \in Entries
  OBVIOUS
<1> QED
  BY <1>1 DEF Front, Last

\* What the steps do that have a condition on another process.
RegisterEffect(c) ==
    \/ /\ Goto(c, "register", "wait") /\ apc' = [apc EXCEPT ![c] = "sent"]
       /\ known[Key(c)] = NoCall /\ known' = [known EXCEPT ![Key(c)] = c]
       /\ UNCHANGED <<req, gaveUp, mounted, bundles, fifos, cleanups, cleaner>>
       /\ UNCHANGED <<managed, runc, status, links, drives, nextPort, ports>>
    \/ /\ Goto(c, "register", "failed")
       /\ UNCHANGED <<known, apc, req, gaveUp, mounted, bundles, fifos, cleanups, cleaner>>
       /\ UNCHANGED <<managed, runc, status, links, drives, nextPort, ports>>

NewProcEffect(c) ==
    \/ /\ managed[Key(c)] = NoCall /\ GotoA(c, "newProc", "runc")
       /\ managed' = [managed EXCEPT ![Key(c)] = c]
       /\ fifos' = IF HasStreams(c) THEN fifos \cup {c} ELSE fifos
       /\ UNCHANGED <<req, mounted, bundles, cleanups, cleaner, runc, status>>
    \/ /\ GotoA(c, "newProc", "fail")
       /\ UNCHANGED <<managed, fifos, req, mounted, bundles, cleanups, cleaner, runc, status>>

RuncCreates(c) ==
    /\ GotoA(c, "runc", "io") /\ runc[Key(c)] = NoCall
    /\ ~IsInit(Key(c)) => runc[<<Task(c), Init0>>] # NoCall
    /\ runc' = [runc EXCEPT ![Key(c)] = c]
    /\ UNCHANGED <<req, mounted, bundles, fifos, cleanups, cleaner, managed>>

RuncCreateFails(c) ==
    /\ GotoA(c, "runc", "undo")
    /\ UNCHANGED <<req, mounted, bundles, fifos, cleanups, cleaner, managed, runc, status>>

RuncCreateEffect(c) == RuncCreates(c) \/ RuncCreateFails(c)

RuncDeleteEffect(c) ==
    /\ req[c].method = "delete"
    /\ \/ /\ GotoA(c, "sent", "take") /\ status[Key(c)] # "none"
          /\ \A k \in Keys :
                runc'[k] = IF IF IsInit(Key(c)) THEN TaskOf(k) = Task(c) ELSE k = Key(c)
                           THEN NoCall ELSE runc[k]
       \/ GotoA(c, "sent", "failed") /\ UNCHANGED <<runc, status>>
    /\ UNCHANGED <<req, mounted, bundles, fifos, cleanups, cleaner, managed>>

\* The actions have these effects.
LEMMA RegisterFacts == \A c \in Calls : Register(c) => RegisterEffect(c)
BY DEF Register, RegisterEffect, mountVars, cleanVars, runcVars

LEMMA NewProcFacts == \A c \in Calls : NewProc(c) => NewProcEffect(c)
BY DEF NewProc, NewProcEffect, mountVars, cleanVars, runcVars

LEMMA RuncCreateFacts == \A c \in Calls : RuncCreate(c) => RuncCreateEffect(c)
BY DEF RuncCreate, RuncCreateEffect, RuncCreates, RuncCreateFails, mountVars, cleanVars, runcVars

LEMMA RuncDeleteFacts == \A c \in Calls : RuncDelete(c) => RuncDeleteEffect(c)
<1> SUFFICES ASSUME NEW c \in Calls, RuncDelete(c)
             PROVE  RuncDeleteEffect(c)
  OBVIOUS
<1>1. CASE GotoA(c, "sent", "failed") /\ UNCHANGED <<runc, status>>
  BY <1>1 DEF RuncDelete, RuncDeleteEffect, GotoA, mountVars, cleanVars, runcVars
<1>2. CASE /\ GotoA(c, "sent", "take") /\ status[Key(c)] \in {"created", "stopped"}
           /\ LET gone == IF IsInit(Key(c)) THEN Siblings(Key(c)) ELSE {Key(c)}
              IN  runc' = [k \in Keys |-> IF k \in gone THEN NoCall ELSE runc[k]]
  BY <1>2 DEF RuncDelete, RuncDeleteEffect, Siblings, Task, GotoA, mountVars, cleanVars, runcVars
<1> QED
  BY <1>1, <1>2 DEF RuncDelete, runcVars

\* What a Call does: the request is about a process that no other request that
\* the shim serves is about.
CallTo(c, method, k, io, to) ==
    /\ hpc[c] = "idle" /\ hpc' = [hpc EXCEPT ![c] = to] /\ to \in {"link", "ports", "send"}
    /\ method \in {"create", "exec", "delete"}
    /\ method = "create" => to = "link" /\ IsInit(k)
    /\ method = "exec" => to = "ports" /\ ~IsInit(k)
    /\ method = "delete" => to = "send"
    /\ req'[c] = [method |-> method, key |-> k, io |-> io]
    /\ \A x \in Calls : x # c => req'[x] = req[x]
    /\ UNCHANGED <<apc, mounted, bundles, fifos, cleanups, cleaner, managed>>
    /\ UNCHANGED <<runc, status, links, drives, known, nextPort, ports, gaveUp>>

\* A Call does what CallTo says.
LEMMA CallFacts ==
    ASSUME Types, NEW c \in Calls, NEW method \in Methods, NEW k \in Keys,
           NEW io \in IOs(method), Call(c, method, k, io)
    PROVE  \E to : CallTo(c, method, k, io, to)
<1>1. PICK to : /\ hpc[c] = "idle" /\ hpc' = [hpc EXCEPT ![c] = to]
                /\ to \in {"link", "ports", "send"}
                /\ method = "create" => to = "link"
                /\ method = "exec" => to = "ports"
                /\ method = "delete" => to = "send"
  BY DEF Call, Goto, Methods
<1>2. /\ req'[c] = [method |-> method, key |-> k, io |-> io]
      /\ \A x \in Calls : x # c => req'[x] = req[x]
      /\ method = "create" => IsInit(k)
      /\ method = "exec" => ~IsInit(k)
      /\ method \in {"create", "exec", "delete"}
  BY DEF Call, MayCall, Methods, Types
<1>3. /\ UNCHANGED <<apc, mounted, bundles, fifos, cleanups, cleaner, managed>>
      /\ UNCHANGED <<runc, status, links, drives, known, nextPort, ports, gaveUp>>
  BY DEF Call, mountVars, cleanVars, runcVars
<1> QED
  BY <1>1, <1>2, <1>3 DEF CallTo

-----------------------------------------------------------------------------
(* Every step preserves every part of the invariant.                       *)

\* Every step keeps the variables in their types.
LEMMA TypeStep ==
    ASSUME TypeInv, Types, [Next]_vars
    PROVE  TypeInv'
<1> USE KeyFacts, EntryTypes, NoCallAssumption DEF TypeInv, Types, Goto,
       GotoA, Key, Task, agentVars, hostVars, mountVars, cleanVars, runcVars
<1>1. ASSUME NEW c \in Calls, NEW method \in Methods, NEW k \in Keys,
             NEW io \in IOs(method), Call(c, method, k, io)
      PROVE  TypeInv'
  <2>1. [method |-> method, key |-> k, io |-> io] \in Requests
    BY <1>1 DEF Requests, IOs
  <2>2. req' \in [Calls -> Requests]
    BY <1>1, <2>1 DEF Call
  <2>3. PICK to : hpc' = [hpc EXCEPT ![c] = to]
    BY <1>1 DEF Call
  <2>4. hpc' = [d \in Calls |-> hpc'[d]]
    BY <2>3
  <2> QED
    BY <1>1, <2>2, <2>4 DEF Call
<1>2. ASSUME NEW c \in Calls, req[c] # Idle, HostStep(c)
      PROVE  TypeInv'
  <2>1. CASE CreateLink(c)  BY <1>2, <2>1 DEF CreateLink
  <2>2. CASE Reserve(c)  BY <1>2, <2>2 DEF Reserve
  <2>3. CASE GenerateExtraData(c)  BY <1>2, <2>3 DEF GenerateExtraData
  <2>4. CASE Register(c)
    <3>1. Key(c) \in Keys
      BY <1>2
    <3>2. known' \in [Keys -> Calls \cup {NoCall}] /\ hpc' = [d \in Calls |-> hpc'[d]]
      BY <1>2, <2>4, <3>1 DEF Register
    <3> QED
      BY <1>2, <2>4, <3>1, <3>2 DEF Register
  <2>5. CASE CreateReturns(c)  BY <1>2, <2>5 DEF CreateReturns
  <2>6. CASE HostAwaitIO(c)  BY <1>2, <2>6 DEF HostAwaitIO
  <2>7. CASE HostUndo(c)  BY <1>2, <2>7 DEF HostUndo
  <2>8. CASE SendDelete(c)  BY <1>2, <2>8 DEF SendDelete
  <2>9. CASE DeleteReturns(c)  BY <1>2, <2>9 DEF DeleteReturns
  <2>10. CASE HostTakeProc(c)  BY <1>2, <2>10 DEF HostTakeProc
  <2>11. CASE Release(c)  BY <1>2, <2>11 DEF Release
  <2>12. CASE Unlink(c)  BY <1>2, <2>12 DEF Unlink
  <2> QED
    BY <1>2, <2>1, <2>2, <2>3, <2>4, <2>5, <2>6, <2>7, <2>8, <2>9, <2>10,
       <2>11, <2>12 DEF HostStep
<1>3. ASSUME NEW c \in Calls, req[c] # Idle, AgentStep(c), UNCHANGED hostVars
      PROVE  TypeInv'
  <2>1. CASE AcceptCreate(c)
    <3>1. Key(c) \in Keys
      BY <1>3
    <3>2. cleanups' \in [Keys -> Seq(Entries)]
      BY <1>3, <2>1, <3>1, AddTyped DEF AcceptCreate
    <3> QED
      BY <1>3, <2>1, <3>1, <3>2 DEF AcceptCreate
  <2>2. CASE StatRootfs(c)
    <3>1. Key(c) \in Keys
      BY <1>3
    <3>2. cleanups' \in [Keys -> Seq(Entries)]
      BY <1>3, <2>2, <3>1, AddTyped DEF StatRootfs
    <3> QED
      BY <1>3, <2>2, <3>1, <3>2 DEF StatRootfs
  <2>3. CASE WriteConfig(c)  BY <1>3, <2>3 DEF WriteConfig
  <2>4. CASE AcceptExec(c)
    <3>1. Key(c) \in Keys
      BY <1>3
    <3>2. cleanups' \in [Keys -> Seq(Entries)]
      BY <1>3, <2>4, <3>1, AddTyped DEF AcceptExec
    <3> QED
      BY <1>3, <2>4, <3>1, <3>2 DEF AcceptExec
  <2>5. CASE NewProc(c)
    <3>1. Key(c) \in Keys
      BY <1>3
    <3>2. managed' \in [Keys -> Calls \cup {NoCall}]
      <4>1. managed' = managed \/ managed' = [managed EXCEPT ![Key(c)] = c]
        BY <2>5 DEF NewProc
      <4> QED
        BY <3>1, <4>1
    <3>3. apc' = [d \in Calls |-> apc'[d]] /\ fifos' \subseteq Calls
      BY <2>5 DEF NewProc
    <3> QED
      BY <1>3, <2>5, <3>2, <3>3 DEF NewProc
  <2>6. CASE RuncCreate(c)
    <3>1. Key(c) \in Keys
      BY <1>3
    <3>2. apc' = [d \in Calls |-> apc'[d]]
      BY <1>3, <2>6 DEF RuncCreate
    <3>3. /\ runc' \in [Keys -> Calls \cup {NoCall}] /\ status' = [k \in Keys |-> status'[k]]
          /\ \A k \in Keys : runc'[k] = NoCall <=> status'[k] = "none"
      <4>1. CASE UNCHANGED runcVars
        BY <4>1
      <4>2. CASE /\ runc' = [runc EXCEPT ![Key(c)] = c]
                 /\ status' = [status EXCEPT ![Key(c)] = "created"]
        BY <4>2, <3>1
      <4> QED
        BY <2>6, <4>1, <4>2 DEF RuncCreate
    <3> QED
      BY <1>3, <2>6, <3>2, <3>3 DEF RuncCreate
  <2>7. CASE AwaitIO(c)  BY <1>3, <2>7 DEF AwaitIO
  <2>8. CASE Undo(c)  BY <1>3, <2>8 DEF Undo
  <2>9. CASE RuncDelete(c)  BY <1>3, <2>9 DEF RuncDelete
  <2>10. CASE TakeProc(c)  BY <1>3, <2>10 DEF TakeProc
  <2>11. CASE StartCleanup(c)  BY <1>3, <2>11 DEF StartCleanup
  <2>12. CASE CleanLast(c)
    <3>1. Key(c) \in Keys
      BY <1>3
    <3>2. cleanups' \in [Keys -> Seq(Entries)]
      BY <2>12, <3>1, FrontTyped DEF CleanLast
    <3>3. Last(cleanups[Key(c)]) \in Entries
      BY <2>12, <3>1, FrontTyped DEF CleanLast
    <3>4. mounted' \subseteq Tasks /\ bundles' \subseteq Tasks /\ fifos' \subseteq Calls
      <4> DEFINE entry == Last(cleanups[Key(c)])
      <4>1. entry.what \in {"bundle", "rootfs", "fifos"}
        BY <3>3 DEF Entries
      <4>2. Clean(entry, Task(c))
        BY <2>12 DEF CleanLast
      <4>3. CASE entry.what = "bundle"
        BY <4>2, <4>3 DEF Clean
      <4>4. CASE entry.what = "rootfs"
        BY <4>2, <4>4 DEF Clean
      <4>5. CASE entry.what = "fifos"
        BY <4>2, <4>5 DEF Clean
      <4> QED
        BY <4>1, <4>3, <4>4, <4>5
    <3> QED
      BY <1>3, <2>12, <3>2, <3>4 DEF CleanLast
  <2>13. CASE EndCleanup(c)  BY <1>3, <2>13 DEF EndCleanup
  <2> QED
    BY <1>3, <2>1, <2>2, <2>3, <2>4, <2>5, <2>6, <2>7, <2>8, <2>9, <2>10,
       <2>11, <2>12, <2>13
       DEF AgentStep, CreateStep, DeleteStep, CleanupStep
<1>4. CASE Forward
  BY <1>4 DEF Forward, ServeStep, ServeStart, ServePause, ServeResume,
     ServeKill, SetStatus
<1>5. CASE UNCHANGED vars
  BY <1>5 DEF vars
<1> QED
  BY <1>1, <1>2, <1>3, <1>4, <1>5 DEF Next

\* Every step keeps the two sides of a request in step.
LEMMA ControlStep ==
    ASSUME Inv, Types, [Next]_vars, NEW d \in Calls
    PROVE  ControlAt(d)'
<1>0. ControlAt(d)
  BY DEF Inv, ControlInv
<1> USE NoCallAssumption DEF Types, ControlAt, Methods, IsCreate, IsExec,
       IsDelete, Over, CreateActive, ExecActive, Deleting, Goto, GotoA, Key,
       Task, agentVars, hostVars, mountVars, cleanVars, runcVars
<1>1. ASSUME NEW c \in Calls, NEW method \in Methods, NEW k \in Keys,
             NEW io \in IOs(method), Call(c, method, k, io)
      PROVE  ControlAt(d)'
  <2>1. PICK to : CallTo(c, method, k, io, to)
    BY <1>1, CallFacts
  <2> QED
    BY <1>0, <2>1 DEF CallTo
<1>2. ASSUME NEW c \in Calls, req[c] # Idle, HostStep(c)
      PROVE  ControlAt(d)'
  <2>0. Key(c) \in Keys
    BY <1>2 DEF Types, Key
  <2>1. CASE CreateLink(c) \/ GenerateExtraData(c) \/ CreateReturns(c)
           \/ DeleteReturns(c) \/ HostAwaitIO(c)
    BY <1>0, <1>2, <2>0, <2>1 DEF CreateLink, GenerateExtraData,
       CreateReturns, DeleteReturns, HostAwaitIO
  <2>2. CASE Reserve(c) \/ Release(c) \/ Register(c)
    BY <1>0, <1>2, <2>0, <2>2 DEF Reserve, Release, Register
  <2>3. CASE HostUndo(c) \/ HostTakeProc(c) \/ SendDelete(c) \/ Unlink(c)
    BY <1>0, <1>2, <2>0, <2>3 DEF HostUndo, HostTakeProc, SendDelete, Unlink
  <2> QED
    BY <1>2, <2>1, <2>2, <2>3 DEF HostStep
<1>3. ASSUME NEW c \in Calls, req[c] # Idle, AgentStep(c), UNCHANGED hostVars
      PROVE  ControlAt(d)'
  <2>0. Key(c) \in Keys
    BY <1>3 DEF Types, Key
  <2>1. CASE AcceptCreate(c) \/ StatRootfs(c) \/ AcceptExec(c)
    BY <1>0, <1>3, <2>0, <2>1 DEF AcceptCreate, StatRootfs, AcceptExec
  <2>2. CASE WriteConfig(c) \/ AwaitIO(c) \/ StartCleanup(c) \/ EndCleanup(c)
           \/ NewProc(c) \/ Undo(c) \/ TakeProc(c)
    BY <1>0, <1>3, <2>0, <2>2 DEF WriteConfig, AwaitIO, StartCleanup,
       EndCleanup, NewProc, Undo, TakeProc
  <2>3. CASE RuncCreate(c) \/ RuncDelete(c)
    BY <1>0, <1>3, <2>0, <2>3 DEF RuncCreate, RuncDelete
  <2>4. CASE CleanLast(c)  BY <1>0, <1>3, <2>0, <2>4 DEF CleanLast
  <2> QED
    BY <1>3, <2>1, <2>2, <2>3, <2>4
       DEF AgentStep, CreateStep, DeleteStep, CleanupStep
<1>4. CASE Forward
  BY <1>0, <1>4 DEF Forward, ServeStep, ServeStart, ServePause, ServeResume,
     ServeKill, SetStatus
<1>5. CASE UNCHANGED vars
  BY <1>0, <1>5 DEF vars
<1> QED
  BY <1>1, <1>2, <1>3, <1>4, <1>5 DEF Next

\* Every step keeps the requests about a process one at a time.
LEMMA SerialStep ==
    ASSUME Inv, Types, [Next]_vars, NEW d \in Calls, NEW e \in Calls
    PROVE  SerialAt(d, e)'
<1>0. SerialAt(d, e)
  BY DEF Inv, Serial
<1> USE DEF Types, SerialAt, Active, Over, Goto, GotoA, Key, Task, agentVars,
       hostVars, mountVars, cleanVars, runcVars
<1>1. ASSUME NEW c \in Calls, NEW method \in Methods, NEW k \in Keys,
             NEW io \in IOs(method), Call(c, method, k, io)
      PROVE  SerialAt(d, e)'
  <2>1. PICK to : hpc[c] = "idle" /\ hpc' = [hpc EXCEPT ![c] = to]
    BY <1>1 DEF Call
  <2>2. /\ req'[c].key = k
        /\ \A f \in Calls : f # c => req'[f] = req[f]
        /\ \A f \in Calls : hpc[f] \notin Over \cup {"idle"} => Key(f) # k
    BY <1>1 DEF Call, MayCall
  <2> QED
    BY <1>0, <2>1, <2>2
<1>2. ASSUME NEW c \in Calls, req[c] # Idle, HostStep(c)
      PROVE  SerialAt(d, e)'
  <2>0. Key(c) \in Keys
    BY <1>2 DEF Types, Key
  <2>1. CASE CreateLink(c) \/ GenerateExtraData(c) \/ CreateReturns(c)
           \/ DeleteReturns(c) \/ HostAwaitIO(c)
    BY <1>0, <1>2, <2>0, <2>1 DEF CreateLink, GenerateExtraData,
       CreateReturns, DeleteReturns, HostAwaitIO
  <2>2. CASE Reserve(c) \/ Release(c) \/ Register(c)
    BY <1>0, <1>2, <2>0, <2>2 DEF Reserve, Release, Register
  <2>3. CASE HostUndo(c) \/ HostTakeProc(c) \/ SendDelete(c) \/ Unlink(c)
    BY <1>0, <1>2, <2>0, <2>3 DEF HostUndo, HostTakeProc, SendDelete, Unlink
  <2> QED
    BY <1>2, <2>1, <2>2, <2>3 DEF HostStep
<1>3. ASSUME NEW c \in Calls, req[c] # Idle, AgentStep(c), UNCHANGED hostVars
      PROVE  SerialAt(d, e)'
  <2>0. Key(c) \in Keys
    BY <1>3 DEF Types, Key
  <2>1. CASE AcceptCreate(c) \/ StatRootfs(c) \/ AcceptExec(c)
    BY <1>0, <1>3, <2>0, <2>1 DEF AcceptCreate, StatRootfs, AcceptExec
  <2>2. CASE WriteConfig(c) \/ AwaitIO(c) \/ StartCleanup(c) \/ EndCleanup(c)
           \/ NewProc(c) \/ Undo(c) \/ TakeProc(c)
    BY <1>0, <1>3, <2>0, <2>2 DEF WriteConfig, AwaitIO, StartCleanup,
       EndCleanup, NewProc, Undo, TakeProc
  <2>3. CASE RuncCreate(c) \/ RuncDelete(c)
    BY <1>0, <1>3, <2>0, <2>3 DEF RuncCreate, RuncDelete
  <2>4. CASE CleanLast(c)  BY <1>0, <1>3, <2>0, <2>4 DEF CleanLast
  <2> QED
    BY <1>3, <2>1, <2>2, <2>3, <2>4
       DEF AgentStep, CreateStep, DeleteStep, CleanupStep
<1>4. CASE Forward
  BY <1>0, <1>4 DEF Forward, ServeStep, ServeStart, ServePause, ServeResume,
     ServeKill, SetStatus
<1>5. CASE UNCHANGED vars
  BY <1>0, <1>5 DEF vars
<1> QED
  BY <1>1, <1>2, <1>3, <1>4, <1>5 DEF Next

\* Every step keeps a registered request registered.
LEMMA RegisteredStep ==
    ASSUME Inv, Types, [Next]_vars, NEW d \in Calls
    PROVE  RegisteredAt(d)'
<1>0. /\ RegisteredAt(d) /\ ControlAt(d)
  BY DEF Inv, Registered, ControlInv, Serial
<1> USE NoCallAssumption DEF Types, RegisteredAt, ControlAt, SerialAt, Active,
       Methods, IsCreate, IsExec, IsDelete, Over, CreateActive, ExecActive,
       Deleting, Goto, GotoA, Key, Task, agentVars, hostVars, mountVars,
       cleanVars, runcVars
<1>1. ASSUME NEW c \in Calls, NEW method \in Methods, NEW k \in Keys,
             NEW io \in IOs(method), Call(c, method, k, io)
      PROVE  RegisteredAt(d)'
  <2>0. /\ ControlAt(c) /\ SerialAt(c, d)
    BY DEF Inv, Registered, ControlInv, Serial
  <2>1. PICK to : CallTo(c, method, k, io, to)
    BY <1>1, CallFacts
  <2> QED
    BY <1>0, <2>0, <2>1 DEF CallTo
<1>2. ASSUME NEW c \in Calls, req[c] # Idle, HostStep(c)
      PROVE  RegisteredAt(d)'
  <2>0. /\ ControlAt(c) /\ SerialAt(c, d) /\ Key(c) \in Keys
    BY <1>2 DEF Inv, Registered, ControlInv, Serial
  <2>1. CASE CreateLink(c) \/ GenerateExtraData(c) \/ CreateReturns(c)
           \/ DeleteReturns(c) \/ HostAwaitIO(c)
    BY <1>0, <1>2, <2>0, <2>1 DEF CreateLink, GenerateExtraData,
       CreateReturns, DeleteReturns, HostAwaitIO
  <2>2. CASE Reserve(c) \/ Release(c) \/ Register(c)
    BY <1>0, <1>2, <2>0, <2>2, RegisterFacts DEF Reserve, Release,
       RegisterEffect
  <2>3. CASE HostUndo(c) \/ HostTakeProc(c) \/ SendDelete(c) \/ Unlink(c)
    BY <1>0, <1>2, <2>0, <2>3 DEF HostUndo, HostTakeProc, SendDelete, Unlink
  <2> QED
    BY <1>2, <2>1, <2>2, <2>3 DEF HostStep
<1>3. ASSUME NEW c \in Calls, req[c] # Idle, AgentStep(c), UNCHANGED hostVars
      PROVE  RegisteredAt(d)'
  <2>0. /\ ControlAt(c) /\ SerialAt(c, d) /\ Key(c) \in Keys
    BY <1>3 DEF Inv, Registered, ControlInv, Serial
  <2>1. CASE AcceptCreate(c) \/ StatRootfs(c) \/ AcceptExec(c)
    BY <1>0, <1>3, <2>0, <2>1 DEF AcceptCreate, StatRootfs, AcceptExec
  <2>2. CASE WriteConfig(c) \/ AwaitIO(c) \/ StartCleanup(c) \/ EndCleanup(c)
           \/ NewProc(c) \/ Undo(c) \/ TakeProc(c)
    BY <1>0, <1>3, <2>0, <2>2, NewProcFacts DEF WriteConfig, AwaitIO,
       StartCleanup, EndCleanup, NewProcEffect, Undo, TakeProc
  <2>3. CASE RuncCreate(c) \/ RuncDelete(c)
    BY <1>0, <1>3, <2>0, <2>3, RuncCreateFacts, RuncDeleteFacts DEF
       RuncCreateEffect, RuncCreates, RuncCreateFails, RuncDeleteEffect
  <2>4. CASE CleanLast(c)  BY <1>0, <1>3, <2>0, <2>4 DEF CleanLast
  <2> QED
    BY <1>3, <2>1, <2>2, <2>3, <2>4
       DEF AgentStep, CreateStep, DeleteStep, CleanupStep
<1>4. CASE Forward
  BY <1>0, <1>4 DEF Forward, ServeStep, ServeStart, ServePause, ServeResume,
     ServeKill, SetStatus
<1>5. CASE UNCHANGED vars
  BY <1>0, <1>5 DEF vars
<1> QED
  BY <1>1, <1>2, <1>3, <1>4, <1>5 DEF Next

\* Every step keeps what the shim knows.
LEMMA KnownStep ==
    ASSUME Inv, Types, [Next]_vars, NEW j \in Keys, NEW d \in Calls
    PROVE  KnownAt(j, d)'
<1>0. KnownAt(j, d)
  BY DEF Inv, KnownInv, ControlInv
<1> USE NoCallAssumption DEF Types, KnownAt, ControlAt, Methods, IsCreate,
       IsExec, IsDelete, Over, CreateActive, ExecActive, Deleting, Goto,
       GotoA, Key, Task, agentVars, hostVars, mountVars, cleanVars, runcVars
<1>1. ASSUME NEW c \in Calls, NEW method \in Methods, NEW k \in Keys,
             NEW io \in IOs(method), Call(c, method, k, io)
      PROVE  KnownAt(j, d)'
  <2>0. ControlAt(c)
    BY DEF Inv, KnownInv, ControlInv
  <2>1. PICK to : CallTo(c, method, k, io, to)
    BY <1>1, CallFacts
  <2> QED
    BY <1>0, <2>0, <2>1 DEF CallTo
<1>2. ASSUME NEW c \in Calls, req[c] # Idle, HostStep(c)
      PROVE  KnownAt(j, d)'
  <2>0. /\ ControlAt(c) /\ Key(c) \in Keys
    BY <1>2 DEF Inv, KnownInv, ControlInv
  <2>1. CASE CreateLink(c) \/ GenerateExtraData(c) \/ CreateReturns(c)
           \/ DeleteReturns(c) \/ HostAwaitIO(c)
    BY <1>0, <1>2, <2>0, <2>1 DEF CreateLink, GenerateExtraData,
       CreateReturns, DeleteReturns, HostAwaitIO
  <2>2. CASE Reserve(c) \/ Release(c) \/ Register(c)
    BY <1>0, <1>2, <2>0, <2>2, RegisterFacts DEF Reserve, Release,
       RegisterEffect
  <2>3. CASE HostUndo(c) \/ HostTakeProc(c) \/ SendDelete(c) \/ Unlink(c)
    BY <1>0, <1>2, <2>0, <2>3 DEF HostUndo, HostTakeProc, SendDelete, Unlink
  <2> QED
    BY <1>2, <2>1, <2>2, <2>3 DEF HostStep
<1>3. ASSUME NEW c \in Calls, req[c] # Idle, AgentStep(c), UNCHANGED hostVars
      PROVE  KnownAt(j, d)'
  <2>0. /\ ControlAt(c) /\ Key(c) \in Keys
    BY <1>3 DEF Inv, KnownInv, ControlInv
  <2>1. CASE AcceptCreate(c) \/ StatRootfs(c) \/ AcceptExec(c)
    BY <1>0, <1>3, <2>0, <2>1 DEF AcceptCreate, StatRootfs, AcceptExec
  <2>2. CASE WriteConfig(c) \/ AwaitIO(c) \/ StartCleanup(c) \/ EndCleanup(c)
           \/ NewProc(c) \/ Undo(c) \/ TakeProc(c)
    BY <1>0, <1>3, <2>0, <2>2, NewProcFacts DEF WriteConfig, AwaitIO,
       StartCleanup, EndCleanup, NewProcEffect, Undo, TakeProc
  <2>3. CASE RuncCreate(c) \/ RuncDelete(c)
    BY <1>0, <1>3, <2>0, <2>3, RuncCreateFacts, RuncDeleteFacts DEF
       RuncCreateEffect, RuncCreates, RuncCreateFails, RuncDeleteEffect
  <2>4. CASE CleanLast(c)  BY <1>0, <1>3, <2>0, <2>4 DEF CleanLast
  <2> QED
    BY <1>3, <2>1, <2>2, <2>3, <2>4
       DEF AgentStep, CreateStep, DeleteStep, CleanupStep
<1>4. CASE Forward
  BY <1>0, <1>4 DEF Forward, ServeStep, ServeStart, ServePause, ServeResume,
     ServeKill, SetStatus
<1>5. CASE UNCHANGED vars
  BY <1>0, <1>5 DEF vars
<1> QED
  BY <1>1, <1>2, <1>3, <1>4, <1>5 DEF Next

\* Every step keeps what the agent manages.
LEMMA ManagedStep ==
    ASSUME Inv, Types, [Next]_vars, NEW j \in Keys, NEW d \in Calls
    PROVE  ManagedAt(j, d)'
<1>0. ManagedAt(j, d)
  BY DEF Inv, AgentInv, ControlInv
<1> USE NoCallAssumption DEF Types, ManagedAt, ControlAt, Methods, IsCreate,
       IsExec, IsDelete, Over, CreateActive, ExecActive, Deleting, Goto,
       GotoA, Key, Task, agentVars, hostVars, mountVars, cleanVars, runcVars
<1>1. ASSUME NEW c \in Calls, NEW method \in Methods, NEW k \in Keys,
             NEW io \in IOs(method), Call(c, method, k, io)
      PROVE  ManagedAt(j, d)'
  <2>0. ControlAt(c)
    BY DEF Inv, AgentInv, ControlInv
  <2>1. PICK to : CallTo(c, method, k, io, to)
    BY <1>1, CallFacts
  <2> QED
    BY <1>0, <2>0, <2>1 DEF CallTo
<1>2. ASSUME NEW c \in Calls, req[c] # Idle, HostStep(c)
      PROVE  ManagedAt(j, d)'
  <2>0. /\ ControlAt(c) /\ Key(c) \in Keys
    BY <1>2 DEF Inv, AgentInv, ControlInv
  <2>1. CASE CreateLink(c) \/ GenerateExtraData(c) \/ CreateReturns(c)
           \/ DeleteReturns(c) \/ HostAwaitIO(c)
    BY <1>0, <1>2, <2>0, <2>1 DEF CreateLink, GenerateExtraData,
       CreateReturns, DeleteReturns, HostAwaitIO
  <2>2. CASE Reserve(c) \/ Release(c) \/ Register(c)
    BY <1>0, <1>2, <2>0, <2>2, RegisterFacts DEF Reserve, Release,
       RegisterEffect
  <2>3. CASE HostUndo(c) \/ HostTakeProc(c) \/ SendDelete(c) \/ Unlink(c)
    BY <1>0, <1>2, <2>0, <2>3 DEF HostUndo, HostTakeProc, SendDelete, Unlink
  <2> QED
    BY <1>2, <2>1, <2>2, <2>3 DEF HostStep
<1>3. ASSUME NEW c \in Calls, req[c] # Idle, AgentStep(c), UNCHANGED hostVars
      PROVE  ManagedAt(j, d)'
  <2>0. /\ ControlAt(c) /\ Key(c) \in Keys
    BY <1>3 DEF Inv, AgentInv, ControlInv
  <2>1. CASE AcceptCreate(c) \/ StatRootfs(c) \/ AcceptExec(c)
    BY <1>0, <1>3, <2>0, <2>1 DEF AcceptCreate, StatRootfs, AcceptExec
  <2>2. CASE WriteConfig(c) \/ AwaitIO(c) \/ StartCleanup(c) \/ EndCleanup(c)
           \/ NewProc(c) \/ Undo(c) \/ TakeProc(c)
    BY <1>0, <1>3, <2>0, <2>2, NewProcFacts DEF WriteConfig, AwaitIO,
       StartCleanup, EndCleanup, NewProcEffect, Undo, TakeProc
  <2>3. CASE RuncCreate(c) \/ RuncDelete(c)
    BY <1>0, <1>3, <2>0, <2>3, RuncCreateFacts, RuncDeleteFacts DEF
       RuncCreateEffect, RuncCreates, RuncCreateFails, RuncDeleteEffect
  <2>4. CASE CleanLast(c)  BY <1>0, <1>3, <2>0, <2>4 DEF CleanLast
  <2> QED
    BY <1>3, <2>1, <2>2, <2>3, <2>4
       DEF AgentStep, CreateStep, DeleteStep, CleanupStep
<1>4. CASE Forward
  BY <1>0, <1>4 DEF Forward, ServeStep, ServeStart, ServePause, ServeResume,
     ServeKill, SetStatus
<1>5. CASE UNCHANGED vars
  BY <1>0, <1>5 DEF vars
<1> QED
  BY <1>1, <1>2, <1>3, <1>4, <1>5 DEF Next

\* Every step keeps what runc has.
LEMMA RuncStep ==
    ASSUME Inv, Types, [Next]_vars, NEW j \in Keys, NEW d \in Calls
    PROVE  RuncAt(j, d)'
<1>0. RuncAt(j, d)
  BY DEF Inv, AgentInv, ControlInv
<1> USE NoCallAssumption DEF Types, RuncAt, ControlAt, Methods, IsCreate,
       IsExec, IsDelete, Over, CreateActive, ExecActive, Deleting, Goto,
       GotoA, Key, Task, agentVars, hostVars, mountVars, cleanVars, runcVars
<1>1. ASSUME NEW c \in Calls, NEW method \in Methods, NEW k \in Keys,
             NEW io \in IOs(method), Call(c, method, k, io)
      PROVE  RuncAt(j, d)'
  <2>0. ControlAt(c)
    BY DEF Inv, AgentInv, ControlInv
  <2>1. PICK to : CallTo(c, method, k, io, to)
    BY <1>1, CallFacts
  <2> QED
    BY <1>0, <2>0, <2>1 DEF CallTo
<1>2. ASSUME NEW c \in Calls, req[c] # Idle, HostStep(c)
      PROVE  RuncAt(j, d)'
  <2>0. /\ ControlAt(c) /\ Key(c) \in Keys
    BY <1>2 DEF Inv, AgentInv, ControlInv
  <2>1. CASE CreateLink(c) \/ GenerateExtraData(c) \/ CreateReturns(c)
           \/ DeleteReturns(c) \/ HostAwaitIO(c)
    BY <1>0, <1>2, <2>0, <2>1 DEF CreateLink, GenerateExtraData,
       CreateReturns, DeleteReturns, HostAwaitIO
  <2>2. CASE Reserve(c) \/ Release(c) \/ Register(c)
    BY <1>0, <1>2, <2>0, <2>2, RegisterFacts DEF Reserve, Release,
       RegisterEffect
  <2>3. CASE HostUndo(c) \/ HostTakeProc(c) \/ SendDelete(c) \/ Unlink(c)
    BY <1>0, <1>2, <2>0, <2>3 DEF HostUndo, HostTakeProc, SendDelete, Unlink
  <2> QED
    BY <1>2, <2>1, <2>2, <2>3 DEF HostStep
<1>3. ASSUME NEW c \in Calls, req[c] # Idle, AgentStep(c), UNCHANGED hostVars
      PROVE  RuncAt(j, d)'
  <2>0. /\ ControlAt(c) /\ Key(c) \in Keys
    BY <1>3 DEF Inv, AgentInv, ControlInv
  <2>1. CASE AcceptCreate(c) \/ StatRootfs(c) \/ AcceptExec(c)
    BY <1>0, <1>3, <2>0, <2>1 DEF AcceptCreate, StatRootfs, AcceptExec
  <2>2. CASE WriteConfig(c) \/ AwaitIO(c) \/ StartCleanup(c) \/ EndCleanup(c)
           \/ NewProc(c) \/ Undo(c) \/ TakeProc(c)
    BY <1>0, <1>3, <2>0, <2>2, NewProcFacts DEF WriteConfig, AwaitIO,
       StartCleanup, EndCleanup, NewProcEffect, Undo, TakeProc
  <2>3. CASE RuncCreate(c)
    <3>1. CASE RuncCreates(c)
      BY <1>0, <1>3, <2>0, <3>1 DEF RuncCreates
    <3>2. CASE RuncCreateFails(c)
      BY <1>0, <1>3, <2>0, <3>2 DEF RuncCreateFails
    <3> QED
      BY <2>3, <3>1, <3>2, RuncCreateFacts DEF RuncCreateEffect
  <2>4. CASE RuncDelete(c)
    BY <1>0, <1>3, <2>0, <2>4, RuncDeleteFacts DEF RuncDeleteEffect
  <2>5. CASE CleanLast(c)  BY <1>0, <1>3, <2>0, <2>5 DEF CleanLast
  <2> QED
    BY <1>3, <2>1, <2>2, <2>3, <2>4, <2>5
       DEF AgentStep, CreateStep, DeleteStep, CleanupStep
<1>4. CASE Forward
  BY <1>0, <1>4 DEF Forward, ServeStep, ServeStart, ServePause, ServeResume,
     ServeKill, SetStatus
<1>5. CASE UNCHANGED vars
  BY <1>0, <1>5 DEF vars
<1> QED
  BY <1>1, <1>2, <1>3, <1>4, <1>5 DEF Next

\* Every step keeps the tasks of the execs that runc has.
LEMMA ParentStep ==
    ASSUME Inv, Types, [Next]_vars, NEW j \in Keys
    PROVE  ParentAt(j)'
<1>0. /\ ParentAt(j) /\ TaskOf(j) \in Tasks /\ InitOf(j) \in Keys
      /\ IsInit(InitOf(j)) /\ TaskOf(InitOf(j)) = TaskOf(j)
      /\ InitOf(j) = <<TaskOf(j), Init0>> /\ (IsInit(j) => InitOf(j) = j)
  BY DEF Inv, AgentInv, Keys, InitOf, TaskOf, IsInit
<1> USE NoCallAssumption DEF Types, ParentAt, Goto, GotoA, Key, Task,
       agentVars, hostVars, mountVars, cleanVars, runcVars
<1>1. ASSUME NEW c \in Calls, NEW method \in Methods, NEW k \in Keys,
             NEW io \in IOs(method), Call(c, method, k, io)
      PROVE  ParentAt(j)'
  <2>1. PICK to : CallTo(c, method, k, io, to)
    BY <1>1, CallFacts
  <2> QED
    BY <1>0, <2>1 DEF CallTo
<1>2. ASSUME NEW c \in Calls, req[c] # Idle, HostStep(c)
      PROVE  ParentAt(j)'
  <2>0. Key(c) \in Keys
    BY <1>2 DEF Types, Key
  <2>1. CASE CreateLink(c) \/ GenerateExtraData(c) \/ CreateReturns(c)
           \/ DeleteReturns(c) \/ HostAwaitIO(c)
    BY <1>0, <1>2, <2>0, <2>1 DEF CreateLink, GenerateExtraData,
       CreateReturns, DeleteReturns, HostAwaitIO
  <2>2. CASE Reserve(c) \/ Release(c) \/ Register(c)
    BY <1>0, <1>2, <2>0, <2>2, RegisterFacts DEF Reserve, Release,
       RegisterEffect
  <2>3. CASE HostUndo(c) \/ HostTakeProc(c) \/ SendDelete(c) \/ Unlink(c)
    BY <1>0, <1>2, <2>0, <2>3 DEF HostUndo, HostTakeProc, SendDelete, Unlink
  <2> QED
    BY <1>2, <2>1, <2>2, <2>3 DEF HostStep
<1>3. ASSUME NEW c \in Calls, req[c] # Idle, AgentStep(c), UNCHANGED hostVars
      PROVE  ParentAt(j)'
  <2>0. Key(c) \in Keys
    BY <1>3 DEF Types, Key
  <2>1. CASE AcceptCreate(c) \/ StatRootfs(c) \/ AcceptExec(c)
    BY <1>0, <1>3, <2>0, <2>1 DEF AcceptCreate, StatRootfs, AcceptExec
  <2>2. CASE WriteConfig(c) \/ AwaitIO(c) \/ StartCleanup(c) \/ EndCleanup(c)
           \/ NewProc(c) \/ Undo(c) \/ TakeProc(c)
    BY <1>0, <1>3, <2>0, <2>2, NewProcFacts DEF WriteConfig, AwaitIO,
       StartCleanup, EndCleanup, NewProcEffect, Undo, TakeProc
  <2>3. CASE RuncCreate(c)
    <3>1. CASE RuncCreates(c)
      BY <1>0, <1>3, <2>0, <3>1 DEF RuncCreates
    <3>2. CASE RuncCreateFails(c)
      BY <1>0, <1>3, <2>0, <3>2 DEF RuncCreateFails
    <3> QED
      BY <2>3, <3>1, <3>2, RuncCreateFacts DEF RuncCreateEffect
  <2>4. CASE RuncDelete(c)
    BY <1>0, <1>3, <2>0, <2>4, RuncDeleteFacts DEF RuncDeleteEffect
  <2>5. CASE CleanLast(c)  BY <1>0, <1>3, <2>0, <2>5 DEF CleanLast
  <2> QED
    BY <1>3, <2>1, <2>2, <2>3, <2>4, <2>5
       DEF AgentStep, CreateStep, DeleteStep, CleanupStep
<1>4. CASE Forward
  BY <1>0, <1>4 DEF Forward, ServeStep, ServeStart, ServePause, ServeResume,
     ServeKill, SetStatus
<1>5. CASE UNCHANGED vars
  BY <1>0, <1>5 DEF vars
<1> QED
  BY <1>1, <1>2, <1>3, <1>4, <1>5 DEF Next

\* Every step keeps the holder of the mutex of the cleanups.
LEMMA CleanerStep ==
    ASSUME Inv, Types, [Next]_vars, NEW d \in Calls
    PROVE  CleanerAt(d)'
<1>0. CleanerAt(d)
  BY DEF Inv, AgentInv, ControlInv
<1> USE NoCallAssumption DEF Types, CleanerAt, ControlAt, Methods, IsCreate,
       IsExec, IsDelete, Over, CreateActive, ExecActive, Deleting, Goto,
       GotoA, Key, Task, agentVars, hostVars, mountVars, cleanVars, runcVars
<1>1. ASSUME NEW c \in Calls, NEW method \in Methods, NEW k \in Keys,
             NEW io \in IOs(method), Call(c, method, k, io)
      PROVE  CleanerAt(d)'
  <2>0. ControlAt(c)
    BY DEF Inv, AgentInv, ControlInv
  <2>1. PICK to : CallTo(c, method, k, io, to)
    BY <1>1, CallFacts
  <2> QED
    BY <1>0, <2>0, <2>1 DEF CallTo
<1>2. ASSUME NEW c \in Calls, req[c] # Idle, HostStep(c)
      PROVE  CleanerAt(d)'
  <2>0. /\ ControlAt(c) /\ Key(c) \in Keys
    BY <1>2 DEF Inv, AgentInv, ControlInv
  <2>1. CASE CreateLink(c) \/ GenerateExtraData(c) \/ CreateReturns(c)
           \/ DeleteReturns(c) \/ HostAwaitIO(c)
    BY <1>0, <1>2, <2>0, <2>1 DEF CreateLink, GenerateExtraData,
       CreateReturns, DeleteReturns, HostAwaitIO
  <2>2. CASE Reserve(c) \/ Release(c) \/ Register(c)
    BY <1>0, <1>2, <2>0, <2>2, RegisterFacts DEF Reserve, Release,
       RegisterEffect
  <2>3. CASE HostUndo(c) \/ HostTakeProc(c) \/ SendDelete(c) \/ Unlink(c)
    BY <1>0, <1>2, <2>0, <2>3 DEF HostUndo, HostTakeProc, SendDelete, Unlink
  <2> QED
    BY <1>2, <2>1, <2>2, <2>3 DEF HostStep
<1>3. ASSUME NEW c \in Calls, req[c] # Idle, AgentStep(c), UNCHANGED hostVars
      PROVE  CleanerAt(d)'
  <2>0. /\ ControlAt(c) /\ Key(c) \in Keys
    BY <1>3 DEF Inv, AgentInv, ControlInv
  <2>1. CASE AcceptCreate(c) \/ StatRootfs(c) \/ AcceptExec(c)
    BY <1>0, <1>3, <2>0, <2>1 DEF AcceptCreate, StatRootfs, AcceptExec
  <2>2. CASE WriteConfig(c) \/ AwaitIO(c) \/ StartCleanup(c) \/ EndCleanup(c)
           \/ NewProc(c) \/ Undo(c) \/ TakeProc(c)
    BY <1>0, <1>3, <2>0, <2>2, NewProcFacts DEF WriteConfig, AwaitIO,
       StartCleanup, EndCleanup, NewProcEffect, Undo, TakeProc
  <2>3. CASE RuncCreate(c) \/ RuncDelete(c)
    BY <1>0, <1>3, <2>0, <2>3, RuncCreateFacts, RuncDeleteFacts DEF
       RuncCreateEffect, RuncCreates, RuncCreateFails, RuncDeleteEffect
  <2>4. CASE CleanLast(c)  BY <1>0, <1>3, <2>0, <2>4 DEF CleanLast
  <2> QED
    BY <1>3, <2>1, <2>2, <2>3, <2>4
       DEF AgentStep, CreateStep, DeleteStep, CleanupStep
<1>4. CASE Forward
  BY <1>0, <1>4 DEF Forward, ServeStep, ServeStart, ServePause, ServeResume,
     ServeKill, SetStatus
<1>5. CASE UNCHANGED vars
  BY <1>0, <1>5 DEF vars
<1> QED
  BY <1>1, <1>2, <1>3, <1>4, <1>5 DEF Next

-----------------------------------------------------------------------------
(* The one Create and the one Delete of a task.                            *)

\* The first cleanup stays the first.
LEMMA HeadFacts ==
    ASSUME NEW s \in Seq(Entries), NEW x \in Entries
    PROVE  /\ Append(s, x) # << >>
           /\ Head(Append(s, x)) = IF s = << >> THEN x ELSE Head(s)
           /\ s # << >> /\ Front(s) # << >> => Head(Front(s)) = Head(s)
<1>1. Append(s, x) # << >> /\ (s = << >> => Head(Append(s, x)) = x)
  OBVIOUS
<1>2. s # << >> => Head(Append(s, x)) = Head(s)
  OBVIOUS
<1>3. s # << >> /\ Front(s) # << >> => Head(Front(s)) = Head(s)
  BY DEF Front
<1> QED
  BY <1>1, <1>2, <1>3

\* Who has the first cleanup of a process after addCleanup.
LEMMA AddFirst ==
    ASSUME Types, NEW c \in Calls, Key(c) \in Keys, NEW k \in Keys,
           NEW what \in {"bundle", "rootfs", "fifos"}, AddCleanup(c, what)
    PROVE  \/ cleanups[k] # << >> /\ Head(cleanups'[k]) = Head(cleanups[k])
           \/ cleanups'[k] = << >>
           \/ cleanups[k] = << >> /\ Key(c) = k /\ Head(cleanups'[k]).by = c
<1> DEFINE x == [what |-> what, by |-> c]
<1>1. x \in Entries /\ x.by = c
  BY DEF Entries
<1>2. cleanups[k] \in Seq(Entries)
  BY DEF Types
<1>3. cleanups'[k] = IF k = Key(c) THEN Append(cleanups[k], x) ELSE cleanups[k]
  BY DEF AddCleanup, Types
<1> HIDE DEF x
<1>4. CASE k = Key(c)
  BY <1>1, <1>2, <1>3, <1>4, HeadFacts
<1>5. CASE k # Key(c)
  BY <1>3, <1>5
<1> QED
  BY <1>4, <1>5

\* Who has it after the last one has run.
LEMMA FrontFirst ==
    ASSUME Types, NEW c \in Calls, Key(c) \in Keys, NEW k \in Keys, CleanLast(c)
    PROVE  \/ cleanups[k] # << >> /\ Head(cleanups'[k]) = Head(cleanups[k])
           \/ cleanups'[k] = << >>
<1>1. cleanups[k] \in Seq(Entries)
  BY DEF Types
<1>2. cleanups'[k] = IF k = Key(c) THEN Front(cleanups[k]) ELSE cleanups[k]
  BY DEF CleanLast, Types
<1>3. BundleEntry(c) \in Entries
  BY EntryTypes
<1>4. CASE k = Key(c)
  BY <1>1, <1>2, <1>3, <1>4, HeadFacts DEF CleanLast
<1>5. CASE k # Key(c)
  BY <1>2, <1>5
<1> QED
  BY <1>4, <1>5

\* A request stays what it is.
LEMMA RequestsKept ==
    ASSUME Inv, Types, [Next]_vars, NEW d \in Calls
    PROVE  (req[d].method # "none" => req'[d] = req[d])
<1>0. ControlAt(d)
  BY DEF Inv, ControlInv
<1> USE DEF Types, ControlAt, Goto, GotoA, Key, Task, agentVars, hostVars,
       mountVars, cleanVars, runcVars
<1>1. ASSUME NEW c \in Calls, NEW method \in Methods, NEW k \in Keys,
             NEW io \in IOs(method), Call(c, method, k, io)
      PROVE  (req[d].method # "none" => req'[d] = req[d])
  <2>1. PICK to : CallTo(c, method, k, io, to)
    BY <1>1, CallFacts
  <2> QED
    BY <1>0, <2>1 DEF CallTo
<1>2. ASSUME NEW c \in Calls, req[c] # Idle, HostStep(c)
      PROVE  (req[d].method # "none" => req'[d] = req[d])
  <2>0. Key(c) \in Keys
    BY <1>2 DEF Types, Key
  <2>1. CASE CreateLink(c) \/ GenerateExtraData(c) \/ CreateReturns(c)
           \/ DeleteReturns(c) \/ HostAwaitIO(c)
    BY <1>0, <1>2, <2>0, <2>1 DEF CreateLink, GenerateExtraData,
       CreateReturns, DeleteReturns, HostAwaitIO
  <2>2. CASE Reserve(c) \/ Release(c) \/ Register(c)
    BY <1>0, <1>2, <2>0, <2>2 DEF Reserve, Release, Register
  <2>3. CASE HostUndo(c) \/ HostTakeProc(c) \/ SendDelete(c) \/ Unlink(c)
    BY <1>0, <1>2, <2>0, <2>3 DEF HostUndo, HostTakeProc, SendDelete, Unlink
  <2> QED
    BY <1>2, <2>1, <2>2, <2>3 DEF HostStep
<1>3. ASSUME NEW c \in Calls, req[c] # Idle, AgentStep(c), UNCHANGED hostVars
      PROVE  (req[d].method # "none" => req'[d] = req[d])
  <2>0. Key(c) \in Keys
    BY <1>3 DEF Types, Key
  <2>1. CASE AcceptCreate(c) \/ StatRootfs(c) \/ AcceptExec(c)
    BY <1>0, <1>3, <2>0, <2>1 DEF AcceptCreate, StatRootfs, AcceptExec
  <2>2. CASE WriteConfig(c) \/ AwaitIO(c) \/ StartCleanup(c) \/ EndCleanup(c)
           \/ NewProc(c) \/ Undo(c) \/ TakeProc(c)
    BY <1>0, <1>3, <2>0, <2>2 DEF WriteConfig, AwaitIO, StartCleanup,
       EndCleanup, NewProc, Undo, TakeProc
  <2>3. CASE RuncCreate(c) \/ RuncDelete(c)
    BY <1>0, <1>3, <2>0, <2>3 DEF RuncCreate, RuncDelete
  <2>4. CASE CleanLast(c)  BY <1>0, <1>3, <2>0, <2>4 DEF CleanLast
  <2> QED
    BY <1>3, <2>1, <2>2, <2>3, <2>4
       DEF AgentStep, CreateStep, DeleteStep, CleanupStep
<1>4. CASE Forward
  BY <1>0, <1>4 DEF Forward, ServeStep, ServeStart, ServePause, ServeResume,
     ServeKill, SetStatus
<1>5. CASE UNCHANGED vars
  BY <1>0, <1>5 DEF vars
<1> QED
  BY <1>1, <1>2, <1>3, <1>4, <1>5 DEF Next

\* A Create becomes current with its drive.
LEMMA CurrentKept ==
    ASSUME Inv, Types, [Next]_vars, NEW d \in Calls
    PROVE  (Current(d)' => Current(d) \/ (Reserve(d) /\ Task(d) \notin drives
                                      /\ drives' = drives \cup {Task(d)}))
<1>0. ControlAt(d)
  BY DEF Inv, ControlInv
<1> USE NoCallAssumption DEF Types, ControlAt, Current, Methods, IsCreate,
       IsExec, IsDelete, Over, CreateActive, ExecActive, Deleting, Goto,
       GotoA, Key, Task, agentVars, hostVars, mountVars, cleanVars, runcVars
<1>1. ASSUME NEW c \in Calls, NEW method \in Methods, NEW k \in Keys,
             NEW io \in IOs(method), Call(c, method, k, io)
      PROVE  (Current(d)' => Current(d) \/ (Reserve(d) /\ Task(d) \notin drives
                                      /\ drives' = drives \cup {Task(d)}))
  <2>0. ControlAt(c)
    BY DEF Inv, ControlInv
  <2>1. PICK to : CallTo(c, method, k, io, to)
    BY <1>1, CallFacts
  <2>4. known[k] # c /\ managed[k] # c /\ runc[k] # c
    BY <2>0, <2>1 DEF CallTo, Inv, KnownInv, AgentInv, KnownAt, ManagedAt, RuncAt
  <2>5. cleanups[k] # << >> /\ IsInit(k) => Head(cleanups[k]).by # c
    <3>1. SUFFICES ASSUME cleanups[k] # << >>, IsInit(k)
                   PROVE  Head(cleanups[k]).by # c
      OBVIOUS
    <3>2. PICK f \in Calls :
             /\ IsCreate(f)
             /\ cleanups[k] = <<BundleEntry(f)>> \/ cleanups[k] = <<BundleEntry(f), RootfsEntry(f)>>
      BY <3>1 DEF Inv, CleanupInv, CleanupAt, CleanedBy
    <3>3. Head(cleanups[k]).by = f
      BY <3>2 DEF BundleEntry
    <3> QED
      BY <2>0, <2>1, <3>2, <3>3 DEF CallTo
  <2> QED
    BY <1>0, <2>0, <2>1, <2>4, <2>5 DEF CallTo
<1>2. ASSUME NEW c \in Calls, req[c] # Idle, HostStep(c)
      PROVE  (Current(d)' => Current(d) \/ (Reserve(d) /\ Task(d) \notin drives
                                      /\ drives' = drives \cup {Task(d)}))
  <2>0. /\ ControlAt(c) /\ Key(c) \in Keys
    BY <1>2 DEF Inv, ControlInv
  <2>1. CASE CreateLink(c) \/ GenerateExtraData(c) \/ CreateReturns(c)
           \/ DeleteReturns(c) \/ HostAwaitIO(c)
    BY <1>0, <1>2, <2>0, <2>1 DEF CreateLink, GenerateExtraData,
       CreateReturns, DeleteReturns, HostAwaitIO
  <2>2. CASE Reserve(c) \/ Release(c) \/ Register(c)
    BY <1>0, <1>2, <2>0, <2>2, RegisterFacts DEF Reserve, Release,
       RegisterEffect
  <2>3. CASE HostUndo(c) \/ HostTakeProc(c) \/ SendDelete(c) \/ Unlink(c)
    BY <1>0, <1>2, <2>0, <2>3 DEF HostUndo, HostTakeProc, SendDelete, Unlink
  <2> QED
    BY <1>2, <2>1, <2>2, <2>3 DEF HostStep
<1>3. ASSUME NEW c \in Calls, req[c] # Idle, AgentStep(c), UNCHANGED hostVars
      PROVE  (Current(d)' => Current(d) \/ (Reserve(d) /\ Task(d) \notin drives
                                      /\ drives' = drives \cup {Task(d)}))
  <2>0. /\ ControlAt(c) /\ Key(c) \in Keys
    BY <1>3 DEF Inv, ControlInv
  <2>1. CASE AcceptCreate(c)
    <3>1. CASE UNCHANGED cleanups
      BY <1>0, <2>0, <1>3, <2>1, <3>1 DEF AcceptCreate
    <3>2. CASE AddCleanup(c, "bundle") /\ IsCreate(d)
      <4>1. Key(d) \in Keys
        BY <3>2
      <4>2. \/ cleanups[Key(d)] # << >> /\ Head(cleanups'[Key(d)]) = Head(cleanups[Key(d)])
            \/ cleanups'[Key(d)] = << >>
            \/ Key(c) = Key(d) /\ Head(cleanups'[Key(d)]).by = c
        BY <2>0, <3>2, <4>1, AddFirst
      <4> QED
        BY <1>0, <2>0, <1>3, <2>1, <3>2, <4>2 DEF AcceptCreate
    <3> QED
      BY <1>3, <2>1, <3>1, <3>2 DEF AcceptCreate
  <2>2. CASE StatRootfs(c)
    <3>1. CASE UNCHANGED cleanups
      BY <1>0, <2>0, <1>3, <2>2, <3>1 DEF StatRootfs
    <3>2. CASE AddCleanup(c, "rootfs") /\ IsCreate(d)
      <4>1. Key(d) \in Keys
        BY <3>2
      <4>2. \/ cleanups[Key(d)] # << >> /\ Head(cleanups'[Key(d)]) = Head(cleanups[Key(d)])
            \/ cleanups'[Key(d)] = << >>
            \/ Key(c) = Key(d) /\ Head(cleanups'[Key(d)]).by = c
        BY <2>0, <3>2, <4>1, AddFirst
      <4> QED
        BY <1>0, <2>0, <1>3, <2>2, <3>2, <4>2 DEF StatRootfs
    <3> QED
      BY <1>3, <2>2, <3>1, <3>2 DEF StatRootfs
  <2>3. CASE AcceptExec(c)
    <3>1. CASE UNCHANGED cleanups
      BY <1>0, <2>0, <1>3, <2>3, <3>1 DEF AcceptExec
    <3>2. CASE AddCleanup(c, "fifos") /\ IsCreate(d)
      <4>1. Key(d) \in Keys
        BY <3>2
      <4>2. \/ cleanups[Key(d)] # << >> /\ Head(cleanups'[Key(d)]) = Head(cleanups[Key(d)])
            \/ cleanups'[Key(d)] = << >>
            \/ Key(c) = Key(d) /\ Head(cleanups'[Key(d)]).by = c
        BY <2>0, <3>2, <4>1, AddFirst
      <4> QED
        BY <1>0, <2>0, <1>3, <2>3, <3>2, <4>2 DEF AcceptExec
    <3> QED
      BY <1>3, <2>3, <3>1, <3>2 DEF AcceptExec
  <2>4. CASE WriteConfig(c) \/ AwaitIO(c) \/ StartCleanup(c) \/ EndCleanup(c)
           \/ NewProc(c) \/ Undo(c) \/ TakeProc(c)
    BY <1>0, <1>3, <2>0, <2>4, NewProcFacts DEF WriteConfig, AwaitIO,
       StartCleanup, EndCleanup, NewProcEffect, Undo, TakeProc
  <2>5. CASE RuncCreate(c)
    <3>1. CASE RuncCreates(c)
      BY <1>0, <1>3, <2>0, <3>1 DEF RuncCreates
    <3>2. CASE RuncCreateFails(c)
      BY <1>0, <1>3, <2>0, <3>2 DEF RuncCreateFails
    <3> QED
      BY <2>5, <3>1, <3>2, RuncCreateFacts DEF RuncCreateEffect
  <2>6. CASE RuncDelete(c)
    BY <1>0, <1>3, <2>0, <2>6, RuncDeleteFacts DEF RuncDeleteEffect
  <2>7. CASE CleanLast(c)
    <3>1. CASE IsCreate(d)
      <4>1. Key(d) \in Keys
        BY <3>1
      <4>2. \/ cleanups[Key(d)] # << >> /\ Head(cleanups'[Key(d)]) = Head(cleanups[Key(d)])
            \/ cleanups'[Key(d)] = << >>
        BY <2>0, <2>7, <4>1, FrontFirst
      <4> QED
        BY <1>0, <1>3, <2>7, <4>2 DEF CleanLast
    <3> QED
      BY <1>3, <2>7, <3>1 DEF CleanLast
  <2> QED
    BY <1>3, <2>1, <2>2, <2>3, <2>4, <2>5, <2>6, <2>7
       DEF AgentStep, CreateStep, DeleteStep, CleanupStep
<1>4. CASE Forward
  BY <1>0, <1>4 DEF Forward, ServeStep, ServeStart, ServePause, ServeResume,
     ServeKill, SetStatus
<1>5. CASE UNCHANGED vars
  BY <1>0, <1>5 DEF vars
<1> QED
  BY <1>1, <1>2, <1>3, <1>4, <1>5 DEF Next

\* A Delete takes a task away when runc had it.
LEMMA DeletesKept ==
    ASSUME Inv, Types, [Next]_vars, NEW d \in Calls
    PROVE  (Deletes(d)' =>
               \/ Deletes(d) /\ (apc'[d] \in Deleting => apc[d] \in Deleting)
               \/ RuncDelete(d) /\ apc[d] = "sent" /\ apc'[d] = "take" /\ runc[Key(d)] # NoCall
                  /\ UNCHANGED hostVars)
<1>0. ControlAt(d)
  BY DEF Inv, ControlInv
<1> USE NoCallAssumption DEF Types, ControlAt, Deletes, Methods, IsCreate,
       IsExec, IsDelete, Over, CreateActive, ExecActive, Deleting, Goto,
       GotoA, Key, Task, agentVars, hostVars, mountVars, cleanVars, runcVars
<1>1. ASSUME NEW c \in Calls, NEW method \in Methods, NEW k \in Keys,
             NEW io \in IOs(method), Call(c, method, k, io)
      PROVE  (Deletes(d)' =>
               \/ Deletes(d) /\ (apc'[d] \in Deleting => apc[d] \in Deleting)
               \/ RuncDelete(d) /\ apc[d] = "sent" /\ apc'[d] = "take" /\ runc[Key(d)] # NoCall
                  /\ UNCHANGED hostVars)
  <2>0. ControlAt(c)
    BY DEF Inv, ControlInv
  <2>1. PICK to : CallTo(c, method, k, io, to)
    BY <1>1, CallFacts
  <2> QED
    BY <1>0, <2>0, <2>1 DEF CallTo
<1>2. ASSUME NEW c \in Calls, req[c] # Idle, HostStep(c)
      PROVE  (Deletes(d)' =>
               \/ Deletes(d) /\ (apc'[d] \in Deleting => apc[d] \in Deleting)
               \/ RuncDelete(d) /\ apc[d] = "sent" /\ apc'[d] = "take" /\ runc[Key(d)] # NoCall
                  /\ UNCHANGED hostVars)
  <2>0. /\ ControlAt(c) /\ Key(c) \in Keys
    BY <1>2 DEF Inv, ControlInv
  <2>1. CASE CreateLink(c) \/ GenerateExtraData(c) \/ CreateReturns(c)
           \/ DeleteReturns(c) \/ HostAwaitIO(c)
    BY <1>0, <1>2, <2>0, <2>1 DEF CreateLink, GenerateExtraData,
       CreateReturns, DeleteReturns, HostAwaitIO
  <2>2. CASE Reserve(c) \/ Release(c) \/ Register(c)
    BY <1>0, <1>2, <2>0, <2>2 DEF Reserve, Release, Register
  <2>3. CASE HostUndo(c) \/ HostTakeProc(c) \/ SendDelete(c) \/ Unlink(c)
    BY <1>0, <1>2, <2>0, <2>3 DEF HostUndo, HostTakeProc, SendDelete, Unlink
  <2> QED
    BY <1>2, <2>1, <2>2, <2>3 DEF HostStep
<1>3. ASSUME NEW c \in Calls, req[c] # Idle, AgentStep(c), UNCHANGED hostVars
      PROVE  (Deletes(d)' =>
               \/ Deletes(d) /\ (apc'[d] \in Deleting => apc[d] \in Deleting)
               \/ RuncDelete(d) /\ apc[d] = "sent" /\ apc'[d] = "take" /\ runc[Key(d)] # NoCall
                  /\ UNCHANGED hostVars)
  <2>0. /\ ControlAt(c) /\ Key(c) \in Keys
    BY <1>3 DEF Inv, ControlInv
  <2>1. CASE AcceptCreate(c) \/ StatRootfs(c) \/ AcceptExec(c)
    BY <1>0, <1>3, <2>0, <2>1 DEF AcceptCreate, StatRootfs, AcceptExec
  <2>2. CASE WriteConfig(c) \/ AwaitIO(c) \/ StartCleanup(c) \/ EndCleanup(c)
           \/ NewProc(c) \/ Undo(c) \/ TakeProc(c)
    BY <1>0, <1>3, <2>0, <2>2 DEF WriteConfig, AwaitIO, StartCleanup,
       EndCleanup, NewProc, Undo, TakeProc
  <2>3. CASE RuncCreate(c)  BY <1>0, <1>3, <2>0, <2>3 DEF RuncCreate
  <2>4. CASE RuncDelete(c)
    <3>1. status[Key(c)] # "none" => runc[Key(c)] # NoCall
      BY <2>0 DEF Inv, TypeInv
    <3> QED
      BY <1>0, <2>0, <1>3, <2>4, <3>1 DEF RuncDelete
  <2>5. CASE CleanLast(c)  BY <1>0, <1>3, <2>0, <2>5 DEF CleanLast
  <2> QED
    BY <1>3, <2>1, <2>2, <2>3, <2>4, <2>5
       DEF AgentStep, CreateStep, DeleteStep, CleanupStep
<1>4. CASE Forward
  BY <1>0, <1>4 DEF Forward, ServeStep, ServeStart, ServePause, ServeResume,
     ServeKill, SetStatus
<1>5. CASE UNCHANGED vars
  BY <1>0, <1>5 DEF vars
<1> QED
  BY <1>1, <1>2, <1>3, <1>4, <1>5 DEF Next

\* One step reserves for one request.
LEMMA ReservesOne ==
    ASSUME Types, NEW c \in Calls, NEW d \in Calls, Reserve(c), Reserve(d),
           drives' = drives \cup {Task(c)}, Task(c) \notin drives
    PROVE  c = d
<1>1. hpc[c] = "reserve" /\ hpc[d] = "reserve"
  BY DEF Reserve, Goto
<1>2. hpc'[c] # "reserve" /\ \A e \in Calls : e # c => hpc'[e] = hpc[e]
  BY DEF Reserve, Goto, Types
<1>3. hpc'[d] # "reserve"
  BY DEF Reserve, Goto, Types
<1> QED
  BY <1>1, <1>2, <1>3

\* Every step keeps one current Create of a task.
LEMMA OneCurrentStep ==
    ASSUME Inv, Types, [Next]_vars, NEW c \in Calls, NEW d \in Calls
    PROVE  OneCurrent(c, d)'
<1> SUFFICES ASSUME Current(c)', Current(d)', Key(c)' = Key(d)'
             PROVE  c = d
  BY DEF OneCurrent
<1>0. OneCurrent(c, d) /\ CurrentDrive(c) /\ CurrentDrive(d)
  BY DEF Inv, TaskInv
<1>1. \/ Current(c)
      \/ Reserve(c) /\ Task(c) \notin drives /\ drives' = drives \cup {Task(c)}
  BY CurrentKept
<1>2. \/ Current(d)
      \/ Reserve(d) /\ Task(d) \notin drives /\ drives' = drives \cup {Task(d)}
  BY CurrentKept
<1>3. CASE Reserve(c) /\ Task(c) \notin drives /\ drives' = drives \cup {Task(c)}
  <2>1. Task(c) = Task(d)
    BY <1>3 DEF Reserve, Task, Key
  <2> QED
    BY <1>0, <1>2, <1>3, <2>1, ReservesOne DEF CurrentDrive
<1>4. CASE Reserve(d) /\ Task(d) \notin drives /\ drives' = drives \cup {Task(d)}
  <2>1. Task(c) = Task(d)
    BY <1>4 DEF Reserve, Task, Key
  <2> QED
    BY <1>0, <1>1, <1>4, <2>1, ReservesOne DEF CurrentDrive
<1>5. CASE Current(c) /\ Current(d)
  <2>1. Key(c) = Key(d)
    BY <1>5, RequestsKept DEF Current, IsCreate, Key
  <2> QED
    BY <1>0, <1>5, <2>1 DEF OneCurrent
<1> QED
  BY <1>1, <1>2, <1>3, <1>4, <1>5

\* A drive is taken by a Release only.
LEMMA DrivesKept ==
    ASSUME Inv, Types, [Next]_vars, NEW t \in Tasks
    PROVE  (t \in drives =>
               \/ t \in drives'
               \/ \E f \in Calls : hpc[f] = "release" /\ Task(f) = t)
<1> USE DEF Types, Goto, GotoA, Key, Task, agentVars, hostVars, mountVars,
       cleanVars, runcVars
<1>1. ASSUME NEW c \in Calls, NEW method \in Methods, NEW k \in Keys,
             NEW io \in IOs(method), Call(c, method, k, io)
      PROVE  (t \in drives =>
               \/ t \in drives'
               \/ \E f \in Calls : hpc[f] = "release" /\ Task(f) = t)
  <2>1. PICK to : CallTo(c, method, k, io, to)
    BY <1>1, CallFacts
  <2> QED
    BY <2>1 DEF CallTo
<1>2. ASSUME NEW c \in Calls, req[c] # Idle, HostStep(c)
      PROVE  (t \in drives =>
               \/ t \in drives'
               \/ \E f \in Calls : hpc[f] = "release" /\ Task(f) = t)
  <2>0. Key(c) \in Keys
    BY <1>2 DEF Types, Key
  <2>1. CASE CreateLink(c) \/ GenerateExtraData(c) \/ CreateReturns(c)
           \/ DeleteReturns(c) \/ HostAwaitIO(c)
    BY <1>2, <2>0, <2>1 DEF CreateLink, GenerateExtraData, CreateReturns,
       DeleteReturns, HostAwaitIO
  <2>2. CASE Reserve(c) \/ Release(c) \/ Register(c)
    BY <1>2, <2>0, <2>2 DEF Reserve, Release, Register
  <2>3. CASE HostUndo(c) \/ HostTakeProc(c) \/ SendDelete(c) \/ Unlink(c)
    BY <1>2, <2>0, <2>3 DEF HostUndo, HostTakeProc, SendDelete, Unlink
  <2> QED
    BY <1>2, <2>1, <2>2, <2>3 DEF HostStep
<1>3. ASSUME NEW c \in Calls, req[c] # Idle, AgentStep(c), UNCHANGED hostVars
      PROVE  (t \in drives =>
               \/ t \in drives'
               \/ \E f \in Calls : hpc[f] = "release" /\ Task(f) = t)
  <2>0. Key(c) \in Keys
    BY <1>3 DEF Types, Key
  <2>1. CASE AcceptCreate(c) \/ StatRootfs(c) \/ AcceptExec(c)
    BY <1>3, <2>0, <2>1 DEF AcceptCreate, StatRootfs, AcceptExec
  <2>2. CASE WriteConfig(c) \/ AwaitIO(c) \/ StartCleanup(c) \/ EndCleanup(c)
           \/ NewProc(c) \/ Undo(c) \/ TakeProc(c)
    BY <1>3, <2>0, <2>2 DEF WriteConfig, AwaitIO, StartCleanup, EndCleanup,
       NewProc, Undo, TakeProc
  <2>3. CASE RuncCreate(c) \/ RuncDelete(c)
    BY <1>3, <2>0, <2>3 DEF RuncCreate, RuncDelete
  <2>4. CASE CleanLast(c)  BY <1>3, <2>0, <2>4 DEF CleanLast
  <2> QED
    BY <1>3, <2>1, <2>2, <2>3, <2>4
       DEF AgentStep, CreateStep, DeleteStep, CleanupStep
<1>4. CASE Forward
  BY <1>4 DEF Forward, ServeStep, ServeStart, ServePause, ServeResume,
     ServeKill, SetStatus
<1>5. CASE UNCHANGED vars
  BY <1>5 DEF vars
<1> QED
  BY <1>1, <1>2, <1>3, <1>4, <1>5 DEF Next

\* A Release is that of a Delete that the agent has served.
LEMMA ReleaseDeletes ==
    ASSUME Inv, Types, NEW c \in Calls, hpc[c] \in {"release", "unlink"}
    PROVE  Deletes(c) /\ apc[c] = "served" /\ Key(c) \in Keys
<1>1. ControlAt(c) /\ req[c].method \in Methods \cup {"none"}
  BY DEF Inv, ControlInv, Types
<1>2. req[c].method = "delete"
  BY <1>1 DEF ControlAt, IsCreate, IsExec, Methods
<1> QED
  BY <1>1, <1>2 DEF ControlAt, IsDelete, Deletes, Types

\* Who has the first process of a task anywhere is its current Create.
LEMMA RuncIsCurrent ==
    ASSUME Inv, Types, NEW k \in Keys, IsInit(k), NEW x \in {known[k], managed[k], runc[k]},
           x # NoCall
    PROVE  x \in Calls /\ IsCreate(x) /\ Key(x) = k /\ Current(x)
<1>1. x \in Calls
  BY DEF Types
<1>2. KnownAt(k, x) /\ ManagedAt(k, x) /\ RuncAt(k, x) /\ ControlAt(x)
  BY <1>1 DEF Inv, KnownInv, AgentInv, ControlInv
<1>3. (IsCreate(x) \/ IsExec(x)) /\ Key(x) = k
  BY <1>2 DEF KnownAt, ManagedAt, RuncAt
<1>4. IsCreate(x)
  BY <1>2, <1>3 DEF ControlAt
<1> QED
  BY <1>1, <1>3, <1>4 DEF Current

\* A task has one first process.
LEMMA SameInit ==
    ASSUME NEW j \in Keys, NEW k \in Keys, IsInit(j), IsInit(k), TaskOf(j) = TaskOf(k)
    PROVE  j = k
BY KeyFacts

\* Current Creates and Deletes that take a task away are about first processes.
LEMMA CurrentInit ==
    ASSUME Inv, Types, NEW c \in Calls, Current(c) \/ Deletes(c)
    PROVE  /\ Key(c) \in Keys /\ IsInit(Key(c)) /\ Task(c) \in Tasks
           /\ req[c].method # "none"
<1>1. ControlAt(c)
  BY DEF Inv, ControlInv
<1>2. Key(c) \in Keys /\ IsInit(Key(c)) /\ req[c].method # "none"
  BY <1>1 DEF Current, Deletes, ControlAt, IsCreate, IsDelete, Types
<1> QED
  BY <1>2, KeyFacts DEF Task

\* Every step keeps the drives of current Creates.
LEMMA CurrentDriveStep ==
    ASSUME Inv, Types, [Next]_vars, NEW c \in Calls
    PROVE  CurrentDrive(c)'
<1> SUFFICES ASSUME Current(c)'
             PROVE  Task(c)' \in drives'
  BY DEF CurrentDrive
<1>1. CASE Reserve(c) /\ Task(c) \notin drives /\ drives' = drives \cup {Task(c)}
  BY <1>1 DEF Reserve, Task, Key
<1>2. CASE Current(c)
  <2>1. Task(c)' = Task(c)
    BY <1>2, CurrentInit, RequestsKept DEF Task, Key
  <2>2. Task(c) \in drives
    BY <1>2 DEF Inv, TaskInv, CurrentDrive
  <2>3. ASSUME NEW f \in Calls, hpc[f] = "release", Task(f) = Task(c)
        PROVE  FALSE
    <3>1. Deletes(f)
      BY <2>3, ReleaseDeletes
    <3>2. Key(f) = Key(c)
      BY <1>2, <2>3, <3>1, CurrentInit, SameInit DEF Task
    <3>3. OvertakenAt(c, f)
      BY DEF Inv, TaskInv
    <3> QED
      BY <1>2, <2>3, <3>1, <3>2, <3>3 DEF OvertakenAt
  <2>4. Task(c) \in Tasks
    BY <1>2, CurrentInit
  <2> QED
    BY <2>1, <2>2, <2>3, <2>4, DrivesKept
<1> QED
  BY <1>1, <1>2, CurrentKept

\* Every step keeps one Delete that takes a task away.
LEMMA OneDeleteStep ==
    ASSUME Inv, Types, [Next]_vars, NEW c \in Calls, NEW d \in Calls
    PROVE  OneDelete(c, d)'
<1> SUFFICES ASSUME Deletes(c)', Deletes(d)', Key(c)' = Key(d)'
             PROVE  c = d
  BY DEF OneDelete
<1> DEFINE New(x) == RuncDelete(x) /\ apc[x] = "sent" /\ runc[Key(x)] # NoCall
<1>1. OneDelete(c, d) /\ DeletesAt(c) /\ DeletesAt(d) /\ ControlAt(c) /\ ControlAt(d)
  BY DEF Inv, TaskInv, ControlInv
<1>2. (Deletes(c) \/ New(c)) /\ (Deletes(d) \/ New(d))
  BY DeletesKept
<1>3. req'[c] = req[c] /\ req'[d] = req[d]
  BY <1>2, RequestsKept DEF Deletes, IsDelete, RuncDelete
<1>4. Key(c) = Key(d)
  BY <1>3 DEF Key
<1>5. CASE Deletes(c) /\ Deletes(d)
  BY <1>1, <1>4, <1>5 DEF OneDelete
<1>6. CASE (Deletes(c) /\ New(d)) \/ (New(c) /\ Deletes(d))
  BY <1>1, <1>4, <1>6 DEF DeletesAt
<1>7. CASE New(c) /\ New(d)
  <2>1. \A e \in Calls : e # c => apc'[e] = apc[e]
    BY <1>7 DEF RuncDelete, GotoA, Types
  <2>2. apc'[d] # "sent"
    BY DEF Deletes, Deleting
  <2> QED
    BY <1>7, <2>1, <2>2
<1> QED
  BY <1>2, <1>5, <1>6, <1>7

\* A released drive stays released until the link is gone.
LEMMA UnlinkStep ==
    ASSUME Inv, Types, [Next]_vars, NEW d \in Calls
    PROVE  (hpc[d] = "unlink" => Task(d) \notin drives)'
<1>0. /\ (hpc[d] = "unlink" => Task(d) \notin drives) /\ ControlAt(d)
  BY DEF Inv, TaskInv, DeleteDrive, ControlInv, Serial
<1> USE KeyFacts DEF Types, ControlAt, SerialAt, Active, Methods, IsCreate,
       IsExec, IsDelete, Over, CreateActive, ExecActive, Deleting, Goto,
       GotoA, Key, Task, agentVars, hostVars, mountVars, cleanVars, runcVars
<1>1. ASSUME NEW c \in Calls, NEW method \in Methods, NEW k \in Keys,
             NEW io \in IOs(method), Call(c, method, k, io)
      PROVE  (hpc[d] = "unlink" => Task(d) \notin drives)'
  <2>0. /\ ControlAt(c) /\ SerialAt(c, d)
    BY DEF Inv, TaskInv, DeleteDrive, ControlInv, Serial
  <2>1. PICK to : CallTo(c, method, k, io, to)
    BY <1>1, CallFacts
  <2> QED
    BY <1>0, <2>0, <2>1 DEF CallTo
<1>2. ASSUME NEW c \in Calls, req[c] # Idle, HostStep(c)
      PROVE  (hpc[d] = "unlink" => Task(d) \notin drives)'
  <2>0. /\ ControlAt(c) /\ SerialAt(c, d) /\ Key(c) \in Keys
    BY <1>2 DEF Inv, TaskInv, DeleteDrive, ControlInv, Serial
  <2>1. CASE CreateLink(c) \/ GenerateExtraData(c) \/ CreateReturns(c)
           \/ DeleteReturns(c) \/ HostAwaitIO(c)
    BY <1>0, <1>2, <2>0, <2>1 DEF CreateLink, GenerateExtraData,
       CreateReturns, DeleteReturns, HostAwaitIO
  <2>2. CASE Reserve(c) \/ Release(c) \/ Register(c)
    BY <1>0, <1>2, <2>0, <2>2 DEF Reserve, Release, Register
  <2>3. CASE HostUndo(c) \/ HostTakeProc(c) \/ SendDelete(c) \/ Unlink(c)
    BY <1>0, <1>2, <2>0, <2>3 DEF HostUndo, HostTakeProc, SendDelete, Unlink
  <2> QED
    BY <1>2, <2>1, <2>2, <2>3 DEF HostStep
<1>3. ASSUME NEW c \in Calls, req[c] # Idle, AgentStep(c), UNCHANGED hostVars
      PROVE  (hpc[d] = "unlink" => Task(d) \notin drives)'
  <2>0. /\ ControlAt(c) /\ SerialAt(c, d) /\ Key(c) \in Keys
    BY <1>3 DEF Inv, TaskInv, DeleteDrive, ControlInv, Serial
  <2>1. CASE AcceptCreate(c) \/ StatRootfs(c) \/ AcceptExec(c)
    BY <1>0, <1>3, <2>0, <2>1 DEF AcceptCreate, StatRootfs, AcceptExec
  <2>2. CASE WriteConfig(c) \/ AwaitIO(c) \/ StartCleanup(c) \/ EndCleanup(c)
           \/ NewProc(c) \/ Undo(c) \/ TakeProc(c)
    BY <1>0, <1>3, <2>0, <2>2 DEF WriteConfig, AwaitIO, StartCleanup,
       EndCleanup, NewProc, Undo, TakeProc
  <2>3. CASE RuncCreate(c) \/ RuncDelete(c)
    BY <1>0, <1>3, <2>0, <2>3 DEF RuncCreate, RuncDelete
  <2>4. CASE CleanLast(c)  BY <1>0, <1>3, <2>0, <2>4 DEF CleanLast
  <2> QED
    BY <1>3, <2>1, <2>2, <2>3, <2>4
       DEF AgentStep, CreateStep, DeleteStep, CleanupStep
<1>4. CASE Forward
  BY <1>0, <1>4 DEF Forward, ServeStep, ServeStart, ServePause, ServeResume,
     ServeKill, SetStatus
<1>5. CASE UNCHANGED vars
  BY <1>0, <1>5 DEF vars
<1> QED
  BY <1>1, <1>2, <1>3, <1>4, <1>5 DEF Next

\* Every step keeps the drive of a task until its Delete releases it.
LEMMA DeleteDriveStep ==
    ASSUME Inv, Types, [Next]_vars, NEW c \in Calls
    PROVE  DeleteDrive(c)'
<1> SUFFICES ASSUME Deletes(c)', apc'[c] \in Deleting
             PROVE  Task(c)' \in drives'
  BY UnlinkStep DEF DeleteDrive
<1>1. CASE RuncDelete(c) /\ runc[Key(c)] # NoCall /\ UNCHANGED hostVars
  <2>1. Key(c)' = Key(c) /\ Task(c)' = Task(c) /\ IsInit(Key(c))
    BY <1>1 DEF RuncDelete, Deletes, Key, Task
  <2>2. Key(c) \in Keys
    BY <1>1 DEF RuncDelete, Types
  <2>3. PICK e \in Calls : Current(e) /\ Key(e) = Key(c)
    BY <1>1, <2>1, <2>2, RuncIsCurrent
  <2>4. Task(e) \in drives
    BY <2>3 DEF Inv, TaskInv, CurrentDrive
  <2> QED
    BY <1>1, <2>1, <2>3, <2>4 DEF Task, hostVars
<1>2. CASE Deletes(c) /\ apc[c] \in Deleting
  <2>1. Task(c)' = Task(c)
    BY <1>2, CurrentInit, RequestsKept DEF Task, Key
  <2>2. Task(c) \in drives
    BY <1>2 DEF Inv, TaskInv, DeleteDrive
  <2>3. ASSUME NEW f \in Calls, hpc[f] = "release", Task(f) = Task(c)
        PROVE  FALSE
    <3>1. Deletes(f) /\ apc[f] = "served"
      BY <2>3, ReleaseDeletes
    <3>2. Key(f) = Key(c)
      BY <1>2, <2>3, <3>1, CurrentInit, SameInit DEF Task
    <3>3. OneDelete(c, f)
      BY DEF Inv, TaskInv
    <3> QED
      BY <1>2, <3>1, <3>2, <3>3 DEF OneDelete, Deleting
  <2>4. Task(c) \in Tasks
    BY <1>2, CurrentInit
  <2> QED
    BY <2>1, <2>2, <2>3, <2>4, DrivesKept
<1> QED
  BY <1>1, <1>2, DeletesKept

\* While a Delete takes a task away, nothing of it comes back.
LEMMA DeletesAtKept ==
    ASSUME Inv, Types, [Next]_vars, NEW d \in Calls
    PROVE  (Deletes(d) => DeletesAt(d)')
<1>0. /\ DeletesAt(d) /\ ControlAt(d)
  BY DEF Inv, TaskInv, ControlInv
<1> USE NoCallAssumption DEF Types, Deletes, DeletesAt, ControlAt,
       OvertakenAt, Current, Methods, IsCreate, IsExec, IsDelete, Over,
       CreateActive, ExecActive, Deleting, Goto, GotoA, Key, Task, agentVars,
       hostVars, mountVars, cleanVars, runcVars
<1>1. ASSUME NEW c \in Calls, NEW method \in Methods, NEW k \in Keys,
             NEW io \in IOs(method), Call(c, method, k, io)
      PROVE  (Deletes(d) => DeletesAt(d)')
  <2>0. /\ ControlAt(c) /\ OvertakenAt(c, d)
    BY DEF Inv, TaskInv, ControlInv
  <2>1. PICK to : CallTo(c, method, k, io, to)
    BY <1>1, CallFacts
  <2> QED
    BY <1>0, <2>0, <2>1 DEF CallTo
<1>2. ASSUME NEW c \in Calls, req[c] # Idle, HostStep(c)
      PROVE  (Deletes(d) => DeletesAt(d)')
  <2>0. /\ ControlAt(c) /\ OvertakenAt(c, d) /\ Key(c) \in Keys
    BY <1>2 DEF Inv, TaskInv, ControlInv
  <2>1. CASE CreateLink(c) \/ GenerateExtraData(c) \/ CreateReturns(c)
           \/ DeleteReturns(c) \/ HostAwaitIO(c)
    BY <1>0, <1>2, <2>0, <2>1 DEF CreateLink, GenerateExtraData,
       CreateReturns, DeleteReturns, HostAwaitIO
  <2>2. CASE Reserve(c) \/ Release(c) \/ Register(c)
    BY <1>0, <1>2, <2>0, <2>2, RegisterFacts DEF Reserve, Release,
       RegisterEffect
  <2>3. CASE HostUndo(c) \/ HostTakeProc(c) \/ SendDelete(c) \/ Unlink(c)
    BY <1>0, <1>2, <2>0, <2>3 DEF HostUndo, HostTakeProc, SendDelete, Unlink
  <2> QED
    BY <1>2, <2>1, <2>2, <2>3 DEF HostStep
<1>3. ASSUME NEW c \in Calls, req[c] # Idle, AgentStep(c), UNCHANGED hostVars
      PROVE  (Deletes(d) => DeletesAt(d)')
  <2>0. /\ ControlAt(c) /\ OvertakenAt(c, d) /\ Key(c) \in Keys
    BY <1>3 DEF Inv, TaskInv, ControlInv
  <2>1. CASE AcceptCreate(c)
    <3>1. CASE UNCHANGED cleanups
      BY <1>0, <2>0, <1>3, <2>1, <3>1 DEF AcceptCreate
    <3>2. CASE AddCleanup(c, "bundle") /\ Deletes(d)
      <4>1. Key(c) # Key(d)
        BY <1>0, <2>0, <1>3, <2>1, <3>2 DEF AcceptCreate
      <4>2. cleanups'[Key(d)] = cleanups[Key(d)]
        BY <1>0, <2>0, <3>2, <4>1 DEF AddCleanup
      <4> QED
        BY <1>0, <2>0, <1>3, <2>1, <4>2 DEF AcceptCreate
    <3> QED
      BY <1>3, <2>1, <3>1, <3>2 DEF AcceptCreate
  <2>2. CASE StatRootfs(c)
    <3>1. CASE UNCHANGED cleanups
      BY <1>0, <2>0, <1>3, <2>2, <3>1 DEF StatRootfs
    <3>2. CASE AddCleanup(c, "rootfs") /\ Deletes(d)
      <4>1. Key(c) # Key(d)
        BY <1>0, <2>0, <1>3, <2>2, <3>2 DEF StatRootfs
      <4>2. cleanups'[Key(d)] = cleanups[Key(d)]
        BY <1>0, <2>0, <3>2, <4>1 DEF AddCleanup
      <4> QED
        BY <1>0, <2>0, <1>3, <2>2, <4>2 DEF StatRootfs
    <3> QED
      BY <1>3, <2>2, <3>1, <3>2 DEF StatRootfs
  <2>3. CASE AcceptExec(c)
    <3>1. CASE UNCHANGED cleanups
      BY <1>0, <2>0, <1>3, <2>3, <3>1 DEF AcceptExec
    <3>2. CASE AddCleanup(c, "fifos") /\ Deletes(d)
      <4>1. Key(c) # Key(d)
        BY <1>0, <2>0, <1>3, <2>3, <3>2 DEF AcceptExec
      <4>2. cleanups'[Key(d)] = cleanups[Key(d)]
        BY <1>0, <2>0, <3>2, <4>1 DEF AddCleanup
      <4> QED
        BY <1>0, <2>0, <1>3, <2>3, <4>2 DEF AcceptExec
    <3> QED
      BY <1>3, <2>3, <3>1, <3>2 DEF AcceptExec
  <2>4. CASE WriteConfig(c) \/ AwaitIO(c) \/ StartCleanup(c) \/ EndCleanup(c)
           \/ NewProc(c) \/ Undo(c) \/ TakeProc(c)
    BY <1>0, <1>3, <2>0, <2>4, NewProcFacts DEF WriteConfig, AwaitIO,
       StartCleanup, EndCleanup, NewProcEffect, Undo, TakeProc
  <2>5. CASE RuncCreate(c)
    <3>1. CASE RuncCreates(c)
      BY <1>0, <1>3, <2>0, <3>1 DEF RuncCreates
    <3>2. CASE RuncCreateFails(c)
      BY <1>0, <1>3, <2>0, <3>2 DEF RuncCreateFails
    <3> QED
      BY <2>5, <3>1, <3>2, RuncCreateFacts DEF RuncCreateEffect
  <2>6. CASE RuncDelete(c)
    BY <1>0, <1>3, <2>0, <2>6, RuncDeleteFacts DEF RuncDeleteEffect
  <2>7. CASE CleanLast(c)  BY <1>0, <1>3, <2>0, <2>7 DEF CleanLast
  <2> QED
    BY <1>3, <2>1, <2>2, <2>3, <2>4, <2>5, <2>6, <2>7
       DEF AgentStep, CreateStep, DeleteStep, CleanupStep
<1>4. CASE Forward
  BY <1>0, <1>4 DEF Forward, ServeStep, ServeStart, ServePause, ServeResume,
     ServeKill, SetStatus
<1>5. CASE UNCHANGED vars
  BY <1>0, <1>5 DEF vars
<1> QED
  BY <1>1, <1>2, <1>3, <1>4, <1>5 DEF Next

\* Every step keeps gone what a Delete has taken.
LEMMA DeletesAtStep ==
    ASSUME Inv, Types, [Next]_vars, NEW c \in Calls
    PROVE  DeletesAt(c)'
<1>1. CASE RuncDelete(c) /\ apc'[c] = "take" /\ apc[c] = "sent"
  <2>1. Key(c) \in Keys /\ Key(c)' = Key(c)
    BY <1>1 DEF RuncDelete, Types, Key
  <2>2. runc'[Key(c)] = NoCall
    BY <1>1, <2>1 DEF RuncDelete, GotoA, Siblings, Types
  <2> QED
    BY <1>1, <2>1, <2>2 DEF DeletesAt
<1> QED
  BY <1>1, DeletesKept, DeletesAtKept DEF DeletesAt

\* Only a Create is current.
LEMMA CurrentIsCreate == \A c \in Calls : Current(c) => IsCreate(c)
BY DEF Current

\* The shim takes the process from its TaskManager: the Create has nothing left.
LEMMA TakenByDelete ==
    ASSUME Inv, Types, NEW c \in Calls, NEW d \in Calls, Current(c), Deletes(d),
           Key(c) = Key(d), HostTakeProc(d), known[Key(d)] # NoCall
    PROVE  ~Current(c)'
<1>1. /\ ControlAt(c) /\ ControlAt(d) /\ DeletesAt(d) /\ SerialAt(c, d)
      /\ Key(c) \in Keys /\ IsInit(Key(c)) /\ IsCreate(c)
  BY CurrentInit DEF Inv, TaskInv, ControlInv, Serial, Current
<1>2. known[Key(c)] = c
  <2>1. known[Key(c)] \in Calls /\ Current(known[Key(c)]) /\ Key(known[Key(c)]) = Key(c)
    BY <1>1, RuncIsCurrent
  <2>2. OneCurrent(c, known[Key(c)])
    BY <2>1 DEF Inv, TaskInv
  <2> QED
    BY <2>1, <2>2 DEF OneCurrent
<1>3. KnownAt(Key(c), c)
  BY <1>1 DEF Inv, KnownInv
<1>4. hpc[c] = "created" /\ apc[c] = "served"
  BY <1>1, <1>2, <1>3 DEF KnownAt, ControlAt, SerialAt, Active, Over, HostTakeProc, Goto,
     IsCreate, Deletes, IsDelete
<1>5. /\ managed[Key(c)] = NoCall /\ runc[Key(c)] = NoCall /\ cleanups[Key(c)] = << >>
  BY <1>1 DEF DeletesAt, HostTakeProc, Goto, ControlAt
<1>6. hpc'[c] = "created" /\ known'[Key(c)] = NoCall
  BY <1>1, <1>4 DEF HostTakeProc, Goto, Types
<1> QED
  BY <1>1, <1>4, <1>5, <1>6, NoCallAssumption
     DEF Current, HostTakeProc, agentVars, cleanVars, runcVars, Key, CreateActive, IsCreate

\* A Create that was overtaken stays so.
LEMMA OvertakenKept ==
    ASSUME Inv, Types, [Next]_vars, NEW d \in Calls, NEW e \in Calls
    PROVE  (Current(d) /\ Deletes(e) /\ Current(d)' /\ Key(d) = Key(e) =>
               /\ apc'[d] \in {"io", "undo", "fail", "cleanFail", "failed", "served"}
               /\ hpc'[e] \notin {"release", "unlink"})
<1>0. /\ OvertakenAt(d, e) /\ ControlAt(d) /\ ControlAt(e)
  BY DEF Inv, TaskInv, ControlInv
<1> USE CurrentIsCreate DEF Types, Deletes, ControlAt, OvertakenAt, Methods,
       IsCreate, IsExec, IsDelete, Over, CreateActive, ExecActive, Deleting,
       Goto, GotoA, Key, Task, agentVars, hostVars, mountVars, cleanVars,
       runcVars
<1>1. ASSUME NEW c \in Calls, NEW method \in Methods, NEW k \in Keys,
             NEW io \in IOs(method), Call(c, method, k, io)
      PROVE  (Current(d) /\ Deletes(e) /\ Current(d)' /\ Key(d) = Key(e) =>
               /\ apc'[d] \in {"io", "undo", "fail", "cleanFail", "failed", "served"}
               /\ hpc'[e] \notin {"release", "unlink"})
  <2>1. PICK to : CallTo(c, method, k, io, to)
    BY <1>1, CallFacts
  <2> QED
    BY <1>0, <2>1 DEF CallTo
<1>2. ASSUME NEW c \in Calls, req[c] # Idle, HostStep(c)
      PROVE  (Current(d) /\ Deletes(e) /\ Current(d)' /\ Key(d) = Key(e) =>
               /\ apc'[d] \in {"io", "undo", "fail", "cleanFail", "failed", "served"}
               /\ hpc'[e] \notin {"release", "unlink"})
  <2>0. Key(c) \in Keys
    BY <1>2 DEF Types, Key
  <2>1. CASE CreateLink(c) \/ GenerateExtraData(c) \/ CreateReturns(c)
           \/ DeleteReturns(c) \/ HostAwaitIO(c)
    BY <1>0, <1>2, <2>0, <2>1 DEF CreateLink, GenerateExtraData,
       CreateReturns, DeleteReturns, HostAwaitIO
  <2>2. CASE Reserve(c) \/ Release(c) \/ Register(c)
    BY <1>0, <1>2, <2>0, <2>2 DEF Reserve, Release, Register
  <2>3. CASE HostUndo(c) \/ SendDelete(c) \/ Unlink(c)
    BY <1>0, <1>2, <2>0, <2>3 DEF HostUndo, SendDelete, Unlink
  <2>4. CASE HostTakeProc(c)
    <3>1. CASE c # e \/ known[Key(c)] = NoCall
      BY <1>0, <2>0, <1>2, <2>4, <3>1 DEF HostTakeProc
    <3>2. ASSUME c = e, known[Key(c)] # NoCall, Current(d), Deletes(e), Key(d) = Key(e)
          PROVE  ~Current(d)'
      BY <3>2, <2>4, TakenByDelete
    <3> QED
      BY <1>0, <1>2, <2>4, <3>1, <3>2 DEF HostTakeProc
  <2> QED
    BY <1>2, <2>1, <2>2, <2>3, <2>4 DEF HostStep
<1>3. ASSUME NEW c \in Calls, req[c] # Idle, AgentStep(c), UNCHANGED hostVars
      PROVE  (Current(d) /\ Deletes(e) /\ Current(d)' /\ Key(d) = Key(e) =>
               /\ apc'[d] \in {"io", "undo", "fail", "cleanFail", "failed", "served"}
               /\ hpc'[e] \notin {"release", "unlink"})
  <2>0. Key(c) \in Keys
    BY <1>3 DEF Types, Key
  <2>1. CASE AcceptCreate(c) \/ StatRootfs(c) \/ AcceptExec(c)
    BY <1>0, <1>3, <2>0, <2>1 DEF AcceptCreate, StatRootfs, AcceptExec
  <2>2. CASE WriteConfig(c) \/ AwaitIO(c) \/ StartCleanup(c) \/ EndCleanup(c)
           \/ NewProc(c) \/ Undo(c) \/ TakeProc(c)
    BY <1>0, <1>3, <2>0, <2>2 DEF WriteConfig, AwaitIO, StartCleanup,
       EndCleanup, NewProc, Undo, TakeProc
  <2>3. CASE RuncCreate(c) \/ RuncDelete(c)
    BY <1>0, <1>3, <2>0, <2>3 DEF RuncCreate, RuncDelete
  <2>4. CASE CleanLast(c)  BY <1>0, <1>3, <2>0, <2>4 DEF CleanLast
  <2> QED
    BY <1>3, <2>1, <2>2, <2>3, <2>4
       DEF AgentStep, CreateStep, DeleteStep, CleanupStep
<1>4. CASE Forward
  BY <1>0, <1>4 DEF Forward, ServeStep, ServeStart, ServePause, ServeResume,
     ServeKill, SetStatus
<1>5. CASE UNCHANGED vars
  BY <1>0, <1>5 DEF vars
<1> QED
  BY <1>1, <1>2, <1>3, <1>4, <1>5 DEF Next

\* Every step keeps that a Delete overtakes a Create only where runc has the task.
LEMMA OvertakenStep ==
    ASSUME Inv, Types, [Next]_vars, NEW c \in Calls, NEW d \in Calls
    PROVE  OvertakenAt(c, d)'
<1> SUFFICES ASSUME Current(c)', Deletes(d)', Key(c)' = Key(d)'
             PROVE  /\ apc'[c] \in {"io", "undo", "fail", "cleanFail", "failed", "served"}
                    /\ hpc'[d] \notin {"release", "unlink"}
  BY DEF OvertakenAt
<1> DEFINE New(x) == /\ RuncDelete(x) /\ apc[x] = "sent" /\ runc[Key(x)] # NoCall
                     /\ apc'[x] = "take" /\ UNCHANGED hostVars
           Starts(x) == Reserve(x) /\ Task(x) \notin drives
<1>1. ControlAt(c) /\ ControlAt(d) /\ SerialAt(c, d) /\ DeleteDrive(d)
  BY DEF Inv, ControlInv, Serial, TaskInv
<1>2. Current(c) \/ Starts(c)
  BY CurrentKept
<1>3. Deletes(d) \/ New(d)
  BY DeletesKept
<1>4. Key(d)' = Key(d) /\ Key(d) \in Keys
  BY <1>3, RequestsKept DEF Deletes, IsDelete, RuncDelete, Key, Types
<1>5. CASE Starts(c)
  <2>1. Key(c) = Key(d) /\ hpc[c] = "reserve"
    BY <1>4, <1>5 DEF Reserve, Key, Goto
  <2>2. Deletes(d)
    BY <1>3, <1>5, <2>1 DEF Reserve, hostVars, Goto, Types
  <2> QED
    BY <1>1, <1>5, <2>1, <2>2
       DEF DeleteDrive, Deletes, Task, SerialAt, Active, Over, ControlAt, Deleting, IsDelete,
           Reserve, Goto, IsCreate
<1>6. CASE Current(c) /\ New(d)
  <2>1. Key(c) = Key(d)
    BY <1>4, <1>6, CurrentInit, RequestsKept DEF Key
  <2>2. PICK e \in Calls : e = runc[Key(d)] /\ Current(e) /\ Key(e) = Key(d)
    BY <1>4, <1>6, <2>1, CurrentInit, RuncIsCurrent
  <2>3. e = c
    BY <1>6, <2>1, <2>2 DEF Inv, TaskInv, OneCurrent
  <2>4. RuncAt(Key(d), c)
    BY <1>4 DEF Inv, AgentInv
  <2>5. apc[c] \in {"io", "undo", "fail", "cleanFail", "failed", "served"}
    BY <2>2, <2>3, <2>4 DEF RuncAt
  <2>6. apc'[c] = apc[c]
    BY <1>6, <2>5 DEF RuncDelete, GotoA, Types
  <2> QED
    BY <1>1, <1>6, <2>5, <2>6 DEF hostVars, ControlAt
<1>7. CASE Current(c) /\ Deletes(d)
  BY <1>4, <1>7, CurrentInit, RequestsKept, OvertakenKept DEF Key
<1> QED
  BY <1>2, <1>3, <1>5, <1>6, <1>7

-----------------------------------------------------------------------------
(* The cleanups, and what a Create needs.                                  *)

\* No other request does anything to the process of a Create that needs it.
LEMMA Alone ==
    ASSUME Inv, Types, NEW c \in Calls, NEW d \in Calls, Holding(d), Key(c) = Key(d), c # d
    PROVE  /\ hpc[c] \notin {"release", "unlink"}
           /\ apc[c] \in {"idle", "served", "failed"} \/ (apc[c] = "sent" /\ IsDelete(c))
           /\ ~Deletes(c)
<1>1. /\ ControlAt(c) /\ ControlAt(d) /\ OneCurrent(c, d) /\ OvertakenAt(d, c) /\ DeletesAt(c)
      /\ req[c].method \in {"create", "exec", "delete", "none"}
  BY DEF Inv, TaskInv, ControlInv, Types, Methods
<1>2. Current(d) /\ IsInit(Key(d))
  BY <1>1 DEF Holding, Fresh, Half, Full, Running, Current, ControlAt, CreateActive
<1>3. ~Current(c)
  BY <1>1, <1>2 DEF OneCurrent
<1>4. ~Deletes(c)
  BY <1>1, <1>2, NoCallAssumption 
     DEF OvertakenAt, DeletesAt, Holding, Fresh, Half, Full, Running, ControlAt,
         IsCreate, IsDelete
<1>5. hpc[c] \notin {"release", "unlink"}
  BY <1>4, ReleaseDeletes
<1>6. apc[c] \in {"idle", "served", "failed"} \/ (apc[c] = "sent" /\ IsDelete(c))
  <2>1. CASE IsCreate(c)
    BY <1>1, <1>3, <2>1 DEF ControlAt, Current
  <2>2. CASE IsExec(c)
    BY <1>1, <1>2, <2>2 DEF ControlAt
  <2>3. CASE IsDelete(c)
    BY <1>1, <1>2, <1>4, <2>3 DEF ControlAt, Deletes
  <2>4. CASE req[c].method = "none"
    BY <1>1, <2>4 DEF ControlAt
  <2> QED
    BY <1>1, <2>1, <2>2, <2>3, <2>4 DEF IsCreate, IsExec, IsDelete
<1> QED
  BY <1>4, <1>5, <1>6

\* Sequences of one and two cleanups.
LEMMA PairFacts ==
    ASSUME NEW x \in Entries, NEW y \in Entries
    PROVE  /\ Last(<<x>>) = x /\ Front(<<x>>) = << >> /\ <<x>> # << >>
           /\ Last(<<x, y>>) = y /\ Front(<<x, y>>) = <<x>> /\ <<x, y>> # << >>
           /\ Append(<< >>, x) = <<x>> /\ Append(<<x>>, y) = <<x, y>>
           /\ Head(<<x>>) = x /\ Head(<<x, y>>) = x
<1>1. Last(<<x>>) = x /\ Last(<<x, y>>) = y
  BY DEF Last
<1>2. Front(<<x>>) = << >>
  BY DEF Front
<1>3. Front(<<x, y>>) = <<x>>
  <2>1. <<x, y>> \in Seq(Entries) /\ <<x>> \in Seq(Entries) /\ Len(<<x, y>>) = 2
    OBVIOUS
  <2>2. Front(<<x, y>>) = SubSeq(<<x, y>>, 1, 1)
    BY <2>1 DEF Front
  <2>3. /\ SubSeq(<<x, y>>, 1, 1) \in Seq(Entries) /\ Len(SubSeq(<<x, y>>, 1, 1)) = 1
        /\ SubSeq(<<x, y>>, 1, 1)[1] = x
    BY <2>1
  <2> QED
    BY <2>1, <2>2, <2>3, SeqEqual
<1>4. <<x>> # << >> /\ <<x, y>> # << >> /\ Head(<<x>>) = x /\ Head(<<x, y>>) = x
  OBVIOUS
<1>5. Append(<< >>, x) = <<x>> /\ Append(<<x>>, y) = <<x, y>>
  <2>1. /\ <<x>> \in Seq(Entries) /\ <<x, y>> \in Seq(Entries) /\ << >> \in Seq(Entries)
        /\ Len(<<x>>) = 1 /\ Len(<<x, y>>) = 2
    OBVIOUS
  <2>2. /\ Append(<< >>, x) \in Seq(Entries) /\ Len(Append(<< >>, x)) = 1
        /\ Append(<< >>, x)[1] = x
    BY <2>1
  <2>3. /\ Append(<<x>>, y) \in Seq(Entries) /\ Len(Append(<<x>>, y)) = 2
        /\ Append(<<x>>, y)[1] = x /\ Append(<<x>>, y)[2] = y
    BY <2>1
  <2>4. Append(<< >>, x) = <<x>>
    BY <2>1, <2>2, SeqEqual
  <2>5. \A n \in 1..2 : Append(<<x>>, y)[n] = <<x, y>>[n]
    BY <2>3
  <2>6. Append(<<x>>, y) = <<x, y>>
    BY <2>1, <2>3, <2>5, SeqEqual
  <2> QED
    BY <2>4, <2>6
<1> QED
  BY <1>1, <1>2, <1>3, <1>4, <1>5

\* The cleanups of a task are those of its current Create.
LEMMA WhoCleans ==
    ASSUME Inv, Types, NEW k \in Keys, IsInit(k), cleanups[k] # << >>
    PROVE  \E c \in Calls :
              /\ Current(c) /\ Key(c) = k
              /\ \/ cleanups[k] = <<BundleEntry(c)>> /\ (TaskOf(k) \in mounted => apc[c] = "stat")
                 \/ cleanups[k] = <<BundleEntry(c), RootfsEntry(c)>>
<1>1. PICK c \in Calls :
         /\ IsCreate(c) /\ Key(c) = k
         /\ \/ cleanups[k] = <<BundleEntry(c)>> /\ (TaskOf(k) \in mounted => apc[c] = "stat")
            \/ cleanups[k] = <<BundleEntry(c), RootfsEntry(c)>>
  BY DEF Inv, CleanupInv, CleanupAt, CleanedBy
<1>2. Head(cleanups[k]) = BundleEntry(c)
  BY <1>1, EntryTypes, PairFacts
<1>3. Head(cleanups[k]).by = c
  BY <1>2 DEF BundleEntry
<1>4. Current(c)
  BY <1>1, <1>3 DEF Current
<1> QED
  BY <1>1, <1>4

\* What a step of doCleanup does.
LEMMA CleanInit ==
    ASSUME Inv, Types, NEW c \in Calls, Key(c) \in Keys, IsInit(Key(c)), CleanLast(c)
    PROVE  \E f \in Calls :
              /\ Current(f) /\ Key(f) = Key(c)
              /\ \/ /\ cleanups[Key(c)] = <<BundleEntry(f)>> /\ cleanups'[Key(c)] = << >>
                    /\ Task(c) \notin mounted
                    /\ bundles' = bundles \ {Task(c)} /\ mounted' = mounted
                    /\ fifos' = {d \in fifos : Task(d) # Task(c)}
                 \/ /\ cleanups[Key(c)] = <<BundleEntry(f), RootfsEntry(f)>>
                    /\ cleanups'[Key(c)] = <<BundleEntry(f)>>
                    /\ mounted' = mounted \ {Task(c)} /\ UNCHANGED <<bundles, fifos>>
<1>1. cleanups[Key(c)] # << >> /\ Clean(Last(cleanups[Key(c)]), Task(c))
  BY DEF CleanLast
<1>2. PICK f \in Calls :
         /\ Current(f) /\ Key(f) = Key(c)
         /\ \/ /\ cleanups[Key(c)] = <<BundleEntry(f)>>
               /\ (TaskOf(Key(c)) \in mounted => apc[f] = "stat")
            \/ cleanups[Key(c)] = <<BundleEntry(f), RootfsEntry(f)>>
  BY <1>1, WhoCleans
<1>3. cleanups'[Key(c)] = Front(cleanups[Key(c)])
  BY DEF CleanLast, Types
<1>4. CASE cleanups[Key(c)] = <<BundleEntry(f)>> /\ (TaskOf(Key(c)) \in mounted => apc[f] = "stat")
  <2>1. Last(cleanups[Key(c)]) = BundleEntry(f) /\ cleanups'[Key(c)] = << >>
    BY <1>3, <1>4, EntryTypes, PairFacts
  <2>2. /\ bundles' = bundles \ {Task(c)} /\ mounted' = mounted
        /\ fifos' = {d \in fifos : Task(d) # Task(c)}
    BY <1>1, <2>1 DEF Clean, BundleEntry
  <2>3. CleanerAt(c) /\ cleaner = c
    BY DEF CleanLast, Inv, AgentInv
  <2>4. apc[f] # "stat"
    <3>1. SUFFICES ASSUME apc[f] = "stat" PROVE FALSE
      OBVIOUS
    <3>2. Holding(f) /\ apc[c] \in {"cleanFail", "cleanDone"}
      BY <1>2, <2>3, <3>1 DEF Holding, Fresh, Half, Full, Running, Current, CleanerAt
    <3> QED
      BY <1>2, <3>1, <3>2, Alone
  <2> QED
    BY <1>2, <1>4, <2>1, <2>2, <2>4 DEF Task
<1>5. CASE cleanups[Key(c)] = <<BundleEntry(f), RootfsEntry(f)>>
  <2>1. Last(cleanups[Key(c)]) = RootfsEntry(f) /\ cleanups'[Key(c)] = <<BundleEntry(f)>>
    <3>1. BundleEntry(f) \in Entries /\ RootfsEntry(f) \in Entries
      BY EntryTypes
    <3>2. /\ Last(<<BundleEntry(f), RootfsEntry(f)>>) = RootfsEntry(f)
          /\ Front(<<BundleEntry(f), RootfsEntry(f)>>) = <<BundleEntry(f)>>
      BY <3>1, PairFacts
    <3> QED
      BY <1>3, <1>5, <3>2
  <2>2. mounted' = mounted \ {Task(c)} /\ UNCHANGED <<bundles, fifos>>
    BY <1>1, <2>1 DEF Clean, RootfsEntry
  <2> QED
    BY <1>2, <1>5, <2>1, <2>2
<1> QED
  BY <1>2, <1>4, <1>5

\* What it does for an exec.
LEMMA CleanExec ==
    ASSUME Inv, Types, NEW c \in Calls, Key(c) \in Keys, ~IsInit(Key(c)), CleanLast(c)
    PROVE  /\ UNCHANGED <<mounted, bundles>>
           /\ \E f \in Calls : IsExec(f) /\ Key(f) = Key(c) /\ fifos' = fifos \ {f}
<1> DEFINE s == cleanups[Key(c)]
<1>1. s # << >> /\ Clean(Last(s), Task(c)) /\ s \in Seq(Entries)
  BY DEF CleanLast, Types
<1>2. Len(s) \in 1..Len(s) /\ Last(s) = s[Len(s)]
  BY <1>1 DEF Last
<1>3. PICK f \in Calls : IsExec(f) /\ Key(f) = Key(c) /\ s[Len(s)] = FifosEntry(f)
  BY <1>2 DEF Inv, CleanupInv, FifosAt
<1>4. Last(s).what = "fifos" /\ Last(s).by = f
  BY <1>2, <1>3 DEF FifosEntry
<1> HIDE DEF s
<1>5. fifos' = fifos \ {f} /\ UNCHANGED mountVars
  BY <1>1, <1>4 DEF Clean
<1> QED
  BY <1>3, <1>5 DEF mountVars

\* A task without a drive has no cleanups.
LEMMA NoCleanups ==
    ASSUME Inv, Types, NEW k \in Keys, IsInit(k), TaskOf(k) \notin drives
    PROVE  cleanups[k] = << >>
<1>1. SUFFICES ASSUME NEW c \in Calls, Current(c), Key(c) = k
               PROVE  FALSE
  BY WhoCleans
<1>2. CurrentDrive(c)
  BY DEF Inv, TaskInv
<1> QED
  BY <1>1, <1>2 DEF CurrentDrive, Task

\* Who changes the cleanups of a process.
LEMMA CleanupsChange ==
    ASSUME Inv, Types, [Next]_vars, NEW j \in Keys
    PROVE  (cleanups'[j] # cleanups[j] =>
               \E f \in Calls : /\ Key(f) = j /\ req[f] # Idle
                                 /\ \/ AcceptCreate(f) \/ StatRootfs(f)
                                    \/ AcceptExec(f) \/ CleanLast(f))
<1> USE DEF Types, AddCleanup, Goto, GotoA, Key, Task, agentVars, hostVars,
       mountVars, cleanVars, runcVars
<1>1. ASSUME NEW c \in Calls, NEW method \in Methods, NEW k \in Keys,
             NEW io \in IOs(method), Call(c, method, k, io)
      PROVE  (cleanups'[j] # cleanups[j] =>
               \E f \in Calls : /\ Key(f) = j /\ req[f] # Idle
                                 /\ \/ AcceptCreate(f) \/ StatRootfs(f)
                                    \/ AcceptExec(f) \/ CleanLast(f))
  <2>1. PICK to : CallTo(c, method, k, io, to)
    BY <1>1, CallFacts
  <2> QED
    BY <2>1 DEF CallTo
<1>2. ASSUME NEW c \in Calls, req[c] # Idle, HostStep(c)
      PROVE  (cleanups'[j] # cleanups[j] =>
               \E f \in Calls : /\ Key(f) = j /\ req[f] # Idle
                                 /\ \/ AcceptCreate(f) \/ StatRootfs(f)
                                    \/ AcceptExec(f) \/ CleanLast(f))
  <2>0. Key(c) \in Keys
    BY <1>2 DEF Types, Key
  <2>1. CASE CreateLink(c) \/ GenerateExtraData(c) \/ CreateReturns(c)
           \/ DeleteReturns(c) \/ HostAwaitIO(c)
    BY <1>2, <2>0, <2>1 DEF CreateLink, GenerateExtraData, CreateReturns,
       DeleteReturns, HostAwaitIO
  <2>2. CASE Reserve(c) \/ Release(c) \/ Register(c)
    BY <1>2, <2>0, <2>2 DEF Reserve, Release, Register
  <2>3. CASE HostUndo(c) \/ HostTakeProc(c) \/ SendDelete(c) \/ Unlink(c)
    BY <1>2, <2>0, <2>3 DEF HostUndo, HostTakeProc, SendDelete, Unlink
  <2> QED
    BY <1>2, <2>1, <2>2, <2>3 DEF HostStep
<1>3. ASSUME NEW c \in Calls, req[c] # Idle, AgentStep(c), UNCHANGED hostVars
      PROVE  (cleanups'[j] # cleanups[j] =>
               \E f \in Calls : /\ Key(f) = j /\ req[f] # Idle
                                 /\ \/ AcceptCreate(f) \/ StatRootfs(f)
                                    \/ AcceptExec(f) \/ CleanLast(f))
  <2>0. Key(c) \in Keys
    BY <1>3 DEF Types, Key
  <2>1. CASE AcceptCreate(c) \/ StatRootfs(c) \/ AcceptExec(c)
    BY <1>3, <2>0, <2>1 DEF AcceptCreate, StatRootfs, AcceptExec
  <2>2. CASE WriteConfig(c) \/ AwaitIO(c) \/ StartCleanup(c) \/ EndCleanup(c)
           \/ NewProc(c) \/ Undo(c) \/ TakeProc(c)
    BY <1>3, <2>0, <2>2 DEF WriteConfig, AwaitIO, StartCleanup, EndCleanup,
       NewProc, Undo, TakeProc
  <2>3. CASE RuncCreate(c) \/ RuncDelete(c)
    BY <1>3, <2>0, <2>3 DEF RuncCreate, RuncDelete
  <2>4. CASE CleanLast(c)  BY <1>3, <2>0, <2>4 DEF CleanLast
  <2> QED
    BY <1>3, <2>1, <2>2, <2>3, <2>4
       DEF AgentStep, CreateStep, DeleteStep, CleanupStep
<1>4. CASE Forward
  BY <1>4 DEF Forward, ServeStep, ServeStart, ServePause, ServeResume,
     ServeKill, SetStatus
<1>5. CASE UNCHANGED vars
  BY <1>5 DEF vars
<1> QED
  BY <1>1, <1>2, <1>3, <1>4, <1>5 DEF Next

\* The cleanups stay those of their Create.
LEMMA CleanedByKept ==
    ASSUME Inv, Types, [Next]_vars, NEW j \in Keys, NEW d \in Calls,
           IsInit(j), cleanups'[j] = cleanups[j]
    PROVE  (CleanedBy(j, d) /\ TaskOf(j) \in drives => CleanedBy(j, d)')
<1>0. ControlAt(d)
  BY DEF Inv, ControlInv
<1> USE DEF Types, CleanedBy, ControlAt, Methods, IsCreate, IsExec, IsDelete,
       Over, CreateActive, ExecActive, Deleting, Goto, GotoA, Key, Task,
       agentVars, hostVars, mountVars, cleanVars, runcVars
<1>1. ASSUME NEW c \in Calls, NEW method \in Methods, NEW k \in Keys,
             NEW io \in IOs(method), Call(c, method, k, io)
      PROVE  (CleanedBy(j, d) /\ TaskOf(j) \in drives => CleanedBy(j, d)')
  <2>0. ControlAt(c)
    BY DEF Inv, ControlInv
  <2>1. PICK to : CallTo(c, method, k, io, to)
    BY <1>1, CallFacts
  <2> QED
    BY <1>0, <2>0, <2>1 DEF CallTo
<1>2. ASSUME NEW c \in Calls, req[c] # Idle, HostStep(c)
      PROVE  (CleanedBy(j, d) /\ TaskOf(j) \in drives => CleanedBy(j, d)')
  <2>0. /\ ControlAt(c) /\ Key(c) \in Keys
    BY <1>2 DEF Inv, ControlInv
  <2>1. CASE CreateLink(c) \/ GenerateExtraData(c) \/ CreateReturns(c)
           \/ DeleteReturns(c) \/ HostAwaitIO(c)
    BY <1>0, <1>2, <2>0, <2>1 DEF CreateLink, GenerateExtraData,
       CreateReturns, DeleteReturns, HostAwaitIO
  <2>2. CASE Reserve(c) \/ Release(c) \/ Register(c)
    BY <1>0, <1>2, <2>0, <2>2 DEF Reserve, Release, Register
  <2>3. CASE HostUndo(c) \/ HostTakeProc(c) \/ SendDelete(c) \/ Unlink(c)
    BY <1>0, <1>2, <2>0, <2>3 DEF HostUndo, HostTakeProc, SendDelete, Unlink
  <2> QED
    BY <1>2, <2>1, <2>2, <2>3 DEF HostStep
<1>3. ASSUME NEW c \in Calls, req[c] # Idle, AgentStep(c), UNCHANGED hostVars
      PROVE  (CleanedBy(j, d) /\ TaskOf(j) \in drives => CleanedBy(j, d)')
  <2>0. /\ ControlAt(c) /\ Key(c) \in Keys
    BY <1>3 DEF Inv, ControlInv
  <2>1. CASE AcceptCreate(c) \/ AcceptExec(c)
    BY <1>0, <1>3, <2>0, <2>1 DEF AcceptCreate, AcceptExec
  <2>2. CASE StatRootfs(c)
    <3>1. CASE UNCHANGED cleanups /\ Task(c) \notin mounted
      BY <1>0, <2>0, <1>3, <2>2, <3>1 DEF StatRootfs
    <3>2. CASE AddCleanup(c, "rootfs")
      <4>1. Len(cleanups'[Key(c)]) # Len(cleanups[Key(c)])
        BY <2>0, <3>2 DEF AddCleanup
      <4>2. Key(c) # j
        BY <4>1
      <4> QED
        BY <1>0, <2>0, <1>3, <2>2, <4>2 DEF StatRootfs
    <3> QED
      BY <2>2, <3>1, <3>2 DEF StatRootfs
  <2>3. CASE WriteConfig(c) \/ AwaitIO(c) \/ StartCleanup(c) \/ EndCleanup(c)
           \/ NewProc(c) \/ Undo(c) \/ TakeProc(c)
    BY <1>0, <1>3, <2>0, <2>3 DEF WriteConfig, AwaitIO, StartCleanup,
       EndCleanup, NewProc, Undo, TakeProc
  <2>4. CASE RuncCreate(c) \/ RuncDelete(c)
    BY <1>0, <1>3, <2>0, <2>4 DEF RuncCreate, RuncDelete
  <2>5. CASE CleanLast(c)
    <3>1. mounted' \subseteq mounted
      BY <2>0, <2>5, CleanInit, CleanExec
    <3> QED
      BY <1>0, <1>3, <2>5, <3>1 DEF CleanLast
  <2> QED
    BY <1>3, <2>1, <2>2, <2>3, <2>4, <2>5
       DEF AgentStep, CreateStep, DeleteStep, CleanupStep
<1>4. CASE Forward
  BY <1>0, <1>4 DEF Forward, ServeStep, ServeStart, ServePause, ServeResume,
     ServeKill, SetStatus
<1>5. CASE UNCHANGED vars
  BY <1>0, <1>5 DEF vars
<1> QED
  BY <1>1, <1>2, <1>3, <1>4, <1>5 DEF Next

\* Every step keeps the cleanups of a task.
LEMMA CleanupsStep ==
    ASSUME Inv, Types, [Next]_vars, NEW j \in Keys
    PROVE  CleanupAt(j)'
<1>1. ASSUME IsInit(j)
      PROVE  cleanups'[j] = << >> \/ \E c \in Calls : CleanedBy(j, c)'
  <2>1. CASE cleanups'[j] = cleanups[j]
    <3>1. CASE cleanups[j] = << >>
      BY <2>1, <3>1
    <3>2. CASE cleanups[j] # << >>
      <4>1. PICK c \in Calls : CleanedBy(j, c)
        BY <1>1, <3>2 DEF Inv, CleanupInv, CleanupAt
      <4>2. TaskOf(j) \in drives
        BY <1>1, <3>2, NoCleanups
      <4> QED
        BY <1>1, <2>1, <4>1, <4>2, CleanedByKept
    <3> QED
      BY <3>1, <3>2
  <2>2. CASE cleanups'[j] # cleanups[j]
    <3>1. PICK c \in Calls :
             /\ Key(c) = j /\ req[c] # Idle
             /\ AcceptCreate(c) \/ StatRootfs(c) \/ AcceptExec(c) \/ CleanLast(c)
      BY <2>2, CleanupsChange
    <3>2. /\ ControlAt(c) /\ StageAt(c) /\ Key(c) \in Keys
          /\ BundleEntry(c) \in Entries /\ RootfsEntry(c) \in Entries
      BY <3>1, EntryTypes DEF Inv, ControlInv, OwnInv
    <3>3. CASE AcceptCreate(c)
      <4>1. /\ cleanups'[j] = Append(cleanups[j], BundleEntry(c))
            /\ apc[c] = "sent" /\ apc'[c] = "stat"
        BY <2>2, <3>1, <3>3 DEF AcceptCreate, AddCleanup, GotoA, BundleEntry, Types
      <4>2. IsCreate(c) /\ cleanups[j] = << >>
        BY <3>1, <3>2, <3>3, <4>1 DEF AcceptCreate, IsCreate, StageAt, Fresh
      <4>3. cleanups'[j] = <<BundleEntry(c)>>
        BY <3>2, <4>1, <4>2, PairFacts
      <4> QED
        BY <3>1, <3>3, <4>1, <4>2, <4>3 DEF CleanedBy, AcceptCreate, IsCreate, Key, BundleEntry
    <3>4. CASE StatRootfs(c)
      <4>1. /\ cleanups'[j] = Append(cleanups[j], RootfsEntry(c)) /\ apc[c] = "stat"
            /\ req' = req
        BY <2>2, <3>1, <3>4 DEF StatRootfs, AddCleanup, GotoA, RootfsEntry, Types
      <4>2. req[c].method \in Methods
        BY <3>1 DEF Types
      <4>3. IsCreate(c)
        BY <3>2, <4>1, <4>2 DEF ControlAt, IsCreate, IsExec, IsDelete, ExecActive, Deleting, Methods
      <4>4. cleanups[j] = <<BundleEntry(c)>>
        BY <3>1, <3>2, <4>1, <4>3 DEF StageAt, Half
      <4>5. cleanups'[j] = <<BundleEntry(c), RootfsEntry(c)>>
        BY <3>2, <4>1, <4>4, PairFacts
      <4> QED
        BY <3>1, <4>1, <4>3, <4>5 DEF CleanedBy, IsCreate, Key, BundleEntry, RootfsEntry
    <3>5. CASE AcceptExec(c)
      BY <1>1, <3>1, <3>2, <3>5 DEF AcceptExec, ControlAt, IsExec
    <3>6. CASE CleanLast(c)
      <4>1. PICK f \in Calls :
               /\ Current(f) /\ Key(f) = j
               /\ \/ cleanups'[j] = << >>
                  \/ cleanups'[j] = <<BundleEntry(f)>> /\ mounted' = mounted \ {TaskOf(j)}
        BY <1>1, <3>1, <3>2, <3>6, CleanInit DEF Task
      <4>2. req' = req
        BY <3>6 DEF CleanLast
      <4> QED
        BY <4>1, <4>2 DEF CleanedBy, Current, IsCreate, Key, BundleEntry
    <3> QED
      BY <3>1, <3>3, <3>4, <3>5, <3>6
  <2> QED
    BY <2>1, <2>2
<1>2. CleanupAt(j)' <=> (IsInit(j) => cleanups'[j] = << >> \/ \E c \in Calls : CleanedBy(j, c)')
  BY DEF CleanupAt
<1> QED
  BY <1>1, <1>2

\* Every step keeps the cleanups of an exec.
LEMMA FifosStep ==
    ASSUME Inv, Types, [Next]_vars, NEW j \in Keys
    PROVE  FifosAt(j)'
<1> SUFFICES ASSUME ~IsInit(j), NEW n \in 1..Len(cleanups'[j])
             PROVE  \E f \in Calls : /\ IsExec(f)' /\ Key(f)' = j
                                     /\ cleanups'[j][n] = FifosEntry(f)
  BY DEF FifosAt, FifosEntry
<1>0. cleanups[j] \in Seq(Entries)
  BY DEF Types
<1>1. ASSUME NEW f \in Calls, IsExec(f), Key(f) = j
      PROVE  IsExec(f)' /\ Key(f)' = j
  BY <1>1, RequestsKept DEF IsExec, Key
<1>2. ASSUME n \in 1..Len(cleanups[j]), cleanups'[j][n] = cleanups[j][n]
      PROVE  \E f \in Calls : /\ IsExec(f)' /\ Key(f)' = j
                              /\ cleanups'[j][n] = FifosEntry(f)
  BY <1>1, <1>2 DEF Inv, CleanupInv, FifosAt
<1>3. CASE cleanups'[j] = cleanups[j]
  BY <1>2, <1>3
<1>4. CASE cleanups'[j] # cleanups[j]
  <2>1. PICK c \in Calls :
           /\ Key(c) = j /\ req[c] # Idle
           /\ AcceptCreate(c) \/ StatRootfs(c) \/ AcceptExec(c) \/ CleanLast(c)
    BY <1>4, CleanupsChange
  <2>2. ControlAt(c) /\ req[c].method \in Methods
    BY <2>1 DEF Inv, ControlInv, Types
  <2>3. CASE AcceptCreate(c) \/ StatRootfs(c)
    BY <2>1, <2>2, <2>3 DEF AcceptCreate, StatRootfs, ControlAt, IsCreate, IsExec, IsDelete,
       GotoA, ExecActive, Deleting, Methods
  <2>4. CASE AcceptExec(c)
    <3>1. cleanups'[j] = Append(cleanups[j], FifosEntry(c)) /\ req' = req /\ IsExec(c)
      BY <1>4, <2>1, <2>4 DEF AcceptExec, AddCleanup, FifosEntry, IsExec, Types
    <3>2. CASE n \in 1..Len(cleanups[j])
      BY <1>0, <1>2, <3>1, <3>2
    <3>3. CASE n = Len(cleanups[j]) + 1
      BY <1>0, <1>1, <2>1, <3>1, <3>3
    <3> QED
      BY <1>0, <3>1, <3>2, <3>3
  <2>5. CASE CleanLast(c)
    <3>1. cleanups'[j] = Front(cleanups[j]) /\ cleanups[j] # << >>
      BY <2>1, <2>5 DEF CleanLast, Types
    <3>2. n \in 1..Len(cleanups[j]) /\ cleanups'[j][n] = cleanups[j][n]
      BY <1>0, <3>1 DEF Front
    <3> QED
      BY <1>2, <3>2
  <2> QED
    BY <2>1, <2>3, <2>4, <2>5
<1> QED
  BY <1>3, <1>4

\* Every step keeps the mounted images of tasks with a drive.
LEMMA MountedStep ==
    ASSUME Inv, Types, [Next]_vars, NEW t \in Tasks
    PROVE  (t \in mounted => t \in drives)'
<1>0. (t \in mounted => t \in drives)
  BY DEF Inv, CleanupInv
<1> USE DEF Types, Goto, GotoA, Key, Task, agentVars, hostVars, mountVars,
       cleanVars, runcVars
<1>1. ASSUME NEW c \in Calls, NEW method \in Methods, NEW k \in Keys,
             NEW io \in IOs(method), Call(c, method, k, io)
      PROVE  (t \in mounted => t \in drives)'
  <2>1. PICK to : CallTo(c, method, k, io, to)
    BY <1>1, CallFacts
  <2> QED
    BY <1>0, <2>1 DEF CallTo
<1>2. ASSUME NEW c \in Calls, req[c] # Idle, HostStep(c)
      PROVE  (t \in mounted => t \in drives)'
  <2>0. Key(c) \in Keys
    BY <1>2 DEF Types, Key
  <2>1. CASE CreateLink(c) \/ GenerateExtraData(c) \/ CreateReturns(c)
           \/ DeleteReturns(c) \/ HostAwaitIO(c)
    BY <1>0, <1>2, <2>0, <2>1 DEF CreateLink, GenerateExtraData,
       CreateReturns, DeleteReturns, HostAwaitIO
  <2>2. CASE Reserve(c) \/ Release(c) \/ Register(c)
    BY <1>0, <1>2, <2>0, <2>2 DEF Reserve, Release, Register
  <2>3. CASE HostUndo(c) \/ HostTakeProc(c) \/ SendDelete(c) \/ Unlink(c)
    BY <1>0, <1>2, <2>0, <2>3 DEF HostUndo, HostTakeProc, SendDelete, Unlink
  <2> QED
    BY <1>2, <2>1, <2>2, <2>3 DEF HostStep
<1>3. ASSUME NEW c \in Calls, req[c] # Idle, AgentStep(c), UNCHANGED hostVars
      PROVE  (t \in mounted => t \in drives)'
  <2>0. Key(c) \in Keys
    BY <1>3 DEF Types, Key
  <2>1. CASE AcceptCreate(c) \/ StatRootfs(c) \/ AcceptExec(c)
    BY <1>0, <1>3, <2>0, <2>1 DEF AcceptCreate, StatRootfs, AcceptExec
  <2>2. CASE WriteConfig(c) \/ AwaitIO(c) \/ StartCleanup(c) \/ EndCleanup(c)
           \/ NewProc(c) \/ Undo(c) \/ TakeProc(c)
    BY <1>0, <1>3, <2>0, <2>2 DEF WriteConfig, AwaitIO, StartCleanup,
       EndCleanup, NewProc, Undo, TakeProc
  <2>3. CASE RuncCreate(c) \/ RuncDelete(c)
    BY <1>0, <1>3, <2>0, <2>3 DEF RuncCreate, RuncDelete
  <2>4. CASE CleanLast(c)
    <3>1. mounted' \subseteq mounted
      BY <2>0, <2>4, CleanInit, CleanExec
    <3> QED
      BY <1>0, <1>3, <3>1
  <2> QED
    BY <1>3, <2>1, <2>2, <2>3, <2>4
       DEF AgentStep, CreateStep, DeleteStep, CleanupStep
<1>4. CASE Forward
  BY <1>0, <1>4 DEF Forward, ServeStep, ServeStart, ServePause, ServeResume,
     ServeKill, SetStatus
<1>5. CASE UNCHANGED vars
  BY <1>0, <1>5 DEF vars
<1> QED
  BY <1>1, <1>2, <1>3, <1>4, <1>5 DEF Next

\* How a Create gets from one stage to the next.
StageNext(c) ==
    /\ Fresh(c)' => Fresh(c) \/ (Reserve(c) /\ Task(c) \notin drives)
    /\ Half(c)' => Half(c) \/ (AcceptCreate(c) /\ AddCleanup(c, "bundle"))
    /\ Full(c)' => Full(c) \/ (StatRootfs(c) /\ AddCleanup(c, "rootfs"))
    /\ Running(c)' => Running(c) \/ (NewProc(c) /\ apc[c] = "newProc")
    /\ Holding(c)' => Key(c)' = Key(c) /\ Key(c) \in Keys /\ IsInit(Key(c))

\* Every step is such a step.
LEMMA StageKept ==
    ASSUME Inv, Types, [Next]_vars, NEW d \in Calls
    PROVE  StageNext(d)
<1>0. ControlAt(d)
  BY DEF Inv, ControlInv
<1> USE NoCallAssumption DEF Types, StageNext, ControlAt, Holding, Fresh,
       Half, Full, Running, Methods, IsCreate, IsExec, IsDelete, Over,
       CreateActive, ExecActive, Deleting, Goto, GotoA, Key, Task, agentVars,
       hostVars, mountVars, cleanVars, runcVars
<1>1. ASSUME NEW c \in Calls, NEW method \in Methods, NEW k \in Keys,
             NEW io \in IOs(method), Call(c, method, k, io)
      PROVE  StageNext(d)
  <2>0. ControlAt(c)
    BY DEF Inv, ControlInv
  <2>1. PICK to : CallTo(c, method, k, io, to)
    BY <1>1, CallFacts
  <2> QED
    BY <1>0, <2>0, <2>1 DEF CallTo
<1>2. ASSUME NEW c \in Calls, req[c] # Idle, HostStep(c)
      PROVE  StageNext(d)
  <2>0. /\ ControlAt(c) /\ Key(c) \in Keys
    BY <1>2 DEF Inv, ControlInv
  <2>1. CASE CreateLink(c) \/ GenerateExtraData(c) \/ CreateReturns(c)
           \/ DeleteReturns(c) \/ HostAwaitIO(c)
    BY <1>0, <1>2, <2>0, <2>1 DEF CreateLink, GenerateExtraData,
       CreateReturns, DeleteReturns, HostAwaitIO
  <2>2. CASE Reserve(c) \/ Release(c) \/ Register(c)
    BY <1>0, <1>2, <2>0, <2>2 DEF Reserve, Release, Register
  <2>3. CASE HostUndo(c) \/ HostTakeProc(c) \/ SendDelete(c) \/ Unlink(c)
    BY <1>0, <1>2, <2>0, <2>3 DEF HostUndo, HostTakeProc, SendDelete, Unlink
  <2> QED
    BY <1>2, <2>1, <2>2, <2>3 DEF HostStep
<1>3. ASSUME NEW c \in Calls, req[c] # Idle, AgentStep(c), UNCHANGED hostVars
      PROVE  StageNext(d)
  <2>0. /\ ControlAt(c) /\ Key(c) \in Keys
    BY <1>3 DEF Inv, ControlInv
  <2>1. CASE AcceptCreate(c) \/ StatRootfs(c) \/ AcceptExec(c)
    BY <1>0, <1>3, <2>0, <2>1 DEF AcceptCreate, StatRootfs, AcceptExec
  <2>2. CASE WriteConfig(c) \/ AwaitIO(c) \/ StartCleanup(c) \/ EndCleanup(c)
           \/ NewProc(c) \/ Undo(c) \/ TakeProc(c)
    BY <1>0, <1>3, <2>0, <2>2 DEF WriteConfig, AwaitIO, StartCleanup,
       EndCleanup, NewProc, Undo, TakeProc
  <2>3. CASE RuncCreate(c) \/ RuncDelete(c)
    BY <1>0, <1>3, <2>0, <2>3 DEF RuncCreate, RuncDelete
  <2>4. CASE CleanLast(c)  BY <1>0, <1>3, <2>0, <2>4 DEF CleanLast
  <2> QED
    BY <1>3, <2>1, <2>2, <2>3, <2>4
       DEF AgentStep, CreateStep, DeleteStep, CleanupStep
<1>4. CASE Forward
  BY <1>0, <1>4 DEF Forward, ServeStep, ServeStart, ServePause, ServeResume,
     ServeKill, SetStatus
<1>5. CASE UNCHANGED vars
  BY <1>0, <1>5 DEF vars
<1> QED
  BY <1>1, <1>2, <1>3, <1>4, <1>5 DEF Next

\* Who changes the cleanups of a Create that is fresh, half or full.
LEMMA OnlyItself ==
    ASSUME Inv, Types, [Next]_vars, NEW d \in Calls, Holding(d),
           cleanups'[Key(d)] # cleanups[Key(d)]
    PROVE  AcceptCreate(d) \/ StatRootfs(d)
<1>1. ControlAt(d) /\ StageAt(d) /\ Key(d) \in Keys
  BY DEF Inv, ControlInv, OwnInv, Types, Holding, Fresh, Half, Full, Running, IsCreate
<1>2. IsInit(Key(d))
  BY <1>1 DEF ControlAt, Holding, Fresh, Half, Full, Running
<1>3. PICK c \in Calls :
         /\ Key(c) = Key(d) /\ req[c] # Idle
         /\ AcceptCreate(c) \/ StatRootfs(c) \/ AcceptExec(c) \/ CleanLast(c)
  BY <1>1, CleanupsChange
<1>4. /\ ControlAt(c) /\ CleanerAt(c)
      /\ c # d => apc[c] \in {"idle", "served", "failed"} \/ (apc[c] = "sent" /\ IsDelete(c))
  BY <1>3, Alone DEF Inv, ControlInv, AgentInv
<1>5. CASE AcceptCreate(c) \/ StatRootfs(c)
  BY <1>4, <1>5 DEF AcceptCreate, StatRootfs, GotoA, IsDelete
<1>6. CASE AcceptExec(c)
  BY <1>2, <1>3, <1>4, <1>6 DEF AcceptExec, ControlAt, IsExec
<1>7. CASE CleanLast(c)
  <2>1. apc[c] \in {"cleanFail", "cleanDone"}
    BY <1>4, <1>7 DEF CleanLast, CleanerAt
  <2>2. c = d
    BY <1>4, <2>1
  <2> QED
    BY <1>1, <2>1, <2>2 DEF Holding, Fresh, Half, Full, Running, ControlAt
<1> QED
  BY <1>3, <1>5, <1>6, <1>7

\* Every step keeps the cleanups of a Create that needs them.
LEMMA StageStep ==
    ASSUME Inv, Types, [Next]_vars, NEW d \in Calls
    PROVE  StageAt(d)'
<1>0. /\ StageAt(d) /\ StageNext(d) /\ ControlAt(d)
      /\ BundleEntry(d) \in Entries /\ RootfsEntry(d) \in Entries
  BY StageKept, EntryTypes DEF Inv, OwnInv, ControlInv
<1>1. ASSUME Fresh(d)'
      PROVE  cleanups'[Key(d)'] = << >>
  <2>1. CASE Fresh(d)
    <3>1. apc'[d] # "stat" /\ apc'[d] # "config" /\ apc[d] # "stat"
      BY <1>0, <1>1, <2>1, ControlStep DEF Fresh, IsCreate, ControlAt
    <3>2. cleanups'[Key(d)] # cleanups[Key(d)] => AddCleanup(d, "bundle") /\ apc'[d] = "stat"
      BY <2>1, <3>1, OnlyItself DEF Holding, AcceptCreate, StatRootfs, GotoA, Types
    <3> QED
      BY <1>0, <1>1, <2>1, <3>1, <3>2 DEF StageNext, StageAt, Holding
  <2>2. CASE Reserve(d) /\ Task(d) \notin drives
    BY <1>0, <1>1, <2>2, NoCleanups DEF StageNext, Holding, Reserve, cleanVars, Task
  <2> QED
    BY <1>0, <1>1, <2>1, <2>2 DEF StageNext
<1>2. ASSUME Half(d)'
      PROVE  cleanups'[Key(d)'] = <<BundleEntry(d)>>
  <2>1. CASE Half(d)
    <3>1. apc'[d] # "config" /\ apc[d] = "stat" /\ apc'[d] = "stat"
      BY <1>2, <2>1 DEF Half
    <3>2. cleanups'[Key(d)] # cleanups[Key(d)] => apc'[d] \in {"config", "fail"}
      BY <2>1, <3>1, OnlyItself DEF Holding, AcceptCreate, StatRootfs, GotoA, Types
    <3> QED
      BY <1>0, <1>2, <2>1, <3>1, <3>2 DEF StageNext, StageAt, Holding
  <2>2. CASE AcceptCreate(d) /\ AddCleanup(d, "bundle")
    <3>1. Fresh(d) /\ Key(d)' = Key(d) /\ Key(d) \in Keys
      BY <1>0, <1>2, <2>2 DEF StageNext, Holding, Fresh, AcceptCreate, GotoA, IsCreate
    <3>2. cleanups'[Key(d)] = Append(cleanups[Key(d)], BundleEntry(d))
      BY <2>2, <3>1 DEF AddCleanup, BundleEntry, Types
    <3> QED
      BY <1>0, <3>1, <3>2, PairFacts DEF StageAt
  <2> QED
    BY <1>0, <1>2, <2>1, <2>2 DEF StageNext
<1>3. ASSUME Full(d)'
      PROVE  cleanups'[Key(d)'] = <<BundleEntry(d), RootfsEntry(d)>>
  <2>1. CASE Full(d)
    <3>1. apc[d] # "sent" /\ apc[d] # "stat"
      BY <2>1 DEF Full, Running
    <3>2. cleanups'[Key(d)] = cleanups[Key(d)]
      BY <2>1, <3>1, OnlyItself DEF Holding, AcceptCreate, StatRootfs, GotoA
    <3> QED
      BY <1>0, <1>3, <2>1, <3>2 DEF StageNext, StageAt, Holding
  <2>2. CASE StatRootfs(d) /\ AddCleanup(d, "rootfs")
    <3>1. Half(d) /\ Key(d)' = Key(d) /\ Key(d) \in Keys
      BY <1>0, <1>3, <2>2 DEF StageNext, Holding, Full, Running, Half, StatRootfs, GotoA, IsCreate
    <3>2. cleanups'[Key(d)] = Append(cleanups[Key(d)], RootfsEntry(d))
      BY <2>2, <3>1 DEF AddCleanup, RootfsEntry, Types
    <3> QED
      BY <1>0, <3>1, <3>2, PairFacts DEF StageAt
  <2> QED
    BY <1>0, <1>3, <2>1, <2>2 DEF StageNext
<1> QED
  BY <1>1, <1>2, <1>3 DEF StageAt, BundleEntry, RootfsEntry

\* Nobody takes from a Create that needs it its image, its bundle or its cleanups.
LEMMA Undisturbed ==
    ASSUME Inv, Types, NEW c \in Calls, NEW d \in Calls, Key(c) \in Keys, IsInit(Key(c)),
           Holding(d), TaskOf(Key(c)) = TaskOf(Key(d))
    PROVE  hpc[c] # "release" /\ cleaner # c
<1>1. ControlAt(d) /\ CleanerAt(c) /\ Key(d) \in Keys
  BY DEF Inv, ControlInv, AgentInv, Types, Holding, Fresh, Half, Full, Running, IsCreate
<1>2. IsInit(Key(d))
  BY <1>1 DEF ControlAt, Holding, Fresh, Half, Full, Running
<1>3. Key(c) = Key(d)
  BY <1>1, <1>2, SameInit
<1>4. CASE c = d
  BY <1>1, <1>4 DEF ControlAt, CleanerAt, Holding, Fresh, Half, Full, Running
<1>5. CASE c # d
  BY <1>1, <1>3, <1>5, Alone DEF CleanerAt
<1> QED
  BY <1>4, <1>5

\* A Create that needs its task stays about it.
LEMMA HoldingKeeps ==
    ASSUME Inv, Types, [Next]_vars, NEW d \in Calls, Holding(d)
    PROVE  /\ Key(d) \in Keys /\ IsInit(Key(d)) /\ IsCreate(d)
           /\ req'[d] = req[d] /\ Key(d)' = Key(d) /\ Task(d)' = Task(d)
<1>1. ControlAt(d) /\ IsCreate(d)
  BY DEF Inv, ControlInv, Holding, Fresh, Half, Full, Running
<1>2. req'[d] = req[d] /\ Key(d) \in Keys /\ IsInit(Key(d))
  BY <1>1, RequestsKept DEF IsCreate, Types, ControlAt
<1> QED
  BY <1>1, <1>2 DEF Key, Task

\* A Release is about the first process of a task.
LEMMA ReleaseInit ==
    ASSUME Inv, Types, NEW c \in Calls, hpc[c] = "release"
    PROVE  IsInit(Key(c))
BY ReleaseDeletes DEF Deletes

\* The image and the bundle of a Create that needs them stay.
LEMMA PlaceKept ==
    ASSUME Inv, Types, [Next]_vars, NEW d \in Calls, Holding(d)
    PROVE  (Task(d) \in mounted /\ Task(d) \in bundles =>
               Task(d) \in mounted' /\ Task(d) \in bundles')
<1>0. Key(d) \in Keys
  BY DEF Inv, Types, Key, Task, Holding, Fresh, Half, Full, Running, IsCreate
<1> USE DEF Types, Goto, GotoA, Key, Task, agentVars, hostVars, mountVars,
       cleanVars, runcVars
<1>1. ASSUME NEW c \in Calls, NEW method \in Methods, NEW k \in Keys,
             NEW io \in IOs(method), Call(c, method, k, io)
      PROVE  (Task(d) \in mounted /\ Task(d) \in bundles =>
               Task(d) \in mounted' /\ Task(d) \in bundles')
  <2>1. PICK to : CallTo(c, method, k, io, to)
    BY <1>1, CallFacts
  <2> QED
    BY <1>0, <2>1 DEF CallTo
<1>2. ASSUME NEW c \in Calls, req[c] # Idle, HostStep(c)
      PROVE  (Task(d) \in mounted /\ Task(d) \in bundles =>
               Task(d) \in mounted' /\ Task(d) \in bundles')
  <2>0. /\ (IsInit(Key(c)) /\ Task(c) = Task(d) => hpc[c] # "release" /\ cleaner # c)
        /\ (hpc[c] = "release" => IsInit(Key(c))) /\ Key(c) \in Keys
    BY <1>2, Undisturbed, ReleaseInit DEF Inv, Types, Key, Task, Holding,
           Fresh, Half, Full, Running, IsCreate
  <2>1. CASE CreateLink(c) \/ GenerateExtraData(c) \/ CreateReturns(c)
           \/ DeleteReturns(c) \/ HostAwaitIO(c)
    BY <1>0, <1>2, <2>0, <2>1 DEF CreateLink, GenerateExtraData,
       CreateReturns, DeleteReturns, HostAwaitIO
  <2>2. CASE Reserve(c) \/ Release(c) \/ Register(c)
    BY <1>0, <1>2, <2>0, <2>2 DEF Reserve, Release, Register
  <2>3. CASE HostUndo(c) \/ HostTakeProc(c) \/ SendDelete(c) \/ Unlink(c)
    BY <1>0, <1>2, <2>0, <2>3 DEF HostUndo, HostTakeProc, SendDelete, Unlink
  <2> QED
    BY <1>2, <2>1, <2>2, <2>3 DEF HostStep
<1>3. ASSUME NEW c \in Calls, req[c] # Idle, AgentStep(c), UNCHANGED hostVars
      PROVE  (Task(d) \in mounted /\ Task(d) \in bundles =>
               Task(d) \in mounted' /\ Task(d) \in bundles')
  <2>0. /\ (IsInit(Key(c)) /\ Task(c) = Task(d) => hpc[c] # "release" /\ cleaner # c)
        /\ (hpc[c] = "release" => IsInit(Key(c))) /\ Key(c) \in Keys
    BY <1>3, Undisturbed, ReleaseInit DEF Inv, Types, Key, Task, Holding,
           Fresh, Half, Full, Running, IsCreate
  <2>1. CASE AcceptCreate(c) \/ StatRootfs(c) \/ AcceptExec(c)
    BY <1>0, <1>3, <2>0, <2>1 DEF AcceptCreate, StatRootfs, AcceptExec
  <2>2. CASE WriteConfig(c) \/ AwaitIO(c) \/ StartCleanup(c) \/ EndCleanup(c)
           \/ NewProc(c) \/ Undo(c) \/ TakeProc(c)
    BY <1>0, <1>3, <2>0, <2>2 DEF WriteConfig, AwaitIO, StartCleanup,
       EndCleanup, NewProc, Undo, TakeProc
  <2>3. CASE RuncCreate(c) \/ RuncDelete(c)
    BY <1>0, <1>3, <2>0, <2>3 DEF RuncCreate, RuncDelete
  <2>4. CASE CleanLast(c)
    <3>1. CASE IsInit(Key(c))
      <4>1. Task(c) # Task(d)
        BY <1>0, <2>0, <2>4, <3>1 DEF CleanLast
      <4>2. mounted \ {Task(c)} \subseteq mounted' /\ bundles \ {Task(c)} \subseteq bundles'
        BY <2>0, <2>4, <3>1, CleanInit
      <4> QED
        BY <4>1, <4>2
    <3>2. CASE ~IsInit(Key(c))
      BY <2>0, <2>4, <3>2, CleanExec
    <3> QED
      BY <3>1, <3>2
  <2> QED
    BY <1>3, <2>1, <2>2, <2>3, <2>4
       DEF AgentStep, CreateStep, DeleteStep, CleanupStep
<1>4. CASE Forward
  BY <1>0, <1>4 DEF Forward, ServeStep, ServeStart, ServePause, ServeResume,
     ServeKill, SetStatus
<1>5. CASE UNCHANGED vars
  BY <1>0, <1>5 DEF vars
<1> QED
  BY <1>1, <1>2, <1>3, <1>4, <1>5 DEF Next

\* Every step keeps the image and the bundle of a Create that needs them.
LEMMA PlaceStep ==
    ASSUME Inv, Types, [Next]_vars, NEW d \in Calls
    PROVE  PlaceAt(d)'
<1> SUFFICES ASSUME Holding(d)'
             PROVE  Task(d)' \in mounted' /\ Task(d)' \in bundles'
  BY DEF PlaceAt
<1>1. PlaceAt(d) /\ StageNext(d)
  BY StageKept DEF Inv, OwnInv
<1>2. CASE Holding(d)
  BY <1>1, <1>2, HoldingKeeps, PlaceKept DEF PlaceAt
<1>3. CASE Reserve(d) /\ Task(d) \notin drives /\ Fresh(d)'
  <2>1. Task(d)' = Task(d) /\ hpc[d] = "reserve"
    BY <1>3 DEF Reserve, Task, Key, Goto
  <2>2. ControlAt(d) /\ apc'[d] = apc[d]
    BY <1>3 DEF Reserve, Inv, ControlInv
  <2>3. hpc'[d] # "failed"
    BY <1>3, <2>1, <2>2 DEF Fresh, ControlAt
  <2> QED
    BY <1>3, <2>1, <2>3 DEF Reserve, Goto, Types
<1>4. CASE AcceptCreate(d) \/ StatRootfs(d)
  <2>1. IsCreate(d)
    BY <1>4 DEF Holding, Fresh, Half, Full, Running, AcceptCreate, StatRootfs, IsCreate
  <2>2. Holding(d)
    BY <1>4, <2>1 DEF Holding, Fresh, Half, AcceptCreate, StatRootfs, GotoA
  <2> QED
    BY <1>2, <2>2
<1> QED
  BY <1>1, <1>2, <1>3, <1>4 DEF StageNext, Holding, Running, Full, NewProc, GotoA

\* The process and the FIFOs of a Create that runs stay.
LEMMA ProcessKept ==
    ASSUME Inv, Types, [Next]_vars, NEW d \in Calls, Running(d), Running(d)'
    PROVE  ProcessAt(d)'
<1>0. /\ ProcessAt(d) /\ ControlAt(d) /\ Key(d) \in Keys
  BY DEF Inv, OwnInv, ControlInv, Types, Key, Task, Holding, Fresh, Half,
         Full, Running, IsCreate
<1> USE NoCallAssumption DEF Types, ProcessAt, HasStreams, ControlAt,
       CleanerAt, Running, Methods, IsCreate, IsExec, IsDelete, Over,
       CreateActive, ExecActive, Deleting, Goto, GotoA, Key, Task, agentVars,
       hostVars, mountVars, cleanVars, runcVars
<1>1. ASSUME NEW c \in Calls, NEW method \in Methods, NEW k \in Keys,
             NEW io \in IOs(method), Call(c, method, k, io)
      PROVE  ProcessAt(d)'
  <2>1. PICK to : CallTo(c, method, k, io, to)
    BY <1>1, CallFacts
  <2> QED
    BY <1>0, <2>1 DEF CallTo
<1>2. ASSUME NEW c \in Calls, req[c] # Idle, HostStep(c)
      PROVE  ProcessAt(d)'
  <2>0. /\ ControlAt(c)
        /\ (Key(c) = Key(d) /\ c # d =>
            apc[c] \in {"idle", "served", "failed"} \/ (apc[c] = "sent" /\ IsDelete(c)))
        /\ (IsInit(Key(c)) /\ Task(c) = Task(d) => cleaner # c)
        /\ Key(c) \in Keys
    BY <1>2, Alone, Undisturbed DEF Inv, OwnInv, ControlInv, Types, Key, Task,
           Holding, Fresh, Half, Full, Running, IsCreate
  <2>1. CASE CreateLink(c) \/ GenerateExtraData(c) \/ CreateReturns(c)
           \/ DeleteReturns(c) \/ HostAwaitIO(c)
    BY <1>0, <1>2, <2>0, <2>1 DEF CreateLink, GenerateExtraData,
       CreateReturns, DeleteReturns, HostAwaitIO
  <2>2. CASE Reserve(c) \/ Release(c) \/ Register(c)
    BY <1>0, <1>2, <2>0, <2>2 DEF Reserve, Release, Register
  <2>3. CASE HostUndo(c) \/ HostTakeProc(c) \/ SendDelete(c) \/ Unlink(c)
    BY <1>0, <1>2, <2>0, <2>3 DEF HostUndo, HostTakeProc, SendDelete, Unlink
  <2> QED
    BY <1>2, <2>1, <2>2, <2>3 DEF HostStep
<1>3. ASSUME NEW c \in Calls, req[c] # Idle, AgentStep(c), UNCHANGED hostVars
      PROVE  ProcessAt(d)'
  <2>0. /\ ControlAt(c)
        /\ (Key(c) = Key(d) /\ c # d =>
            apc[c] \in {"idle", "served", "failed"} \/ (apc[c] = "sent" /\ IsDelete(c)))
        /\ (IsInit(Key(c)) /\ Task(c) = Task(d) => cleaner # c)
        /\ Key(c) \in Keys
    BY <1>3, Alone, Undisturbed DEF Inv, OwnInv, ControlInv, Types, Key, Task,
           Holding, Fresh, Half, Full, Running, IsCreate
  <2>1. CASE AcceptCreate(c) \/ StatRootfs(c) \/ AcceptExec(c)
    BY <1>0, <1>3, <2>0, <2>1 DEF AcceptCreate, StatRootfs, AcceptExec
  <2>2. CASE WriteConfig(c) \/ AwaitIO(c) \/ StartCleanup(c) \/ EndCleanup(c)
           \/ NewProc(c) \/ Undo(c) \/ TakeProc(c)
    BY <1>0, <1>3, <2>0, <2>2 DEF WriteConfig, AwaitIO, StartCleanup,
       EndCleanup, NewProc, Undo, TakeProc
  <2>3. CASE RuncCreate(c) \/ RuncDelete(c)
    BY <1>0, <1>3, <2>0, <2>3 DEF RuncCreate, RuncDelete
  <2>4. CASE CleanLast(c)
    <3>1. CASE IsInit(Key(c))
      <4>1. Task(c) # Task(d)
        BY <1>0, <2>0, <2>4, <3>1 DEF CleanLast
      <4>2. d \in fifos => d \in fifos'
        BY <2>0, <2>4, <3>1, <4>1, CleanInit
      <4> QED
        BY <1>0, <4>2, <2>4 DEF CleanLast
    <3>2. CASE ~IsInit(Key(c))
      <4>1. d \in fifos => d \in fifos'
        BY <2>0, <2>4, <3>2, CleanExec
      <4> QED
        BY <1>0, <4>1, <2>4 DEF CleanLast
    <3> QED
      BY <3>1, <3>2
  <2> QED
    BY <1>3, <2>1, <2>2, <2>3, <2>4
       DEF AgentStep, CreateStep, DeleteStep, CleanupStep
<1>4. CASE Forward
  BY <1>0, <1>4 DEF Forward, ServeStep, ServeStart, ServePause, ServeResume,
     ServeKill, SetStatus
<1>5. CASE UNCHANGED vars
  BY <1>0, <1>5 DEF vars
<1> QED
  BY <1>1, <1>2, <1>3, <1>4, <1>5 DEF Next

\* Every step keeps the process and the FIFOs of a Create that runs.
LEMMA ProcessStep ==
    ASSUME Inv, Types, [Next]_vars, NEW d \in Calls
    PROVE  ProcessAt(d)'
<1> SUFFICES ASSUME Running(d)'
             PROVE  ProcessAt(d)'
  BY DEF ProcessAt
<1>1. StageNext(d)
  BY StageKept
<1>2. CASE Running(d)
  BY <1>2, ProcessKept
<1>3. CASE NewProc(d) /\ apc[d] = "newProc"
  <2>1. /\ req'[d] = req[d] /\ Key(d)' = Key(d) /\ Key(d) \in Keys
    BY <1>1, <1>3 DEF NewProc, Key, StageNext, Holding, Full
  <2>2. apc'[d] # "fail" /\ apc'[d] # "newProc"
    BY DEF Running
  <2> QED
    BY <1>3, <2>1, <2>2 DEF NewProc, GotoA, ProcessAt, HasStreams, Types
<1> QED
  BY <1>1, <1>2, <1>3 DEF StageNext

-----------------------------------------------------------------------------
(* The links.                                                              *)

\* A link is removed by the Delete of its task.
LEMMA UnlinkInit ==
    ASSUME Inv, Types, NEW c \in Calls, hpc[c] \in {"unlink", "unlinkErr"}
    PROVE  IsInit(Key(c)) /\ Key(c) \in Keys /\ known[Key(c)] = NoCall
<1>1. ControlAt(c) /\ RegisteredAt(c) /\ req[c].method \in Methods \cup {"none"}
  BY DEF Inv, ControlInv, Registered, Types
<1> QED
  BY <1>1 DEF ControlAt, RegisteredAt, IsCreate, IsExec, IsDelete, Methods, Types

\* A link is removed by an Unlink only.
LEMMA LinksKept ==
    ASSUME Inv, Types, [Next]_vars, NEW t \in Tasks
    PROVE  (t \in links =>
               t \in links' \/ \E f \in Calls : hpc[f] \in {"unlink", "unlinkErr"} /\ Task(f) = t)
<1> USE DEF Types, Goto, GotoA, Key, Task, agentVars, hostVars, mountVars,
       cleanVars, runcVars
<1>1. ASSUME NEW c \in Calls, NEW method \in Methods, NEW k \in Keys,
             NEW io \in IOs(method), Call(c, method, k, io)
      PROVE  (t \in links =>
               t \in links' \/ \E f \in Calls : hpc[f] \in {"unlink", "unlinkErr"} /\ Task(f) = t)
  <2>1. PICK to : CallTo(c, method, k, io, to)
    BY <1>1, CallFacts
  <2> QED
    BY <2>1 DEF CallTo
<1>2. ASSUME NEW c \in Calls, req[c] # Idle, HostStep(c)
      PROVE  (t \in links =>
               t \in links' \/ \E f \in Calls : hpc[f] \in {"unlink", "unlinkErr"} /\ Task(f) = t)
  <2>0. Key(c) \in Keys
    BY <1>2 DEF Types, Key
  <2>1. CASE CreateLink(c) \/ GenerateExtraData(c) \/ CreateReturns(c)
           \/ DeleteReturns(c) \/ HostAwaitIO(c)
    BY <1>2, <2>0, <2>1 DEF CreateLink, GenerateExtraData, CreateReturns,
       DeleteReturns, HostAwaitIO
  <2>2. CASE Reserve(c) \/ Release(c) \/ Register(c)
    BY <1>2, <2>0, <2>2 DEF Reserve, Release, Register
  <2>3. CASE HostUndo(c) \/ HostTakeProc(c) \/ SendDelete(c) \/ Unlink(c)
    BY <1>2, <2>0, <2>3 DEF HostUndo, HostTakeProc, SendDelete, Unlink
  <2> QED
    BY <1>2, <2>1, <2>2, <2>3 DEF HostStep
<1>3. ASSUME NEW c \in Calls, req[c] # Idle, AgentStep(c), UNCHANGED hostVars
      PROVE  (t \in links =>
               t \in links' \/ \E f \in Calls : hpc[f] \in {"unlink", "unlinkErr"} /\ Task(f) = t)
  <2>0. Key(c) \in Keys
    BY <1>3 DEF Types, Key
  <2>1. CASE AcceptCreate(c) \/ StatRootfs(c) \/ AcceptExec(c)
    BY <1>3, <2>0, <2>1 DEF AcceptCreate, StatRootfs, AcceptExec
  <2>2. CASE WriteConfig(c) \/ AwaitIO(c) \/ StartCleanup(c) \/ EndCleanup(c)
           \/ NewProc(c) \/ Undo(c) \/ TakeProc(c)
    BY <1>3, <2>0, <2>2 DEF WriteConfig, AwaitIO, StartCleanup, EndCleanup,
       NewProc, Undo, TakeProc
  <2>3. CASE RuncCreate(c) \/ RuncDelete(c)
    BY <1>3, <2>0, <2>3 DEF RuncCreate, RuncDelete
  <2>4. CASE CleanLast(c)  BY <1>3, <2>0, <2>4 DEF CleanLast
  <2> QED
    BY <1>3, <2>1, <2>2, <2>3, <2>4
       DEF AgentStep, CreateStep, DeleteStep, CleanupStep
<1>4. CASE Forward
  BY <1>4 DEF Forward, ServeStep, ServeStart, ServePause, ServeResume,
     ServeKill, SetStatus
<1>5. CASE UNCHANGED vars
  BY <1>5 DEF vars
<1> QED
  BY <1>1, <1>2, <1>3, <1>4, <1>5 DEF Next

\* A Create comes to its link by CreateLink.
LEMMA LinkKept ==
    ASSUME Inv, Types, [Next]_vars, NEW d \in Calls
    PROVE  (IsCreate(d)' /\ hpc'[d] \in {"reserve", "ports", "register"} =>
               /\ Key(d)' = Key(d) /\ IsCreate(d)
               /\ \/ hpc[d] \in {"reserve", "ports", "register"}
                  \/ Task(d) \in links')
<1>0. ControlAt(d)
  BY DEF Inv, ControlInv
<1> USE DEF Types, ControlAt, Methods, IsCreate, IsExec, IsDelete, Over,
       CreateActive, ExecActive, Deleting, Goto, GotoA, Key, Task, agentVars,
       hostVars, mountVars, cleanVars, runcVars
<1>1. ASSUME NEW c \in Calls, NEW method \in Methods, NEW k \in Keys,
             NEW io \in IOs(method), Call(c, method, k, io)
      PROVE  (IsCreate(d)' /\ hpc'[d] \in {"reserve", "ports", "register"} =>
               /\ Key(d)' = Key(d) /\ IsCreate(d)
               /\ \/ hpc[d] \in {"reserve", "ports", "register"}
                  \/ Task(d) \in links')
  <2>0. ControlAt(c)
    BY DEF Inv, ControlInv
  <2>1. PICK to : CallTo(c, method, k, io, to)
    BY <1>1, CallFacts
  <2> QED
    BY <1>0, <2>0, <2>1 DEF CallTo
<1>2. ASSUME NEW c \in Calls, req[c] # Idle, HostStep(c)
      PROVE  (IsCreate(d)' /\ hpc'[d] \in {"reserve", "ports", "register"} =>
               /\ Key(d)' = Key(d) /\ IsCreate(d)
               /\ \/ hpc[d] \in {"reserve", "ports", "register"}
                  \/ Task(d) \in links')
  <2>0. /\ ControlAt(c) /\ Key(c) \in Keys
    BY <1>2 DEF Inv, ControlInv
  <2>1. CASE CreateLink(c) \/ GenerateExtraData(c) \/ CreateReturns(c)
           \/ DeleteReturns(c) \/ HostAwaitIO(c)
    BY <1>0, <1>2, <2>0, <2>1 DEF CreateLink, GenerateExtraData,
       CreateReturns, DeleteReturns, HostAwaitIO
  <2>2. CASE Reserve(c) \/ Release(c) \/ Register(c)
    BY <1>0, <1>2, <2>0, <2>2 DEF Reserve, Release, Register
  <2>3. CASE HostUndo(c) \/ HostTakeProc(c) \/ SendDelete(c) \/ Unlink(c)
    BY <1>0, <1>2, <2>0, <2>3 DEF HostUndo, HostTakeProc, SendDelete, Unlink
  <2> QED
    BY <1>2, <2>1, <2>2, <2>3 DEF HostStep
<1>3. ASSUME NEW c \in Calls, req[c] # Idle, AgentStep(c), UNCHANGED hostVars
      PROVE  (IsCreate(d)' /\ hpc'[d] \in {"reserve", "ports", "register"} =>
               /\ Key(d)' = Key(d) /\ IsCreate(d)
               /\ \/ hpc[d] \in {"reserve", "ports", "register"}
                  \/ Task(d) \in links')
  <2>0. /\ ControlAt(c) /\ Key(c) \in Keys
    BY <1>3 DEF Inv, ControlInv
  <2>1. CASE AcceptCreate(c) \/ StatRootfs(c) \/ AcceptExec(c)
    BY <1>0, <1>3, <2>0, <2>1 DEF AcceptCreate, StatRootfs, AcceptExec
  <2>2. CASE WriteConfig(c) \/ AwaitIO(c) \/ StartCleanup(c) \/ EndCleanup(c)
           \/ NewProc(c) \/ Undo(c) \/ TakeProc(c)
    BY <1>0, <1>3, <2>0, <2>2 DEF WriteConfig, AwaitIO, StartCleanup,
       EndCleanup, NewProc, Undo, TakeProc
  <2>3. CASE RuncCreate(c) \/ RuncDelete(c)
    BY <1>0, <1>3, <2>0, <2>3 DEF RuncCreate, RuncDelete
  <2>4. CASE CleanLast(c)  BY <1>0, <1>3, <2>0, <2>4 DEF CleanLast
  <2> QED
    BY <1>3, <2>1, <2>2, <2>3, <2>4
       DEF AgentStep, CreateStep, DeleteStep, CleanupStep
<1>4. CASE Forward
  BY <1>0, <1>4 DEF Forward, ServeStep, ServeStart, ServePause, ServeResume,
     ServeKill, SetStatus
<1>5. CASE UNCHANGED vars
  BY <1>0, <1>5 DEF vars
<1> QED
  BY <1>1, <1>2, <1>3, <1>4, <1>5 DEF Next

\* Every step keeps the link of a Create.
LEMMA LinkStep ==
    ASSUME Inv, Types, [Next]_vars, NEW d \in Calls
    PROVE  LinkAt(d)'
<1> SUFFICES ASSUME IsCreate(d)', hpc'[d] \in {"reserve", "ports", "register"}
             PROVE  Task(d)' \in links'
  BY DEF LinkAt
<1>1. /\ Key(d)' = Key(d) /\ IsCreate(d) /\ LinkAt(d) /\ ControlAt(d)
      /\ hpc[d] \in {"reserve", "ports", "register"} \/ Task(d) \in links'
  BY LinkKept DEF Inv, LinkInv, ControlInv
<1>2. Task(d)' = Task(d) /\ Task(d) \in Tasks /\ Key(d) \in Keys /\ IsInit(Key(d))
  BY <1>1, KeyFacts DEF Task, Types, IsCreate, ControlAt
<1>3. ASSUME NEW f \in Calls, hpc[f] \in {"unlink", "unlinkErr"}, Task(f) = Task(d),
             hpc[d] \in {"reserve", "ports", "register"}
      PROVE  FALSE
  <2>1. Key(f) = Key(d)
    BY <1>2, <1>3, UnlinkInit, SameInit DEF Task
  <2>2. SerialAt(f, d)
    BY DEF Inv, Serial
  <2> QED
    BY <1>3, <2>1, <2>2 DEF SerialAt, Active, Over
<1> QED
  BY <1>1, <1>2, <1>3, LinksKept DEF LinkAt

\* A process is known after Register.
LEMMA KnownByRegister ==
    ASSUME Inv, Types, [Next]_vars, NEW j \in Keys
    PROVE  (known'[j] # NoCall /\ known[j] = NoCall =>
               \E f \in Calls : hpc[f] = "register" /\ Key(f) = j /\ req[f].method # "none")
<1> USE DEF Types, ControlAt, Goto, GotoA, Key, Task, agentVars, hostVars,
       mountVars, cleanVars, runcVars
<1>1. ASSUME NEW c \in Calls, NEW method \in Methods, NEW k \in Keys,
             NEW io \in IOs(method), Call(c, method, k, io)
      PROVE  (known'[j] # NoCall /\ known[j] = NoCall =>
               \E f \in Calls : hpc[f] = "register" /\ Key(f) = j /\ req[f].method # "none")
  <2>1. PICK to : CallTo(c, method, k, io, to)
    BY <1>1, CallFacts
  <2> QED
    BY <2>1 DEF CallTo
<1>2. ASSUME NEW c \in Calls, req[c] # Idle, HostStep(c)
      PROVE  (known'[j] # NoCall /\ known[j] = NoCall =>
               \E f \in Calls : hpc[f] = "register" /\ Key(f) = j /\ req[f].method # "none")
  <2>0. Key(c) \in Keys
    BY <1>2 DEF Types, Key
  <2>1. CASE CreateLink(c) \/ GenerateExtraData(c) \/ CreateReturns(c)
           \/ DeleteReturns(c) \/ HostAwaitIO(c)
    BY <1>2, <2>0, <2>1 DEF CreateLink, GenerateExtraData, CreateReturns,
       DeleteReturns, HostAwaitIO
  <2>2. CASE Reserve(c) \/ Release(c) \/ Register(c)
    BY <1>2, <2>0, <2>2, RegisterFacts DEF Reserve, Release, RegisterEffect
  <2>3. CASE HostUndo(c) \/ HostTakeProc(c) \/ SendDelete(c) \/ Unlink(c)
    BY <1>2, <2>0, <2>3 DEF HostUndo, HostTakeProc, SendDelete, Unlink
  <2> QED
    BY <1>2, <2>1, <2>2, <2>3 DEF HostStep
<1>3. ASSUME NEW c \in Calls, req[c] # Idle, AgentStep(c), UNCHANGED hostVars
      PROVE  (known'[j] # NoCall /\ known[j] = NoCall =>
               \E f \in Calls : hpc[f] = "register" /\ Key(f) = j /\ req[f].method # "none")
  <2>0. Key(c) \in Keys
    BY <1>3 DEF Types, Key
  <2>1. CASE AcceptCreate(c) \/ StatRootfs(c) \/ AcceptExec(c)
    BY <1>3, <2>0, <2>1 DEF AcceptCreate, StatRootfs, AcceptExec
  <2>2. CASE WriteConfig(c) \/ AwaitIO(c) \/ StartCleanup(c) \/ EndCleanup(c)
           \/ NewProc(c) \/ Undo(c) \/ TakeProc(c)
    BY <1>3, <2>0, <2>2 DEF WriteConfig, AwaitIO, StartCleanup, EndCleanup,
       NewProc, Undo, TakeProc
  <2>3. CASE RuncCreate(c) \/ RuncDelete(c)
    BY <1>3, <2>0, <2>3 DEF RuncCreate, RuncDelete
  <2>4. CASE CleanLast(c)  BY <1>3, <2>0, <2>4 DEF CleanLast
  <2> QED
    BY <1>3, <2>1, <2>2, <2>3, <2>4
       DEF AgentStep, CreateStep, DeleteStep, CleanupStep
<1>4. CASE Forward
  BY <1>4 DEF Forward, ServeStep, ServeStart, ServePause, ServeResume,
     ServeKill, SetStatus
<1>5. CASE UNCHANGED vars
  BY <1>5 DEF vars
<1> QED
  BY <1>1, <1>2, <1>3, <1>4, <1>5 DEF Next

\* Every step keeps the links of the tasks that the shim knows.
LEMMA LinkedStep ==
    ASSUME Inv, Types, [Next]_vars, NEW j \in Keys
    PROVE  LinkedAt(j)'
<1> SUFFICES ASSUME IsInit(j), known'[j] # NoCall
             PROVE  TaskOf(j) \in links'
  BY DEF LinkedAt
<1>0. TaskOf(j) \in Tasks
  BY KeyFacts
<1>1. TaskOf(j) \in links
  <2>1. CASE known[j] # NoCall
    BY <2>1 DEF Inv, LinkInv, LinkedAt
  <2>2. CASE known[j] = NoCall
    <3>1. PICK f \in Calls : hpc[f] = "register" /\ Key(f) = j /\ req[f].method # "none"
      BY <2>2, KnownByRegister
    <3>2. LinkAt(f) /\ ControlAt(f) /\ req[f].method \in Methods
      BY <3>1 DEF Inv, LinkInv, ControlInv, Types
    <3>3. IsCreate(f)
      BY <3>1, <3>2 DEF ControlAt, IsCreate, IsExec, IsDelete, Methods
    <3> QED
      BY <3>1, <3>2, <3>3 DEF LinkAt, Task
  <2> QED
    BY <2>1, <2>2
<1>2. ASSUME NEW f \in Calls, hpc[f] \in {"unlink", "unlinkErr"}, Task(f) = TaskOf(j)
      PROVE  FALSE
  <2>1. Key(f) = j /\ known[j] = NoCall
    BY <1>2, UnlinkInit, SameInit DEF Task
  <2>2. PICK g \in Calls : hpc[g] = "register" /\ Key(g) = j
    BY <2>1, KnownByRegister
  <2>3. SerialAt(f, g)
    BY DEF Inv, Serial
  <2> QED
    BY <1>2, <2>1, <2>2, <2>3 DEF SerialAt, Active, Over
<1> QED
  BY <1>0, <1>1, <1>2, LinksKept

-----------------------------------------------------------------------------
(* The ports.                                                              *)

\* The ports are taken one after the other.
LEMMA PortsChange ==
    ASSUME Inv, Types, [Next]_vars
    PROVE  (UNCHANGED <<ports, nextPort>> \/
             \E f \in Calls :
                nextPort' = nextPort + 3 /\ ports' = [ports EXCEPT ![f] = nextPort..(nextPort + 2)])
<1> USE DEF Types, Goto, GotoA, Key, Task, agentVars, hostVars, mountVars,
       cleanVars, runcVars
<1>1. ASSUME NEW c \in Calls, NEW method \in Methods, NEW k \in Keys,
             NEW io \in IOs(method), Call(c, method, k, io)
      PROVE  (UNCHANGED <<ports, nextPort>> \/
             \E f \in Calls :
                nextPort' = nextPort + 3 /\ ports' = [ports EXCEPT ![f] = nextPort..(nextPort + 2)])
  <2>1. PICK to : CallTo(c, method, k, io, to)
    BY <1>1, CallFacts
  <2> QED
    BY <2>1 DEF CallTo
<1>2. ASSUME NEW c \in Calls, req[c] # Idle, HostStep(c)
      PROVE  (UNCHANGED <<ports, nextPort>> \/
             \E f \in Calls :
                nextPort' = nextPort + 3 /\ ports' = [ports EXCEPT ![f] = nextPort..(nextPort + 2)])
  <2>0. Key(c) \in Keys
    BY <1>2 DEF Types, Key
  <2>1. CASE CreateLink(c) \/ GenerateExtraData(c) \/ CreateReturns(c)
           \/ DeleteReturns(c) \/ HostAwaitIO(c)
    BY <1>2, <2>0, <2>1 DEF CreateLink, GenerateExtraData, CreateReturns,
       DeleteReturns, HostAwaitIO
  <2>2. CASE Reserve(c) \/ Release(c) \/ Register(c)
    BY <1>2, <2>0, <2>2 DEF Reserve, Release, Register
  <2>3. CASE HostUndo(c) \/ HostTakeProc(c) \/ SendDelete(c) \/ Unlink(c)
    BY <1>2, <2>0, <2>3 DEF HostUndo, HostTakeProc, SendDelete, Unlink
  <2> QED
    BY <1>2, <2>1, <2>2, <2>3 DEF HostStep
<1>3. ASSUME NEW c \in Calls, req[c] # Idle, AgentStep(c), UNCHANGED hostVars
      PROVE  (UNCHANGED <<ports, nextPort>> \/
             \E f \in Calls :
                nextPort' = nextPort + 3 /\ ports' = [ports EXCEPT ![f] = nextPort..(nextPort + 2)])
  <2>0. Key(c) \in Keys
    BY <1>3 DEF Types, Key
  <2>1. CASE AcceptCreate(c) \/ StatRootfs(c) \/ AcceptExec(c)
    BY <1>3, <2>0, <2>1 DEF AcceptCreate, StatRootfs, AcceptExec
  <2>2. CASE WriteConfig(c) \/ AwaitIO(c) \/ StartCleanup(c) \/ EndCleanup(c)
           \/ NewProc(c) \/ Undo(c) \/ TakeProc(c)
    BY <1>3, <2>0, <2>2 DEF WriteConfig, AwaitIO, StartCleanup, EndCleanup,
       NewProc, Undo, TakeProc
  <2>3. CASE RuncCreate(c) \/ RuncDelete(c)
    BY <1>3, <2>0, <2>3 DEF RuncCreate, RuncDelete
  <2>4. CASE CleanLast(c)  BY <1>3, <2>0, <2>4 DEF CleanLast
  <2> QED
    BY <1>3, <2>1, <2>2, <2>3, <2>4
       DEF AgentStep, CreateStep, DeleteStep, CleanupStep
<1>4. CASE Forward
  BY <1>4 DEF Forward, ServeStep, ServeStart, ServePause, ServeResume,
     ServeKill, SetStatus
<1>5. CASE UNCHANGED vars
  BY <1>5 DEF vars
<1> QED
  BY <1>1, <1>2, <1>3, <1>4, <1>5 DEF Next

\* Every step keeps the ports of requests apart.
LEMMA PortsStep ==
    ASSUME Inv, Types, [Next]_vars, NEW d \in Calls, NEW e \in Calls
    PROVE  PortsAt(d, e)'
<1>1. /\ nextPort \in Nat /\ ports \in [Calls -> SUBSET Nat]
      /\ PortsAt(d, e) /\ PortsAt(e, d)
  BY DEF Inv, TypeInv, PortsInv
<1>2. CASE UNCHANGED <<ports, nextPort>>
  BY <1>1, <1>2 DEF PortsAt
<1>3. ASSUME NEW f \in Calls, nextPort' = nextPort + 3,
             ports' = [ports EXCEPT ![f] = nextPort..(nextPort + 2)]
      PROVE  PortsAt(d, e)'
  <2>1. \A g \in Calls : ports'[g] = IF g = f THEN nextPort..(nextPort + 2) ELSE ports[g]
    BY <1>1, <1>3
  <2>2. \A n \in ports[d] \cup ports[e] : n \in Nat /\ n < nextPort
    BY <1>1 DEF PortsAt
  <2>3. \A n \in ports'[d] : n < nextPort'
    BY <1>1, <1>3, <2>1, <2>2
  <2>4. ASSUME d # e
        PROVE  ports'[d] \cap ports'[e] = {}
    <3>1. ASSUME NEW n, n \in ports'[d], n \in ports'[e]
          PROVE  FALSE
      <4>1. CASE d # f /\ e # f
        BY <1>1, <2>1, <2>4, <3>1, <4>1 DEF PortsAt
      <4>2. CASE d = f \/ e = f
        <5>1. n \in nextPort..(nextPort + 2) /\ n \in ports[d] \cup ports[e]
          BY <2>1, <2>4, <3>1, <4>2
        <5> QED
          BY <1>1, <2>2, <5>1
      <4> QED
        BY <4>1, <4>2
    <3> QED
      BY <3>1
  <2> QED
    BY <2>3, <2>4 DEF PortsAt
<1> QED
  BY <1>2, <1>3, PortsChange

-----------------------------------------------------------------------------
(* Deleted tasks.                                                          *)

\* What is served, or created, stays so.
LEMMA EndsKept ==
    ASSUME Inv, Types, [Next]_vars, NEW d \in Calls
    PROVE  ((apc[d] = "served" => apc'[d] = "served") /\
             (hpc[d] = "created" => hpc'[d] = "created"))
<1>0. ControlAt(d)
  BY DEF Inv, ControlInv
<1> USE DEF Types, ControlAt, Methods, IsCreate, IsExec, IsDelete, Over,
       CreateActive, ExecActive, Deleting, Goto, GotoA, Key, Task, agentVars,
       hostVars, mountVars, cleanVars, runcVars
<1>1. ASSUME NEW c \in Calls, NEW method \in Methods, NEW k \in Keys,
             NEW io \in IOs(method), Call(c, method, k, io)
      PROVE  ((apc[d] = "served" => apc'[d] = "served") /\
             (hpc[d] = "created" => hpc'[d] = "created"))
  <2>0. ControlAt(c)
    BY DEF Inv, ControlInv
  <2>1. PICK to : CallTo(c, method, k, io, to)
    BY <1>1, CallFacts
  <2> QED
    BY <1>0, <2>0, <2>1 DEF CallTo
<1>2. ASSUME NEW c \in Calls, req[c] # Idle, HostStep(c)
      PROVE  ((apc[d] = "served" => apc'[d] = "served") /\
             (hpc[d] = "created" => hpc'[d] = "created"))
  <2>0. /\ ControlAt(c) /\ Key(c) \in Keys
    BY <1>2 DEF Inv, ControlInv
  <2>1. CASE CreateLink(c) \/ GenerateExtraData(c) \/ CreateReturns(c)
           \/ DeleteReturns(c) \/ HostAwaitIO(c)
    BY <1>0, <1>2, <2>0, <2>1 DEF CreateLink, GenerateExtraData,
       CreateReturns, DeleteReturns, HostAwaitIO
  <2>2. CASE Reserve(c) \/ Release(c) \/ Register(c)
    BY <1>0, <1>2, <2>0, <2>2 DEF Reserve, Release, Register
  <2>3. CASE HostUndo(c) \/ HostTakeProc(c) \/ SendDelete(c) \/ Unlink(c)
    BY <1>0, <1>2, <2>0, <2>3 DEF HostUndo, HostTakeProc, SendDelete, Unlink
  <2> QED
    BY <1>2, <2>1, <2>2, <2>3 DEF HostStep
<1>3. ASSUME NEW c \in Calls, req[c] # Idle, AgentStep(c), UNCHANGED hostVars
      PROVE  ((apc[d] = "served" => apc'[d] = "served") /\
             (hpc[d] = "created" => hpc'[d] = "created"))
  <2>0. /\ ControlAt(c) /\ Key(c) \in Keys
    BY <1>3 DEF Inv, ControlInv
  <2>1. CASE AcceptCreate(c) \/ StatRootfs(c) \/ AcceptExec(c)
    BY <1>0, <1>3, <2>0, <2>1 DEF AcceptCreate, StatRootfs, AcceptExec
  <2>2. CASE WriteConfig(c) \/ AwaitIO(c) \/ StartCleanup(c) \/ EndCleanup(c)
           \/ NewProc(c) \/ Undo(c) \/ TakeProc(c)
    BY <1>0, <1>3, <2>0, <2>2 DEF WriteConfig, AwaitIO, StartCleanup,
       EndCleanup, NewProc, Undo, TakeProc
  <2>3. CASE RuncCreate(c) \/ RuncDelete(c)
    BY <1>0, <1>3, <2>0, <2>3 DEF RuncCreate, RuncDelete
  <2>4. CASE CleanLast(c)  BY <1>0, <1>3, <2>0, <2>4 DEF CleanLast
  <2> QED
    BY <1>3, <2>1, <2>2, <2>3, <2>4
       DEF AgentStep, CreateStep, DeleteStep, CleanupStep
<1>4. CASE Forward
  BY <1>0, <1>4 DEF Forward, ServeStep, ServeStart, ServePause, ServeResume,
     ServeKill, SetStatus
<1>5. CASE UNCHANGED vars
  BY <1>0, <1>5 DEF vars
<1> QED
  BY <1>1, <1>2, <1>3, <1>4, <1>5 DEF Next

\* A task that was deleted stays so.
LEMMA DeletedKept ==
    ASSUME Inv, Types, [Next]_vars, NEW t, Deleted(t)
    PROVE  \E f \in Calls :
              req'[f].method = "delete" /\ Key(f)' = <<t, Init0>> /\ apc'[f] = "served"
BY EndsKept, RequestsKept DEF Deleted, Key

\* A Create reserves a drive first.
LEMMA ReservedKept ==
    ASSUME Inv, Types, [Next]_vars, NEW d \in Calls
    PROVE  (Reserved(d)' =>
               /\ Key(d)' = Key(d) /\ IsCreate(d)
               /\ \/ Reserved(d)
                  \/ /\ Reserve(d) /\ Task(d) \notin drives
                     /\ drives' = drives \cup {Task(d)})
<1>0. ControlAt(d)
  BY DEF Inv, ControlInv
<1> USE DEF Types, Reserved, ControlAt, Methods, IsCreate, IsExec, IsDelete,
       Over, CreateActive, ExecActive, Deleting, Goto, GotoA, Key, Task,
       agentVars, hostVars, mountVars, cleanVars, runcVars
<1>1. ASSUME NEW c \in Calls, NEW method \in Methods, NEW k \in Keys,
             NEW io \in IOs(method), Call(c, method, k, io)
      PROVE  (Reserved(d)' =>
               /\ Key(d)' = Key(d) /\ IsCreate(d)
               /\ \/ Reserved(d)
                  \/ /\ Reserve(d) /\ Task(d) \notin drives
                     /\ drives' = drives \cup {Task(d)})
  <2>0. ControlAt(c)
    BY DEF Inv, ControlInv
  <2>1. PICK to : CallTo(c, method, k, io, to)
    BY <1>1, CallFacts
  <2> QED
    BY <1>0, <2>0, <2>1 DEF CallTo
<1>2. ASSUME NEW c \in Calls, req[c] # Idle, HostStep(c)
      PROVE  (Reserved(d)' =>
               /\ Key(d)' = Key(d) /\ IsCreate(d)
               /\ \/ Reserved(d)
                  \/ /\ Reserve(d) /\ Task(d) \notin drives
                     /\ drives' = drives \cup {Task(d)})
  <2>0. /\ ControlAt(c) /\ Key(c) \in Keys
    BY <1>2 DEF Inv, ControlInv
  <2>1. CASE CreateLink(c) \/ GenerateExtraData(c) \/ CreateReturns(c)
           \/ DeleteReturns(c) \/ HostAwaitIO(c)
    BY <1>0, <1>2, <2>0, <2>1 DEF CreateLink, GenerateExtraData,
       CreateReturns, DeleteReturns, HostAwaitIO
  <2>2. CASE Reserve(c) \/ Release(c) \/ Register(c)
    BY <1>0, <1>2, <2>0, <2>2, RegisterFacts DEF Reserve, Release,
       RegisterEffect
  <2>3. CASE HostUndo(c) \/ HostTakeProc(c) \/ SendDelete(c) \/ Unlink(c)
    BY <1>0, <1>2, <2>0, <2>3 DEF HostUndo, HostTakeProc, SendDelete, Unlink
  <2> QED
    BY <1>2, <2>1, <2>2, <2>3 DEF HostStep
<1>3. ASSUME NEW c \in Calls, req[c] # Idle, AgentStep(c), UNCHANGED hostVars
      PROVE  (Reserved(d)' =>
               /\ Key(d)' = Key(d) /\ IsCreate(d)
               /\ \/ Reserved(d)
                  \/ /\ Reserve(d) /\ Task(d) \notin drives
                     /\ drives' = drives \cup {Task(d)})
  <2>0. /\ ControlAt(c) /\ Key(c) \in Keys
    BY <1>3 DEF Inv, ControlInv
  <2>1. CASE AcceptCreate(c) \/ StatRootfs(c) \/ AcceptExec(c)
    BY <1>0, <1>3, <2>0, <2>1 DEF AcceptCreate, StatRootfs, AcceptExec
  <2>2. CASE WriteConfig(c) \/ AwaitIO(c) \/ StartCleanup(c) \/ EndCleanup(c)
           \/ NewProc(c) \/ Undo(c) \/ TakeProc(c)
    BY <1>0, <1>3, <2>0, <2>2 DEF WriteConfig, AwaitIO, StartCleanup,
       EndCleanup, NewProc, Undo, TakeProc
  <2>3. CASE RuncCreate(c) \/ RuncDelete(c)
    BY <1>0, <1>3, <2>0, <2>3 DEF RuncCreate, RuncDelete
  <2>4. CASE CleanLast(c)  BY <1>0, <1>3, <2>0, <2>4 DEF CleanLast
  <2> QED
    BY <1>3, <2>1, <2>2, <2>3, <2>4
       DEF AgentStep, CreateStep, DeleteStep, CleanupStep
<1>4. CASE Forward
  BY <1>0, <1>4 DEF Forward, ServeStep, ServeStart, ServePause, ServeResume,
     ServeKill, SetStatus
<1>5. CASE UNCHANGED vars
  BY <1>0, <1>5 DEF vars
<1> QED
  BY <1>1, <1>2, <1>3, <1>4, <1>5 DEF Next

\* Every step keeps that a drive is taken from a deleted task only.
LEMMA ReservedStep ==
    ASSUME Inv, Types, [Next]_vars, NEW d \in Calls
    PROVE  ReservedAt(d)'
<1> SUFFICES ASSUME Reserved(d)'
             PROVE  \/ Task(d)' \in drives'
                    \/ \E f \in Calls :
                          /\ req'[f].method = "delete" /\ apc'[f] = "served"
                          /\ Key(f)' = <<Task(d)', Init0>>
  BY DEF ReservedAt, Deleted
<1>1. /\ Key(d)' = Key(d) /\ Task(d)' = Task(d) /\ IsCreate(d)
      /\ Reserved(d) \/ drives' = drives \cup {Task(d)}
      /\ ReservedAt(d) /\ ControlAt(d)
  BY ReservedKept DEF Task, Inv, DeletedInv, ControlInv
<1>2. Key(d) \in Keys /\ IsInit(Key(d)) /\ Task(d) \in Tasks
  BY <1>1, KeyFacts DEF Task, Types, IsCreate, ControlAt
<1>3. ASSUME NEW f \in Calls, hpc[f] = "release", Task(f) = Task(d)
      PROVE  Deleted(Task(d))
  <2>1. Deletes(f) /\ apc[f] = "served" /\ Key(f) \in Keys
    BY <1>3, ReleaseDeletes
  <2>2. Key(f) = <<Task(d), Init0>>
    BY <1>3, <2>1 DEF Deletes, IsInit, Keys, Task, TaskOf
  <2> QED
    BY <2>1, <2>2 DEF Deletes, IsDelete, Deleted
<1>4. CASE Deleted(Task(d))
  BY <1>1, <1>4, DeletedKept
<1>5. CASE Task(d) \in drives
  BY <1>1, <1>2, <1>3, <1>4, <1>5, DrivesKept
<1>6. CASE drives' = drives \cup {Task(d)}
  BY <1>1, <1>6
<1> QED
  BY <1>1, <1>4, <1>5, <1>6 DEF ReservedAt

\* Every step keeps that a task is created again only when it was deleted.
LEMMA AgainStep ==
    ASSUME Inv, Types, [Next]_vars, NEW d \in Calls, NEW e \in Calls
    PROVE  AgainAt(d, e)'
<1> SUFFICES ASSUME Reserved(d)', Reserved(e)', Key(d)' = Key(e)', d # e
             PROVE  \E f \in Calls :
                       /\ req'[f].method = "delete" /\ apc'[f] = "served"
                       /\ Key(f)' = <<Task(d)', Init0>>
  BY DEF AgainAt, Deleted
<1> DEFINE New(x) == /\ Reserve(x) /\ Task(x) \notin drives
                     /\ drives' = drives \cup {Task(x)}
<1>1. /\ Key(d)' = Key(d) /\ Key(e)' = Key(e) /\ Task(d)' = Task(d) /\ Task(d) = Task(e)
      /\ Reserved(d) \/ New(d)
      /\ Reserved(e) \/ New(e)
  BY ReservedKept DEF Task
<1>2. Deleted(Task(d))
  BY <1>1, ReservesOne DEF Inv, DeletedInv, ReservedAt, AgainAt
<1> QED
  BY <1>1, <1>2, DeletedKept

\* containerd asks for execs of tasks that it was told of.
LEMMA ExecTold ==
    ASSUME Inv, Types, [Next]_vars, NEW d \in Calls
    PROVE  (IsExec(d)' => \/ IsExec(d)
                           \/ \E f \in Calls : hpc[f] = "created" /\ Key(f) = InitOf(Key(d)'))
<1> USE DEF Types, IsExec, InitOf, Goto, GotoA, Key, Task, agentVars,
       hostVars, mountVars, cleanVars, runcVars
<1>1. ASSUME NEW c \in Calls, NEW method \in Methods, NEW k \in Keys,
             NEW io \in IOs(method), Call(c, method, k, io)
      PROVE  (IsExec(d)' => \/ IsExec(d)
                           \/ \E f \in Calls : hpc[f] = "created" /\ Key(f) = InitOf(Key(d)'))
  <2>1. CASE d = c
    <3>1. req'[c] = [method |-> method, key |-> k, io |-> io]
      BY <1>1 DEF Call
    <3>2. method = "exec" => Told(<<TaskOf(k), Init0>>)
      BY <1>1 DEF Call, MayCall
    <3> QED
      BY <2>1, <3>1, <3>2 DEF Told
  <2>2. CASE d # c
    BY <1>1, <2>2 DEF Call
  <2> QED
    BY <2>1, <2>2
<1>2. ASSUME NEW c \in Calls, req[c] # Idle, HostStep(c)
      PROVE  (IsExec(d)' => \/ IsExec(d)
                           \/ \E f \in Calls : hpc[f] = "created" /\ Key(f) = InitOf(Key(d)'))
  <2>0. Key(c) \in Keys
    BY <1>2 DEF Types, Key
  <2>1. CASE CreateLink(c) \/ GenerateExtraData(c) \/ CreateReturns(c)
           \/ DeleteReturns(c) \/ HostAwaitIO(c)
    BY <1>2, <2>0, <2>1 DEF CreateLink, GenerateExtraData, CreateReturns,
       DeleteReturns, HostAwaitIO
  <2>2. CASE Reserve(c) \/ Release(c) \/ Register(c)
    BY <1>2, <2>0, <2>2 DEF Reserve, Release, Register
  <2>3. CASE HostUndo(c) \/ HostTakeProc(c) \/ SendDelete(c) \/ Unlink(c)
    BY <1>2, <2>0, <2>3 DEF HostUndo, HostTakeProc, SendDelete, Unlink
  <2> QED
    BY <1>2, <2>1, <2>2, <2>3 DEF HostStep
<1>3. ASSUME NEW c \in Calls, req[c] # Idle, AgentStep(c), UNCHANGED hostVars
      PROVE  (IsExec(d)' => \/ IsExec(d)
                           \/ \E f \in Calls : hpc[f] = "created" /\ Key(f) = InitOf(Key(d)'))
  <2>0. Key(c) \in Keys
    BY <1>3 DEF Types, Key
  <2>1. CASE AcceptCreate(c) \/ StatRootfs(c) \/ AcceptExec(c)
    BY <1>3, <2>0, <2>1 DEF AcceptCreate, StatRootfs, AcceptExec
  <2>2. CASE WriteConfig(c) \/ AwaitIO(c) \/ StartCleanup(c) \/ EndCleanup(c)
           \/ NewProc(c) \/ Undo(c) \/ TakeProc(c)
    BY <1>3, <2>0, <2>2 DEF WriteConfig, AwaitIO, StartCleanup, EndCleanup,
       NewProc, Undo, TakeProc
  <2>3. CASE RuncCreate(c) \/ RuncDelete(c)
    BY <1>3, <2>0, <2>3 DEF RuncCreate, RuncDelete
  <2>4. CASE CleanLast(c)  BY <1>3, <2>0, <2>4 DEF CleanLast
  <2> QED
    BY <1>3, <2>1, <2>2, <2>3, <2>4
       DEF AgentStep, CreateStep, DeleteStep, CleanupStep
<1>4. CASE Forward
  BY <1>4 DEF Forward, ServeStep, ServeStart, ServePause, ServeResume,
     ServeKill, SetStatus
<1>5. CASE UNCHANGED vars
  BY <1>5 DEF vars
<1> QED
  BY <1>1, <1>2, <1>3, <1>4, <1>5 DEF Next

\* Every step keeps that execs are of tasks that were created.
LEMMA ToldStep ==
    ASSUME Inv, Types, [Next]_vars, NEW d \in Calls
    PROVE  ToldAt(d)'
<1> SUFFICES ASSUME IsExec(d)'
             PROVE  \E f \in Calls : /\ IsCreate(f)' /\ Key(f)' = InitOf(Key(d)')
                                     /\ hpc'[f] = "created"
  BY DEF ToldAt, InitOf, TaskOf
<1>1. PICK f \in Calls : IsCreate(f) /\ Key(f) = InitOf(Key(d)') /\ hpc[f] = "created"
  <2>1. CASE IsExec(d)
    <3>1. Key(d)' = Key(d)
      BY <2>1, RequestsKept DEF IsExec, Key
    <3> QED
      BY <2>1, <3>1 DEF Inv, DeletedInv, ToldAt
  <2>2. ASSUME NEW f \in Calls, hpc[f] = "created", Key(f) = InitOf(Key(d)')
        PROVE  IsCreate(f)
    <3>1. ControlAt(f) /\ req[f].method \in Methods \cup {"none"}
      BY DEF Inv, ControlInv, Types
    <3>2. IsInit(Key(f))
      BY <2>2 DEF InitOf, IsInit
    <3> QED
      BY <2>2, <3>1, <3>2 DEF ControlAt, IsCreate, IsExec, IsDelete, Methods
  <2> QED
    BY <2>1, <2>2, ExecTold
<1>2. req'[f] = req[f] /\ hpc'[f] = "created"
  BY <1>1, RequestsKept, EndsKept DEF IsCreate
<1> QED
  BY <1>1, <1>2 DEF IsCreate, Key, InitOf, TaskOf

-----------------------------------------------------------------------------
(* The bundles.                                                            *)

\* A bundle is made for a task without a drive, or by an exec.
LEMMA BundlesGrow ==
    ASSUME Inv, Types, [Next]_vars, NEW t \in Tasks
    PROVE  (t \in bundles' =>
               \/ t \in bundles
               \/ \E f \in Calls : Task(f) = t /\ hpc[f] = "reserve" /\ t \notin drives
               \/ \E f \in Calls : Task(f) = t /\ req[f].method = "exec")
<1> USE DEF Types, Goto, GotoA, Key, Task, agentVars, hostVars, mountVars,
       cleanVars, runcVars
<1>1. ASSUME NEW c \in Calls, NEW method \in Methods, NEW k \in Keys,
             NEW io \in IOs(method), Call(c, method, k, io)
      PROVE  (t \in bundles' =>
               \/ t \in bundles
               \/ \E f \in Calls : Task(f) = t /\ hpc[f] = "reserve" /\ t \notin drives
               \/ \E f \in Calls : Task(f) = t /\ req[f].method = "exec")
  <2>1. PICK to : CallTo(c, method, k, io, to)
    BY <1>1, CallFacts
  <2> QED
    BY <2>1 DEF CallTo
<1>2. ASSUME NEW c \in Calls, req[c] # Idle, HostStep(c)
      PROVE  (t \in bundles' =>
               \/ t \in bundles
               \/ \E f \in Calls : Task(f) = t /\ hpc[f] = "reserve" /\ t \notin drives
               \/ \E f \in Calls : Task(f) = t /\ req[f].method = "exec")
  <2>0. Key(c) \in Keys
    BY <1>2 DEF Types, Key
  <2>1. CASE CreateLink(c) \/ GenerateExtraData(c) \/ CreateReturns(c)
           \/ DeleteReturns(c) \/ HostAwaitIO(c)
    BY <1>2, <2>0, <2>1 DEF CreateLink, GenerateExtraData, CreateReturns,
       DeleteReturns, HostAwaitIO
  <2>2. CASE Reserve(c) \/ Release(c) \/ Register(c)
    BY <1>2, <2>0, <2>2 DEF Reserve, Release, Register
  <2>3. CASE HostUndo(c) \/ HostTakeProc(c) \/ SendDelete(c) \/ Unlink(c)
    BY <1>2, <2>0, <2>3 DEF HostUndo, HostTakeProc, SendDelete, Unlink
  <2> QED
    BY <1>2, <2>1, <2>2, <2>3 DEF HostStep
<1>3. ASSUME NEW c \in Calls, req[c] # Idle, AgentStep(c), UNCHANGED hostVars
      PROVE  (t \in bundles' =>
               \/ t \in bundles
               \/ \E f \in Calls : Task(f) = t /\ hpc[f] = "reserve" /\ t \notin drives
               \/ \E f \in Calls : Task(f) = t /\ req[f].method = "exec")
  <2>0. Key(c) \in Keys
    BY <1>3 DEF Types, Key
  <2>1. CASE AcceptCreate(c) \/ StatRootfs(c) \/ AcceptExec(c)
    BY <1>3, <2>0, <2>1 DEF AcceptCreate, StatRootfs, AcceptExec
  <2>2. CASE WriteConfig(c) \/ AwaitIO(c) \/ StartCleanup(c) \/ EndCleanup(c)
           \/ NewProc(c) \/ Undo(c) \/ TakeProc(c)
    BY <1>3, <2>0, <2>2 DEF WriteConfig, AwaitIO, StartCleanup, EndCleanup,
       NewProc, Undo, TakeProc
  <2>3. CASE RuncCreate(c) \/ RuncDelete(c)
    BY <1>3, <2>0, <2>3 DEF RuncCreate, RuncDelete
  <2>4. CASE CleanLast(c)
    <3>1. bundles' \subseteq bundles
      BY <2>0, <2>4, CleanInit, CleanExec
    <3> QED
      BY <3>1
  <2> QED
    BY <1>3, <2>1, <2>2, <2>3, <2>4
       DEF AgentStep, CreateStep, DeleteStep, CleanupStep
<1>4. CASE Forward
  BY <1>4 DEF Forward, ServeStep, ServeStart, ServePause, ServeResume,
     ServeKill, SetStatus
<1>5. CASE UNCHANGED vars
  BY <1>5 DEF vars
<1> QED
  BY <1>1, <1>2, <1>3, <1>4, <1>5 DEF Next

\* A Delete releases the drive after it took the process.
LEMMA TakesRelease ==
    ASSUME Inv, Types, [Next]_vars, NEW d \in Calls
    PROVE  (hpc'[d] \in {"release", "unlink"} =>
               \/ hpc[d] \in {"release", "unlink"}
               \/ /\ HostTakeProc(d) /\ hpc[d] = "take"
                  /\ IsInit(Key(d)) /\ known[Key(d)] # NoCall)
<1> USE DEF Types, Goto, GotoA, Key, Task, agentVars, hostVars, mountVars,
       cleanVars, runcVars
<1>1. ASSUME NEW c \in Calls, NEW method \in Methods, NEW k \in Keys,
             NEW io \in IOs(method), Call(c, method, k, io)
      PROVE  (hpc'[d] \in {"release", "unlink"} =>
               \/ hpc[d] \in {"release", "unlink"}
               \/ /\ HostTakeProc(d) /\ hpc[d] = "take"
                  /\ IsInit(Key(d)) /\ known[Key(d)] # NoCall)
  <2>1. PICK to : CallTo(c, method, k, io, to)
    BY <1>1, CallFacts
  <2> QED
    BY <2>1 DEF CallTo
<1>2. ASSUME NEW c \in Calls, req[c] # Idle, HostStep(c)
      PROVE  (hpc'[d] \in {"release", "unlink"} =>
               \/ hpc[d] \in {"release", "unlink"}
               \/ /\ HostTakeProc(d) /\ hpc[d] = "take"
                  /\ IsInit(Key(d)) /\ known[Key(d)] # NoCall)
  <2>0. Key(c) \in Keys
    BY <1>2 DEF Types, Key
  <2>1. CASE CreateLink(c) \/ GenerateExtraData(c) \/ CreateReturns(c)
           \/ DeleteReturns(c) \/ HostAwaitIO(c)
    BY <1>2, <2>0, <2>1 DEF CreateLink, GenerateExtraData, CreateReturns,
       DeleteReturns, HostAwaitIO
  <2>2. CASE Reserve(c) \/ Release(c) \/ Register(c)
    BY <1>2, <2>0, <2>2 DEF Reserve, Release, Register
  <2>3. CASE HostUndo(c) \/ HostTakeProc(c) \/ SendDelete(c) \/ Unlink(c)
    BY <1>2, <2>0, <2>3 DEF HostUndo, HostTakeProc, SendDelete, Unlink
  <2> QED
    BY <1>2, <2>1, <2>2, <2>3 DEF HostStep
<1>3. ASSUME NEW c \in Calls, req[c] # Idle, AgentStep(c), UNCHANGED hostVars
      PROVE  (hpc'[d] \in {"release", "unlink"} =>
               \/ hpc[d] \in {"release", "unlink"}
               \/ /\ HostTakeProc(d) /\ hpc[d] = "take"
                  /\ IsInit(Key(d)) /\ known[Key(d)] # NoCall)
  <2>0. Key(c) \in Keys
    BY <1>3 DEF Types, Key
  <2>1. CASE AcceptCreate(c) \/ StatRootfs(c) \/ AcceptExec(c)
    BY <1>3, <2>0, <2>1 DEF AcceptCreate, StatRootfs, AcceptExec
  <2>2. CASE WriteConfig(c) \/ AwaitIO(c) \/ StartCleanup(c) \/ EndCleanup(c)
           \/ NewProc(c) \/ Undo(c) \/ TakeProc(c)
    BY <1>3, <2>0, <2>2 DEF WriteConfig, AwaitIO, StartCleanup, EndCleanup,
       NewProc, Undo, TakeProc
  <2>3. CASE RuncCreate(c) \/ RuncDelete(c)
    BY <1>3, <2>0, <2>3 DEF RuncCreate, RuncDelete
  <2>4. CASE CleanLast(c)  BY <1>3, <2>0, <2>4 DEF CleanLast
  <2> QED
    BY <1>3, <2>1, <2>2, <2>3, <2>4
       DEF AgentStep, CreateStep, DeleteStep, CleanupStep
<1>4. CASE Forward
  BY <1>4 DEF Forward, ServeStep, ServeStart, ServePause, ServeResume,
     ServeKill, SetStatus
<1>5. CASE UNCHANGED vars
  BY <1>5 DEF vars
<1> QED
  BY <1>1, <1>2, <1>3, <1>4, <1>5 DEF Next

\* A known Create was known.
LEMMA KnownCreate ==
    ASSUME Inv, Types, [Next]_vars, NEW d \in Calls
    PROVE  (IsCreate(d)' /\ known'[Key(d)'] = d /\ apc'[d] \in {"io", "undo", "served"} =>
               /\ Key(d)' = Key(d) /\ IsCreate(d) /\ known[Key(d)] = d
               /\ apc[d] \in {"runc", "io", "undo", "served"})
<1>0. ControlAt(d)
  BY DEF Inv, ControlInv
<1> USE NoCallAssumption DEF Types, ControlAt, Methods, IsCreate, IsExec,
       IsDelete, Over, CreateActive, ExecActive, Deleting, Goto, GotoA, Key,
       Task, agentVars, hostVars, mountVars, cleanVars, runcVars
<1>1. ASSUME NEW c \in Calls, NEW method \in Methods, NEW k \in Keys,
             NEW io \in IOs(method), Call(c, method, k, io)
      PROVE  (IsCreate(d)' /\ known'[Key(d)'] = d /\ apc'[d] \in {"io", "undo", "served"} =>
               /\ Key(d)' = Key(d) /\ IsCreate(d) /\ known[Key(d)] = d
               /\ apc[d] \in {"runc", "io", "undo", "served"})
  <2>0. ControlAt(c)
    BY DEF Inv, ControlInv
  <2>1. PICK to : CallTo(c, method, k, io, to)
    BY <1>1, CallFacts
  <2> QED
    BY <1>0, <2>0, <2>1 DEF CallTo
<1>2. ASSUME NEW c \in Calls, req[c] # Idle, HostStep(c)
      PROVE  (IsCreate(d)' /\ known'[Key(d)'] = d /\ apc'[d] \in {"io", "undo", "served"} =>
               /\ Key(d)' = Key(d) /\ IsCreate(d) /\ known[Key(d)] = d
               /\ apc[d] \in {"runc", "io", "undo", "served"})
  <2>0. /\ ControlAt(c) /\ Key(c) \in Keys
    BY <1>2 DEF Inv, ControlInv
  <2>1. CASE CreateLink(c) \/ GenerateExtraData(c) \/ CreateReturns(c)
           \/ DeleteReturns(c) \/ HostAwaitIO(c)
    BY <1>0, <1>2, <2>0, <2>1 DEF CreateLink, GenerateExtraData,
       CreateReturns, DeleteReturns, HostAwaitIO
  <2>2. CASE Reserve(c) \/ Release(c) \/ Register(c)
    BY <1>0, <1>2, <2>0, <2>2, RegisterFacts DEF Reserve, Release,
       RegisterEffect
  <2>3. CASE HostUndo(c) \/ HostTakeProc(c) \/ SendDelete(c) \/ Unlink(c)
    BY <1>0, <1>2, <2>0, <2>3 DEF HostUndo, HostTakeProc, SendDelete, Unlink
  <2> QED
    BY <1>2, <2>1, <2>2, <2>3 DEF HostStep
<1>3. ASSUME NEW c \in Calls, req[c] # Idle, AgentStep(c), UNCHANGED hostVars
      PROVE  (IsCreate(d)' /\ known'[Key(d)'] = d /\ apc'[d] \in {"io", "undo", "served"} =>
               /\ Key(d)' = Key(d) /\ IsCreate(d) /\ known[Key(d)] = d
               /\ apc[d] \in {"runc", "io", "undo", "served"})
  <2>0. /\ ControlAt(c) /\ Key(c) \in Keys
    BY <1>3 DEF Inv, ControlInv
  <2>1. CASE AcceptCreate(c) \/ StatRootfs(c) \/ AcceptExec(c)
    BY <1>0, <1>3, <2>0, <2>1 DEF AcceptCreate, StatRootfs, AcceptExec
  <2>2. CASE WriteConfig(c) \/ AwaitIO(c) \/ StartCleanup(c) \/ EndCleanup(c)
           \/ NewProc(c) \/ Undo(c) \/ TakeProc(c)
    BY <1>0, <1>3, <2>0, <2>2 DEF WriteConfig, AwaitIO, StartCleanup,
       EndCleanup, NewProc, Undo, TakeProc
  <2>3. CASE RuncCreate(c) \/ RuncDelete(c)
    BY <1>0, <1>3, <2>0, <2>3 DEF RuncCreate, RuncDelete
  <2>4. CASE CleanLast(c)  BY <1>0, <1>3, <2>0, <2>4 DEF CleanLast
  <2> QED
    BY <1>3, <2>1, <2>2, <2>3, <2>4
       DEF AgentStep, CreateStep, DeleteStep, CleanupStep
<1>4. CASE Forward
  BY <1>0, <1>4 DEF Forward, ServeStep, ServeStart, ServePause, ServeResume,
     ServeKill, SetStatus
<1>5. CASE UNCHANGED vars
  BY <1>0, <1>5 DEF vars
<1> QED
  BY <1>1, <1>2, <1>3, <1>4, <1>5 DEF Next

\* A drive is reserved for the first process of a task.
LEMMA ReserveInit ==
    ASSUME Inv, Types, NEW f \in Calls, hpc[f] = "reserve"
    PROVE  Key(f) \in Keys /\ IsInit(Key(f))
<1>1. ControlAt(f) /\ req[f].method \in Methods \cup {"none"}
  BY DEF Inv, ControlInv, Types
<1> QED
  BY <1>1 DEF ControlAt, IsCreate, IsExec, IsDelete, Methods, Types

\* A task that has an exec keeps it.
LEMMA ExecOfKept ==
    ASSUME Inv, Types, [Next]_vars, NEW t, NEW f \in Calls, IsExec(f), Task(f) = t
    PROVE  \E g \in Calls : req'[g].method = "exec" /\ Task(g)' = t
BY RequestsKept DEF IsExec, Task, Key

\* Every step keeps a bundle away that was removed by the cleanups.
LEMMA EmptiedStep ==
    ASSUME Inv, Types, [Next]_vars, NEW d \in Calls
    PROVE  EmptiedAt(d)'
<1> SUFFICES ASSUME IsCreate(d)', known'[Key(d)'] = d,
                    apc'[d] \in {"io", "undo", "served"}, cleanups'[Key(d)'] = << >>,
                    Task(d)' \in bundles'
             PROVE  \E g \in Calls : req'[g].method = "exec" /\ Task(g)' = Task(d)'
  BY DEF EmptiedAt, ExecOf, IsExec
<1>1. /\ Key(d)' = Key(d) /\ Task(d)' = Task(d) /\ IsCreate(d) /\ known[Key(d)] = d
      /\ apc[d] \in {"runc", "io", "undo", "served"}
  BY KnownCreate DEF Task
<1>2. /\ Key(d) \in Keys /\ IsInit(Key(d)) /\ Task(d) \in Tasks /\ Current(d)
      /\ Task(d) \in drives
  <2>1. Current(d)
    BY <1>1 DEF Current
  <2> QED
    BY <2>1, CurrentInit DEF Inv, TaskInv, CurrentDrive
<1>3. cleanups[Key(d)] = << >>
  <2>1. SUFFICES ASSUME cleanups'[Key(d)] # cleanups[Key(d)]
                 PROVE  FALSE
    BY <1>1
  <2>2. PICK f \in Calls :
           /\ Key(f) = Key(d)
           /\ AcceptCreate(f) \/ StatRootfs(f) \/ AcceptExec(f) \/ CleanLast(f)
    BY <1>2, <2>1, CleanupsChange
  <2>3. ASSUME NEW what \in {"bundle", "rootfs", "fifos"}, AddCleanup(f, what)
        PROVE  FALSE
    <3>1. cleanups[Key(d)] \in Seq(Entries) /\ [what |-> what, by |-> f] \in Entries
      BY <1>2 DEF Types, Entries
    <3>2. cleanups'[Key(d)] = Append(cleanups[Key(d)], [what |-> what, by |-> f])
      BY <1>2, <2>2, <2>3 DEF AddCleanup, Types
    <3> QED
      BY <1>1, <3>1, <3>2, HeadFacts
  <2>4. CASE CleanLast(f)
    <3>1. Task(f) = Task(d)
      BY <2>2 DEF Task
    <3>2. Task(d) \notin bundles' \/ \E g \in Calls : cleanups'[Key(d)] = <<BundleEntry(g)>>
      BY <1>2, <2>2, <2>4, <3>1, CleanInit
    <3> QED
      BY <1>1, <3>2, EntryTypes, PairFacts
  <2> QED
    BY <1>1, <2>1, <2>2, <2>3, <2>4 DEF AcceptCreate, StatRootfs, AcceptExec
<1>4. apc[d] # "runc"
  <2>1. SUFFICES ASSUME apc[d] = "runc"
                 PROVE  FALSE
    OBVIOUS
  <2>2. cleanups[Key(d)] = <<BundleEntry(d), RootfsEntry(d)>>
    BY <1>1, <2>1 DEF Inv, OwnInv, StageAt, Full, Running
  <2> QED
    BY <1>3, <2>2, EntryTypes, PairFacts
<1>5. Task(d) \notin bundles \/ ExecOf(Task(d))
  BY <1>1, <1>3, <1>4 DEF Inv, BundleInv, EmptiedAt
<1>6. \E f \in Calls : IsExec(f) /\ Task(f) = Task(d)
  BY <1>1, <1>2, <1>5, BundlesGrow DEF ExecOf, IsExec
<1> QED
  BY <1>1, <1>6, ExecOfKept

\* Every step keeps the bundle of a deleted task away.
LEMMA RemovedStep ==
    ASSUME Inv, Types, [Next]_vars, NEW d \in Calls
    PROVE  RemovedAt(d)'
<1> SUFFICES ASSUME hpc'[d] \in {"release", "unlink"}, Task(d)' \in bundles'
             PROVE  \E g \in Calls : req'[g].method = "exec" /\ Task(g)' = Task(d)'
  BY DEF RemovedAt, ExecOf, IsExec
<1>1. CASE hpc[d] \in {"release", "unlink"}
  <2>1. Deletes(d) /\ Key(d) \in Keys /\ IsInit(Key(d)) /\ Task(d) \in Tasks
    BY <1>1, ReleaseDeletes, CurrentInit
  <2>2. Task(d)' = Task(d)
    BY <2>1, RequestsKept DEF Deletes, IsDelete, Task, Key
  <2>3. ASSUME NEW f \in Calls, Task(f) = Task(d), hpc[f] = "reserve"
        PROVE  FALSE
    <3>1. Key(f) = Key(d)
      BY <2>1, <2>3, ReserveInit, SameInit DEF Task
    <3>2. SerialAt(f, d)
      BY DEF Inv, Serial
    <3> QED
      BY <1>1, <2>3, <3>1, <3>2 DEF SerialAt, Active, Over
  <2>4. \E f \in Calls : IsExec(f) /\ Task(f) = Task(d)
    BY <1>1, <2>1, <2>2, <2>3, BundlesGrow DEF Inv, BundleInv, RemovedAt, ExecOf, IsExec
  <2> QED
    BY <2>2, <2>4, ExecOfKept
<1>2. CASE HostTakeProc(d) /\ hpc[d] = "take" /\ IsInit(Key(d)) /\ known[Key(d)] # NoCall
  <2>1. ControlAt(d) /\ DeletesAt(d) /\ req[d].method \in Methods \cup {"none"}
    BY DEF Inv, ControlInv, TaskInv, Types
  <2>2. Key(d) \in Keys /\ Deletes(d) /\ IsDelete(d) /\ apc[d] = "served"
    BY <1>2, <2>1 DEF ControlAt, IsCreate, IsExec, IsDelete, Deletes, Methods, Types
  <2>3. cleanups[Key(d)] = << >>
    BY <2>1, <2>2 DEF DeletesAt
  <2>4. PICK c \in Calls : c = known[Key(d)] /\ IsCreate(c) /\ Key(c) = Key(d)
    BY <1>2, <2>2, RuncIsCurrent
  <2>5. ControlAt(c) /\ SerialAt(c, d) /\ KnownAt(Key(d), c) /\ EmptiedAt(c)
    BY <2>2 DEF Inv, ControlInv, Serial, KnownInv, BundleInv
  <2>6. hpc[c] = "created" /\ apc[c] = "served"
    BY <1>2, <2>2, <2>4, <2>5
       DEF KnownAt, ControlAt, SerialAt, Active, Over, IsCreate, IsDelete
  <2>7. Task(d) \notin bundles \/ ExecOf(Task(d))
    BY <2>3, <2>4, <2>5, <2>6 DEF EmptiedAt, Task
  <2>8. bundles' = bundles /\ Task(d)' = Task(d)
    BY <1>2 DEF HostTakeProc, agentVars, mountVars, Task, Key
  <2> QED
    BY <2>7, <2>8, ExecOfKept DEF ExecOf
<1> QED
  BY <1>1, <1>2, TakesRelease

-----------------------------------------------------------------------------
(* The execs.                                                              *)

\* A request about a process that was given up stays so.
LEMMA GivenUpKept ==
    ASSUME Inv, Types, [Next]_vars, gaveUp \subseteq gaveUp', NEW k, GivenUp(k)
    PROVE  \E f \in gaveUp' : Key(f)' = k
<1>1. PICK f \in gaveUp : Key(f) = k
  BY DEF GivenUp
<1>2. f \in Calls /\ ControlAt(f)
  BY DEF Inv, TypeInv, ControlInv
<1>3. Key(f)' = k
  BY <1>1, <1>2, RequestsKept DEF ControlAt, Key
<1> QED
  BY <1>1, <1>3

\* A request that was given up stays so.
LEMMA GaveUpGrows ==
    ASSUME Inv, Types, [Next]_vars
    PROVE  (gaveUp \subseteq gaveUp')
<1> USE DEF Types, Goto, GotoA, Key, Task, agentVars, hostVars, mountVars,
       cleanVars, runcVars
<1>1. ASSUME NEW c \in Calls, NEW method \in Methods, NEW k \in Keys,
             NEW io \in IOs(method), Call(c, method, k, io)
      PROVE  (gaveUp \subseteq gaveUp')
  <2>1. PICK to : CallTo(c, method, k, io, to)
    BY <1>1, CallFacts
  <2> QED
    BY <2>1 DEF CallTo
<1>2. ASSUME NEW c \in Calls, req[c] # Idle, HostStep(c)
      PROVE  (gaveUp \subseteq gaveUp')
  <2>0. Key(c) \in Keys
    BY <1>2 DEF Types, Key
  <2>1. CASE CreateLink(c) \/ GenerateExtraData(c) \/ CreateReturns(c)
           \/ DeleteReturns(c) \/ HostAwaitIO(c)
    BY <1>2, <2>0, <2>1 DEF CreateLink, GenerateExtraData, CreateReturns,
       DeleteReturns, HostAwaitIO
  <2>2. CASE Reserve(c) \/ Release(c) \/ Register(c)
    BY <1>2, <2>0, <2>2 DEF Reserve, Release, Register
  <2>3. CASE HostUndo(c) \/ HostTakeProc(c) \/ SendDelete(c) \/ Unlink(c)
    BY <1>2, <2>0, <2>3 DEF HostUndo, HostTakeProc, SendDelete, Unlink
  <2> QED
    BY <1>2, <2>1, <2>2, <2>3 DEF HostStep
<1>3. ASSUME NEW c \in Calls, req[c] # Idle, AgentStep(c), UNCHANGED hostVars
      PROVE  (gaveUp \subseteq gaveUp')
  <2>0. Key(c) \in Keys
    BY <1>3 DEF Types, Key
  <2>1. CASE AcceptCreate(c) \/ StatRootfs(c) \/ AcceptExec(c)
    BY <1>3, <2>0, <2>1 DEF AcceptCreate, StatRootfs, AcceptExec
  <2>2. CASE WriteConfig(c) \/ AwaitIO(c) \/ StartCleanup(c) \/ EndCleanup(c)
           \/ NewProc(c) \/ Undo(c) \/ TakeProc(c)
    BY <1>3, <2>0, <2>2 DEF WriteConfig, AwaitIO, StartCleanup, EndCleanup,
       NewProc, Undo, TakeProc
  <2>3. CASE RuncCreate(c) \/ RuncDelete(c)
    BY <1>3, <2>0, <2>3 DEF RuncCreate, RuncDelete
  <2>4. CASE CleanLast(c)  BY <1>3, <2>0, <2>4 DEF CleanLast
  <2> QED
    BY <1>3, <2>1, <2>2, <2>3, <2>4
       DEF AgentStep, CreateStep, DeleteStep, CleanupStep
<1>4. CASE Forward
  BY <1>4 DEF Forward, ServeStep, ServeStart, ServePause, ServeResume,
     ServeKill, SetStatus
<1>5. CASE UNCHANGED vars
  BY <1>5 DEF vars
<1> QED
  BY <1>1, <1>2, <1>3, <1>4, <1>5 DEF Next

\* A request that the agent works on, and that was not given up, is awaited.
LEMMA Awaited ==
    ASSUME Inv, Types, NEW c \in Calls, apc[c] \notin {"idle", "served", "failed"},
           ~GivenUp(Key(c))
    PROVE  /\ hpc[c] = "wait" /\ Key(c) \in Keys
           /\ IsCreate(c) \/ IsExec(c) => known[Key(c)] = c
           /\ IsCreate(c) \/ IsExec(c) \/ IsDelete(c)
<1>1. ControlAt(c) /\ RegisteredAt(c) /\ req[c].method \in Methods \cup {"none"}
  BY DEF Inv, ControlInv, Registered, Types
<1>2. hpc[c] = "wait"
  BY <1>1 DEF ControlAt, GivenUp
<1>3. req[c].method # "none"
  BY <1>1, <1>2 DEF ControlAt
<1> QED
  BY <1>1, <1>2, <1>3 DEF RegisteredAt, IsCreate, IsExec, IsDelete, Methods, Types

\* No other request does anything to the process of an exec.
LEMMA ExecAlone ==
    ASSUME Inv, Types, NEW c \in Calls, NEW d \in Calls, Serving(d), Key(c) = Key(d), c # d
    PROVE  apc[c] \in {"idle", "sent", "served", "failed"}
<1> SUFFICES ASSUME apc[c] \notin {"idle", "sent", "served", "failed"}
             PROVE  FALSE
  OBVIOUS
<1>1. /\ ControlAt(c) /\ ControlAt(d) /\ EndedAt(c) /\ SerialAt(c, d) /\ IsExec(d)
      /\ known[Key(d)] = d /\ ~GivenUp(Key(d))
  BY DEF Inv, ControlInv, ExecInv, Serial, Serving, Attached
<1>2. hpc[c] = "wait" /\ Key(c) \in Keys /\ IsDelete(c)
  BY <1>1, Awaited DEF ControlAt
<1>3. apc[c] \in Deleting
  BY <1>1, <1>2 DEF ControlAt
<1>4. runc[Key(d)] = NoCall
  BY <1>1, <1>2, <1>3 DEF EndedAt
<1>5. apc[d] = "runc"
  BY <1>4, NoCallAssumption DEF Serving, Attached
<1>6. hpc[d] = "wait"
  BY <1>1, <1>5, Awaited
<1> QED
  BY <1>1, <1>2, <1>6 DEF SerialAt, Active, Over

\* The task of an exec is created once more.
LEMMA AgainDeleted ==
    ASSUME Inv, Types, NEW c \in Calls, NEW d \in Calls, IsExec(d), IsCreate(c),
           Key(c) = InitOf(Key(d)), apc[c] \notin {"idle", "served"}
    PROVE  Deleted(Task(d))
<1>1. PICK e \in Calls : IsCreate(e) /\ Key(e) = InitOf(Key(d)) /\ hpc[e] = "created"
  BY DEF Inv, DeletedInv, ToldAt
<1>2. ControlAt(e) /\ AgainAt(c, e)
  BY DEF Inv, ControlInv, DeletedInv
<1>3. apc[e] = "served"
  BY <1>1, <1>2 DEF ControlAt
<1>4. Deleted(Task(c))
  BY <1>1, <1>2, <1>3 DEF AgainAt, Reserved
<1>5. Task(c) = Task(d)
  BY DEF Task, InitOf, TaskOf
<1> QED
  BY <1>4, <1>5

\* An exec comes to its process by NewProc.
LEMMA AttachedKept ==
    ASSUME Inv, Types, [Next]_vars, NEW d \in Calls
    PROVE  (Attached(d)' =>
               /\ Key(d)' = Key(d) /\ IsExec(d) /\ HasStreams(d)' = HasStreams(d)
               /\ \/ Attached(d)
                  \/ managed'[Key(d)] = d /\ (HasStreams(d) => d \in fifos'))
<1>0. ControlAt(d)
  BY DEF Inv, ControlInv
<1> USE NoCallAssumption DEF Types, Attached, HasStreams, ControlAt, Methods,
       IsCreate, IsExec, IsDelete, Over, CreateActive, ExecActive, Deleting,
       Goto, GotoA, Key, Task, agentVars, hostVars, mountVars, cleanVars,
       runcVars
<1>1. ASSUME NEW c \in Calls, NEW method \in Methods, NEW k \in Keys,
             NEW io \in IOs(method), Call(c, method, k, io)
      PROVE  (Attached(d)' =>
               /\ Key(d)' = Key(d) /\ IsExec(d) /\ HasStreams(d)' = HasStreams(d)
               /\ \/ Attached(d)
                  \/ managed'[Key(d)] = d /\ (HasStreams(d) => d \in fifos'))
  <2>0. ControlAt(c)
    BY DEF Inv, ControlInv
  <2>1. PICK to : CallTo(c, method, k, io, to)
    BY <1>1, CallFacts
  <2> QED
    BY <1>0, <2>0, <2>1 DEF CallTo
<1>2. ASSUME NEW c \in Calls, req[c] # Idle, HostStep(c)
      PROVE  (Attached(d)' =>
               /\ Key(d)' = Key(d) /\ IsExec(d) /\ HasStreams(d)' = HasStreams(d)
               /\ \/ Attached(d)
                  \/ managed'[Key(d)] = d /\ (HasStreams(d) => d \in fifos'))
  <2>0. /\ ControlAt(c) /\ Key(c) \in Keys
    BY <1>2 DEF Inv, ControlInv
  <2>1. CASE CreateLink(c) \/ GenerateExtraData(c) \/ CreateReturns(c)
           \/ DeleteReturns(c) \/ HostAwaitIO(c)
    BY <1>0, <1>2, <2>0, <2>1 DEF CreateLink, GenerateExtraData,
       CreateReturns, DeleteReturns, HostAwaitIO
  <2>2. CASE Reserve(c) \/ Release(c) \/ Register(c)
    BY <1>0, <1>2, <2>0, <2>2, RegisterFacts DEF Reserve, Release,
       RegisterEffect
  <2>3. CASE HostUndo(c) \/ HostTakeProc(c) \/ SendDelete(c) \/ Unlink(c)
    BY <1>0, <1>2, <2>0, <2>3 DEF HostUndo, HostTakeProc, SendDelete, Unlink
  <2> QED
    BY <1>2, <2>1, <2>2, <2>3 DEF HostStep
<1>3. ASSUME NEW c \in Calls, req[c] # Idle, AgentStep(c), UNCHANGED hostVars
      PROVE  (Attached(d)' =>
               /\ Key(d)' = Key(d) /\ IsExec(d) /\ HasStreams(d)' = HasStreams(d)
               /\ \/ Attached(d)
                  \/ managed'[Key(d)] = d /\ (HasStreams(d) => d \in fifos'))
  <2>0. /\ ControlAt(c) /\ Key(c) \in Keys
    BY <1>3 DEF Inv, ControlInv
  <2>1. CASE AcceptCreate(c) \/ StatRootfs(c) \/ AcceptExec(c)
    BY <1>0, <1>3, <2>0, <2>1 DEF AcceptCreate, StatRootfs, AcceptExec
  <2>2. CASE WriteConfig(c) \/ AwaitIO(c) \/ StartCleanup(c) \/ EndCleanup(c)
           \/ NewProc(c) \/ Undo(c) \/ TakeProc(c)
    BY <1>0, <1>3, <2>0, <2>2, NewProcFacts DEF WriteConfig, AwaitIO,
       StartCleanup, EndCleanup, NewProcEffect, Undo, TakeProc
  <2>3. CASE RuncCreate(c)
    <3>1. CASE RuncCreates(c)
      BY <1>0, <1>3, <2>0, <3>1 DEF RuncCreates
    <3>2. CASE RuncCreateFails(c)
      BY <1>0, <1>3, <2>0, <3>2 DEF RuncCreateFails
    <3> QED
      BY <2>3, <3>1, <3>2, RuncCreateFacts DEF RuncCreateEffect
  <2>4. CASE RuncDelete(c)
    BY <1>0, <1>3, <2>0, <2>4, RuncDeleteFacts DEF RuncDeleteEffect
  <2>5. CASE CleanLast(c)  BY <1>0, <1>3, <2>0, <2>5 DEF CleanLast
  <2> QED
    BY <1>3, <2>1, <2>2, <2>3, <2>4, <2>5
       DEF AgentStep, CreateStep, DeleteStep, CleanupStep
<1>4. CASE Forward
  BY <1>0, <1>4 DEF Forward, ServeStep, ServeStart, ServePause, ServeResume,
     ServeKill, SetStatus
<1>5. CASE UNCHANGED vars
  BY <1>0, <1>5 DEF vars
<1> QED
  BY <1>1, <1>2, <1>3, <1>4, <1>5 DEF Next

\* The process of an exec stays managed.
LEMMA ManagedKept ==
    ASSUME Inv, Types, [Next]_vars, NEW d \in Calls, Serving(d), Attached(d)'
    PROVE  (managed[Key(d)] = d => managed'[Key(d)] = d)
<1>0. /\ Attached(d) /\ ControlAt(d) /\ Key(d) \in Keys
  BY DEF Inv, Serving, Attached, IsExec, Types, Key, ControlInv
<1> USE NoCallAssumption DEF Types, Attached, ControlAt, Methods, IsCreate,
       IsExec, IsDelete, Over, CreateActive, ExecActive, Deleting, Goto,
       GotoA, Key, Task, agentVars, hostVars, mountVars, cleanVars, runcVars
<1>1. ASSUME NEW c \in Calls, NEW method \in Methods, NEW k \in Keys,
             NEW io \in IOs(method), Call(c, method, k, io)
      PROVE  (managed[Key(d)] = d => managed'[Key(d)] = d)
  <2>1. PICK to : CallTo(c, method, k, io, to)
    BY <1>1, CallFacts
  <2> QED
    BY <1>0, <2>1 DEF CallTo
<1>2. ASSUME NEW c \in Calls, req[c] # Idle, HostStep(c)
      PROVE  (managed[Key(d)] = d => managed'[Key(d)] = d)
  <2>0. /\ (Key(c) = Key(d) /\ c # d => apc[c] \in {"idle", "sent", "served", "failed"})
        /\ ControlAt(c) /\ Key(c) \in Keys
    BY <1>2, ExecAlone DEF Inv, Serving, Attached, IsExec, Types, Key,
           ControlInv
  <2>1. CASE CreateLink(c) \/ GenerateExtraData(c) \/ CreateReturns(c)
           \/ DeleteReturns(c) \/ HostAwaitIO(c)
    BY <1>0, <1>2, <2>0, <2>1 DEF CreateLink, GenerateExtraData,
       CreateReturns, DeleteReturns, HostAwaitIO
  <2>2. CASE Reserve(c) \/ Release(c) \/ Register(c)
    BY <1>0, <1>2, <2>0, <2>2 DEF Reserve, Release, Register
  <2>3. CASE HostUndo(c) \/ HostTakeProc(c) \/ SendDelete(c) \/ Unlink(c)
    BY <1>0, <1>2, <2>0, <2>3 DEF HostUndo, HostTakeProc, SendDelete, Unlink
  <2> QED
    BY <1>2, <2>1, <2>2, <2>3 DEF HostStep
<1>3. ASSUME NEW c \in Calls, req[c] # Idle, AgentStep(c), UNCHANGED hostVars
      PROVE  (managed[Key(d)] = d => managed'[Key(d)] = d)
  <2>0. /\ (Key(c) = Key(d) /\ c # d => apc[c] \in {"idle", "sent", "served", "failed"})
        /\ ControlAt(c) /\ Key(c) \in Keys
    BY <1>3, ExecAlone DEF Inv, Serving, Attached, IsExec, Types, Key,
           ControlInv
  <2>1. CASE AcceptCreate(c) \/ StatRootfs(c) \/ AcceptExec(c)
    BY <1>0, <1>3, <2>0, <2>1 DEF AcceptCreate, StatRootfs, AcceptExec
  <2>2. CASE WriteConfig(c) \/ AwaitIO(c) \/ StartCleanup(c) \/ EndCleanup(c)
           \/ NewProc(c) \/ Undo(c) \/ TakeProc(c)
    BY <1>0, <1>3, <2>0, <2>2, NewProcFacts DEF WriteConfig, AwaitIO,
       StartCleanup, EndCleanup, NewProcEffect, Undo, TakeProc
  <2>3. CASE RuncCreate(c) \/ RuncDelete(c)
    BY <1>0, <1>3, <2>0, <2>3 DEF RuncCreate, RuncDelete
  <2>4. CASE CleanLast(c)  BY <1>0, <1>3, <2>0, <2>4 DEF CleanLast
  <2> QED
    BY <1>3, <2>1, <2>2, <2>3, <2>4
       DEF AgentStep, CreateStep, DeleteStep, CleanupStep
<1>4. CASE Forward
  BY <1>0, <1>4 DEF Forward, ServeStep, ServeStart, ServePause, ServeResume,
     ServeKill, SetStatus
<1>5. CASE UNCHANGED vars
  BY <1>0, <1>5 DEF vars
<1> QED
  BY <1>1, <1>2, <1>3, <1>4, <1>5 DEF Next

\* FIFOs are removed by cleanups only.
LEMMA FifosLost ==
    ASSUME Inv, Types, [Next]_vars, NEW d \in Calls
    PROVE  (d \in fifos => d \in fifos' \/ \E f \in Calls : CleanLast(f) /\ Key(f) \in Keys)
<1> USE DEF Types, Goto, GotoA, Key, Task, agentVars, hostVars, mountVars,
       cleanVars, runcVars
<1>1. ASSUME NEW c \in Calls, NEW method \in Methods, NEW k \in Keys,
             NEW io \in IOs(method), Call(c, method, k, io)
      PROVE  (d \in fifos => d \in fifos' \/ \E f \in Calls : CleanLast(f) /\ Key(f) \in Keys)
  <2>1. PICK to : CallTo(c, method, k, io, to)
    BY <1>1, CallFacts
  <2> QED
    BY <2>1 DEF CallTo
<1>2. ASSUME NEW c \in Calls, req[c] # Idle, HostStep(c)
      PROVE  (d \in fifos => d \in fifos' \/ \E f \in Calls : CleanLast(f) /\ Key(f) \in Keys)
  <2>0. Key(c) \in Keys
    BY <1>2 DEF Types, Key
  <2>1. CASE CreateLink(c) \/ GenerateExtraData(c) \/ CreateReturns(c)
           \/ DeleteReturns(c) \/ HostAwaitIO(c)
    BY <1>2, <2>0, <2>1 DEF CreateLink, GenerateExtraData, CreateReturns,
       DeleteReturns, HostAwaitIO
  <2>2. CASE Reserve(c) \/ Release(c) \/ Register(c)
    BY <1>2, <2>0, <2>2 DEF Reserve, Release, Register
  <2>3. CASE HostUndo(c) \/ HostTakeProc(c) \/ SendDelete(c) \/ Unlink(c)
    BY <1>2, <2>0, <2>3 DEF HostUndo, HostTakeProc, SendDelete, Unlink
  <2> QED
    BY <1>2, <2>1, <2>2, <2>3 DEF HostStep
<1>3. ASSUME NEW c \in Calls, req[c] # Idle, AgentStep(c), UNCHANGED hostVars
      PROVE  (d \in fifos => d \in fifos' \/ \E f \in Calls : CleanLast(f) /\ Key(f) \in Keys)
  <2>0. Key(c) \in Keys
    BY <1>3 DEF Types, Key
  <2>1. CASE AcceptCreate(c) \/ StatRootfs(c) \/ AcceptExec(c)
    BY <1>3, <2>0, <2>1 DEF AcceptCreate, StatRootfs, AcceptExec
  <2>2. CASE WriteConfig(c) \/ AwaitIO(c) \/ StartCleanup(c) \/ EndCleanup(c)
           \/ NewProc(c) \/ Undo(c) \/ TakeProc(c)
    BY <1>3, <2>0, <2>2 DEF WriteConfig, AwaitIO, StartCleanup, EndCleanup,
       NewProc, Undo, TakeProc
  <2>3. CASE RuncCreate(c) \/ RuncDelete(c)
    BY <1>3, <2>0, <2>3 DEF RuncCreate, RuncDelete
  <2>4. CASE CleanLast(c)  BY <1>3, <2>0, <2>4 DEF CleanLast
  <2> QED
    BY <1>3, <2>1, <2>2, <2>3, <2>4
       DEF AgentStep, CreateStep, DeleteStep, CleanupStep
<1>4. CASE Forward
  BY <1>4 DEF Forward, ServeStep, ServeStart, ServePause, ServeResume,
     ServeKill, SetStatus
<1>5. CASE UNCHANGED vars
  BY <1>5 DEF vars
<1> QED
  BY <1>1, <1>2, <1>3, <1>4, <1>5 DEF Next

\* runc has a process after RuncCreate.
LEMMA RuncByCreate ==
    ASSUME Inv, Types, [Next]_vars, NEW j \in Keys
    PROVE  (runc[j] = NoCall /\ runc'[j] # NoCall =>
               \E f \in Calls : Key(f) = j /\ apc[f] = "runc")
<1> USE NoCallAssumption DEF Types, Goto, GotoA, Key, Task, agentVars,
       hostVars, mountVars, cleanVars, runcVars
<1>1. ASSUME NEW c \in Calls, NEW method \in Methods, NEW k \in Keys,
             NEW io \in IOs(method), Call(c, method, k, io)
      PROVE  (runc[j] = NoCall /\ runc'[j] # NoCall =>
               \E f \in Calls : Key(f) = j /\ apc[f] = "runc")
  <2>1. PICK to : CallTo(c, method, k, io, to)
    BY <1>1, CallFacts
  <2> QED
    BY <2>1 DEF CallTo
<1>2. ASSUME NEW c \in Calls, req[c] # Idle, HostStep(c)
      PROVE  (runc[j] = NoCall /\ runc'[j] # NoCall =>
               \E f \in Calls : Key(f) = j /\ apc[f] = "runc")
  <2>0. Key(c) \in Keys
    BY <1>2 DEF Types, Key
  <2>1. CASE CreateLink(c) \/ GenerateExtraData(c) \/ CreateReturns(c)
           \/ DeleteReturns(c) \/ HostAwaitIO(c)
    BY <1>2, <2>0, <2>1 DEF CreateLink, GenerateExtraData, CreateReturns,
       DeleteReturns, HostAwaitIO
  <2>2. CASE Reserve(c) \/ Release(c) \/ Register(c)
    BY <1>2, <2>0, <2>2 DEF Reserve, Release, Register
  <2>3. CASE HostUndo(c) \/ HostTakeProc(c) \/ SendDelete(c) \/ Unlink(c)
    BY <1>2, <2>0, <2>3 DEF HostUndo, HostTakeProc, SendDelete, Unlink
  <2> QED
    BY <1>2, <2>1, <2>2, <2>3 DEF HostStep
<1>3. ASSUME NEW c \in Calls, req[c] # Idle, AgentStep(c), UNCHANGED hostVars
      PROVE  (runc[j] = NoCall /\ runc'[j] # NoCall =>
               \E f \in Calls : Key(f) = j /\ apc[f] = "runc")
  <2>0. Key(c) \in Keys
    BY <1>3 DEF Types, Key
  <2>1. CASE AcceptCreate(c) \/ StatRootfs(c) \/ AcceptExec(c)
    BY <1>3, <2>0, <2>1 DEF AcceptCreate, StatRootfs, AcceptExec
  <2>2. CASE WriteConfig(c) \/ AwaitIO(c) \/ StartCleanup(c) \/ EndCleanup(c)
           \/ NewProc(c) \/ Undo(c) \/ TakeProc(c)
    BY <1>3, <2>0, <2>2 DEF WriteConfig, AwaitIO, StartCleanup, EndCleanup,
       NewProc, Undo, TakeProc
  <2>3. CASE RuncCreate(c) \/ RuncDelete(c)
    BY <1>3, <2>0, <2>3, RuncCreateFacts, RuncDeleteFacts DEF
       RuncCreateEffect, RuncCreates, RuncCreateFails, RuncDeleteEffect
  <2>4. CASE CleanLast(c)  BY <1>3, <2>0, <2>4 DEF CleanLast
  <2> QED
    BY <1>3, <2>1, <2>2, <2>3, <2>4
       DEF AgentStep, CreateStep, DeleteStep, CleanupStep
<1>4. CASE Forward
  BY <1>4 DEF Forward, ServeStep, ServeStart, ServePause, ServeResume,
     ServeKill, SetStatus
<1>5. CASE UNCHANGED vars
  BY <1>5 DEF vars
<1> QED
  BY <1>1, <1>2, <1>3, <1>4, <1>5 DEF Next

\* runc executes nothing in a task that it does not have.
LEMMA RuncWaits ==
    ASSUME Inv, Types, [Next]_vars, NEW d \in Calls
    PROVE  (IsExec(d) /\ apc[d] = "runc" /\ runc[InitOf(Key(d))] = NoCall =>
               apc'[d] \in {"runc", "undo"})
<1>0. ControlAt(d)
  BY DEF Inv, ControlInv
<1> USE DEF Types, InitOf, IsInit, TaskOf, ControlAt, Methods, IsCreate,
       IsExec, IsDelete, Over, CreateActive, ExecActive, Deleting, Goto,
       GotoA, Key, Task, agentVars, hostVars, mountVars, cleanVars, runcVars
<1>1. ASSUME NEW c \in Calls, NEW method \in Methods, NEW k \in Keys,
             NEW io \in IOs(method), Call(c, method, k, io)
      PROVE  (IsExec(d) /\ apc[d] = "runc" /\ runc[InitOf(Key(d))] = NoCall =>
               apc'[d] \in {"runc", "undo"})
  <2>0. ControlAt(c)
    BY DEF Inv, ControlInv
  <2>1. PICK to : CallTo(c, method, k, io, to)
    BY <1>1, CallFacts
  <2> QED
    BY <1>0, <2>0, <2>1 DEF CallTo
<1>2. ASSUME NEW c \in Calls, req[c] # Idle, HostStep(c)
      PROVE  (IsExec(d) /\ apc[d] = "runc" /\ runc[InitOf(Key(d))] = NoCall =>
               apc'[d] \in {"runc", "undo"})
  <2>0. /\ ControlAt(c) /\ Key(c) \in Keys
    BY <1>2 DEF Inv, ControlInv
  <2>1. CASE CreateLink(c) \/ GenerateExtraData(c) \/ CreateReturns(c)
           \/ DeleteReturns(c) \/ HostAwaitIO(c)
    BY <1>0, <1>2, <2>0, <2>1 DEF CreateLink, GenerateExtraData,
       CreateReturns, DeleteReturns, HostAwaitIO
  <2>2. CASE Reserve(c) \/ Release(c) \/ Register(c)
    BY <1>0, <1>2, <2>0, <2>2 DEF Reserve, Release, Register
  <2>3. CASE HostUndo(c) \/ HostTakeProc(c) \/ SendDelete(c) \/ Unlink(c)
    BY <1>0, <1>2, <2>0, <2>3 DEF HostUndo, HostTakeProc, SendDelete, Unlink
  <2> QED
    BY <1>2, <2>1, <2>2, <2>3 DEF HostStep
<1>3. ASSUME NEW c \in Calls, req[c] # Idle, AgentStep(c), UNCHANGED hostVars
      PROVE  (IsExec(d) /\ apc[d] = "runc" /\ runc[InitOf(Key(d))] = NoCall =>
               apc'[d] \in {"runc", "undo"})
  <2>0. /\ ControlAt(c) /\ Key(c) \in Keys
    BY <1>3 DEF Inv, ControlInv
  <2>1. CASE AcceptCreate(c) \/ StatRootfs(c) \/ AcceptExec(c)
    BY <1>0, <1>3, <2>0, <2>1 DEF AcceptCreate, StatRootfs, AcceptExec
  <2>2. CASE WriteConfig(c) \/ AwaitIO(c) \/ StartCleanup(c) \/ EndCleanup(c)
           \/ NewProc(c) \/ Undo(c) \/ TakeProc(c)
    BY <1>0, <1>3, <2>0, <2>2 DEF WriteConfig, AwaitIO, StartCleanup,
       EndCleanup, NewProc, Undo, TakeProc
  <2>3. CASE RuncCreate(c) \/ RuncDelete(c)
    BY <1>0, <1>3, <2>0, <2>3 DEF RuncCreate, RuncDelete
  <2>4. CASE CleanLast(c)  BY <1>0, <1>3, <2>0, <2>4 DEF CleanLast
  <2> QED
    BY <1>3, <2>1, <2>2, <2>3, <2>4
       DEF AgentStep, CreateStep, DeleteStep, CleanupStep
<1>4. CASE Forward
  BY <1>0, <1>4 DEF Forward, ServeStep, ServeStart, ServePause, ServeResume,
     ServeKill, SetStatus
<1>5. CASE UNCHANGED vars
  BY <1>0, <1>5 DEF vars
<1> QED
  BY <1>1, <1>2, <1>3, <1>4, <1>5 DEF Next

\* An exec loses its FIFOs only with its task.
LEMMA FifosAttached ==
    ASSUME Inv, Types, [Next]_vars, NEW d \in Calls, Serving(d), d \in fifos, d \notin fifos'
    PROVE  \/ Deleted(Task(d))
           \/ apc[d] = "runc" /\ apc'[d] = "runc" /\ runc'[InitOf(Key(d))] = NoCall
<1>1. PICK c \in Calls : CleanLast(c) /\ Key(c) \in Keys
  BY FifosLost
<1>2. /\ apc[c] \in {"cleanFail", "cleanDone"} /\ apc' = apc /\ runc' = runc
      /\ ControlAt(c) /\ ControlAt(d)
  BY <1>1 DEF CleanLast, Inv, ControlInv, AgentInv, CleanerAt, runcVars
<1>3. IsExec(d) /\ Key(d) \in Keys /\ ~IsInit(Key(d))
  BY <1>2 DEF Serving, Attached, IsExec, ControlAt, Types
<1>4. CASE ~IsInit(Key(c))
  <2>1. PICK f \in Calls : Key(f) = Key(c) /\ fifos' = fifos \ {f}
    BY <1>1, <1>4, CleanExec
  <2>2. Key(c) = Key(d)
    BY <2>1
  <2>3. c = d
    BY <1>2, <2>2, ExecAlone
  <2> QED
    BY <1>2, <2>3 DEF Serving, Attached
<1>5. CASE IsInit(Key(c))
  <2>1. Task(c) = Task(d)
    BY <1>1, <1>5, CleanInit
  <2>2. Key(c) = InitOf(Key(d))
    <3>1. /\ InitOf(Key(d)) \in Keys /\ IsInit(InitOf(Key(d)))
          /\ TaskOf(InitOf(Key(d))) = TaskOf(Key(d))
      BY <1>3, KeyFacts
    <3> QED
      BY <1>1, <1>5, <2>1, <3>1, SameInit DEF Task
  <2>3. IsCreate(c) \/ IsDelete(c)
    BY <1>2, <1>5 DEF ControlAt, IsCreate, IsDelete, IsExec, ExecActive, CreateActive, Deleting,
       Types, Methods
  <2>4. CASE IsCreate(c)
    BY <1>2, <1>3, <2>2, <2>4, AgainDeleted
  <2>5. CASE IsDelete(c)
    <3>1. Deletes(c)
      BY <1>2, <1>5, <2>5 DEF Deletes, ControlAt, Deleting, IsDelete
    <3>2. runc[Key(c)] = NoCall
      BY <3>1 DEF Inv, TaskInv, DeletesAt
    <3>3. ParentAt(Key(d))
      BY <1>3 DEF Inv, AgentInv
    <3>4. runc[Key(d)] = NoCall
      BY <2>2, <3>2, <3>3 DEF ParentAt
    <3> QED
      BY <1>2, <2>2, <3>2, <3>4, NoCallAssumption DEF Serving, Attached
  <2> QED
    BY <2>3, <2>4, <2>5
<1> QED
  BY <1>4, <1>5

\* Every step keeps the process and the FIFOs of an exec.
LEMMA ServingStep ==
    ASSUME Inv, Types, [Next]_vars, NEW d \in Calls
    PROVE  ServingAt(d)'
<1> SUFFICES ASSUME Attached(d)', ~\E f \in gaveUp' : Key(f)' = Key(d)'
             PROVE  /\ managed'[Key(d)'] = d
                    /\ HasStreams(d)' =>
                          \/ d \in fifos'
                          \/ \E f \in Calls :
                                /\ req'[f].method = "delete" /\ apc'[f] = "served"
                                /\ Key(f)' = <<Task(d)', Init0>>
                          \/ apc'[d] = "runc" /\ runc'[InitOf(Key(d)')] = NoCall
  BY DEF ServingAt, Serving, GivenUp, FifosKept, Deleted, InitOf, TaskOf
<1>1. /\ Key(d)' = Key(d) /\ Task(d)' = Task(d) /\ IsExec(d) /\ HasStreams(d)' = HasStreams(d)
      /\ \/ Attached(d)
         \/ managed'[Key(d)] = d /\ (HasStreams(d) => d \in fifos')
  BY AttachedKept DEF Task
<1>2. CASE Attached(d)
  <2>1. Serving(d) /\ ServingAt(d) /\ Key(d) \in Keys
    BY <1>1, <1>2, GivenUpKept, GaveUpGrows DEF Serving, Inv, ExecInv, IsExec, Types
  <2>2. managed'[Key(d)] = d
    BY <2>1, ManagedKept DEF ServingAt
  <2>3. CASE Deleted(Task(d))
    BY <1>1, <2>2, <2>3, DeletedKept
  <2>4. CASE d \in fifos
    BY <1>1, <2>1, <2>2, <2>3, <2>4, FifosAttached
  <2>5. CASE apc[d] = "runc" /\ runc[InitOf(Key(d))] = NoCall
    <3>1. apc'[d] = "runc"
      BY <1>1, <2>5, RuncWaits DEF Attached
    <3>2. InitOf(Key(d)) \in Keys /\ IsInit(InitOf(Key(d)))
      BY <2>1, KeyFacts
    <3>3. ASSUME NEW f \in Calls, Key(f) = InitOf(Key(d)), apc[f] = "runc"
          PROVE  Deleted(Task(d))
      <4>1. ControlAt(f) /\ req[f].method \in Methods \cup {"none"}
        BY DEF Inv, ControlInv, Types
      <4>2. IsCreate(f)
        BY <3>2, <3>3, <4>1 DEF ControlAt, IsCreate, IsExec, IsDelete, Deleting, Methods
      <4> QED
        BY <1>1, <3>3, <4>2, AgainDeleted
    <3>4. runc'[InitOf(Key(d))] = NoCall \/ Deleted(Task(d))
      BY <2>5, <3>2, <3>3, RuncByCreate
    <3> QED
      BY <1>1, <2>2, <2>3, <3>1, <3>4
  <2> QED
    BY <1>1, <2>1, <2>2, <2>3, <2>4, <2>5 DEF ServingAt, FifosKept
<1> QED
  BY <1>1, <1>2

\* A Delete begins with runc.
LEMMA DeletingFrom ==
    ASSUME Inv, Types, [Next]_vars, NEW d \in Calls
    PROVE  (IsDelete(d)' /\ apc'[d] \in Deleting =>
               /\ Key(d)' = Key(d) /\ IsDelete(d)
               /\ apc[d] \in Deleting \/ (RuncDelete(d) /\ apc'[d] = "take"))
<1>0. ControlAt(d)
  BY DEF Inv, ControlInv
<1> USE DEF Types, ControlAt, Methods, IsCreate, IsExec, IsDelete, Over,
       CreateActive, ExecActive, Deleting, Goto, GotoA, Key, Task, agentVars,
       hostVars, mountVars, cleanVars, runcVars
<1>1. ASSUME NEW c \in Calls, NEW method \in Methods, NEW k \in Keys,
             NEW io \in IOs(method), Call(c, method, k, io)
      PROVE  (IsDelete(d)' /\ apc'[d] \in Deleting =>
               /\ Key(d)' = Key(d) /\ IsDelete(d)
               /\ apc[d] \in Deleting \/ (RuncDelete(d) /\ apc'[d] = "take"))
  <2>0. ControlAt(c)
    BY DEF Inv, ControlInv
  <2>1. PICK to : CallTo(c, method, k, io, to)
    BY <1>1, CallFacts
  <2> QED
    BY <1>0, <2>0, <2>1 DEF CallTo
<1>2. ASSUME NEW c \in Calls, req[c] # Idle, HostStep(c)
      PROVE  (IsDelete(d)' /\ apc'[d] \in Deleting =>
               /\ Key(d)' = Key(d) /\ IsDelete(d)
               /\ apc[d] \in Deleting \/ (RuncDelete(d) /\ apc'[d] = "take"))
  <2>0. /\ ControlAt(c) /\ Key(c) \in Keys
    BY <1>2 DEF Inv, ControlInv
  <2>1. CASE CreateLink(c) \/ GenerateExtraData(c) \/ CreateReturns(c)
           \/ DeleteReturns(c) \/ HostAwaitIO(c)
    BY <1>0, <1>2, <2>0, <2>1 DEF CreateLink, GenerateExtraData,
       CreateReturns, DeleteReturns, HostAwaitIO
  <2>2. CASE Reserve(c) \/ Release(c) \/ Register(c)
    BY <1>0, <1>2, <2>0, <2>2 DEF Reserve, Release, Register
  <2>3. CASE HostUndo(c) \/ HostTakeProc(c) \/ SendDelete(c) \/ Unlink(c)
    BY <1>0, <1>2, <2>0, <2>3 DEF HostUndo, HostTakeProc, SendDelete, Unlink
  <2> QED
    BY <1>2, <2>1, <2>2, <2>3 DEF HostStep
<1>3. ASSUME NEW c \in Calls, req[c] # Idle, AgentStep(c), UNCHANGED hostVars
      PROVE  (IsDelete(d)' /\ apc'[d] \in Deleting =>
               /\ Key(d)' = Key(d) /\ IsDelete(d)
               /\ apc[d] \in Deleting \/ (RuncDelete(d) /\ apc'[d] = "take"))
  <2>0. /\ ControlAt(c) /\ Key(c) \in Keys
    BY <1>3 DEF Inv, ControlInv
  <2>1. CASE AcceptCreate(c) \/ StatRootfs(c) \/ AcceptExec(c)
    BY <1>0, <1>3, <2>0, <2>1 DEF AcceptCreate, StatRootfs, AcceptExec
  <2>2. CASE WriteConfig(c) \/ AwaitIO(c) \/ StartCleanup(c) \/ EndCleanup(c)
           \/ NewProc(c) \/ Undo(c) \/ TakeProc(c)
    BY <1>0, <1>3, <2>0, <2>2 DEF WriteConfig, AwaitIO, StartCleanup,
       EndCleanup, NewProc, Undo, TakeProc
  <2>3. CASE RuncCreate(c) \/ RuncDelete(c)
    BY <1>0, <1>3, <2>0, <2>3 DEF RuncCreate, RuncDelete
  <2>4. CASE CleanLast(c)  BY <1>0, <1>3, <2>0, <2>4 DEF CleanLast
  <2> QED
    BY <1>3, <2>1, <2>2, <2>3, <2>4
       DEF AgentStep, CreateStep, DeleteStep, CleanupStep
<1>4. CASE Forward
  BY <1>0, <1>4 DEF Forward, ServeStep, ServeStart, ServePause, ServeResume,
     ServeKill, SetStatus
<1>5. CASE UNCHANGED vars
  BY <1>0, <1>5 DEF vars
<1> QED
  BY <1>1, <1>2, <1>3, <1>4, <1>5 DEF Next

\* Every step keeps what a Delete has taken from runc away.
LEMMA EndedStep ==
    ASSUME Inv, Types, [Next]_vars, NEW d \in Calls
    PROVE  EndedAt(d)'
<1> SUFFICES ASSUME IsDelete(d)', apc'[d] \in Deleting, ~\E f \in gaveUp' : Key(f)' = Key(d)'
             PROVE  runc'[Key(d)'] = NoCall
  BY DEF EndedAt, GivenUp, Deleting
<1>1. Key(d)' = Key(d) /\ IsDelete(d) /\ ~GivenUp(Key(d)) /\ Key(d) \in Keys
  BY DeletingFrom, GivenUpKept, GaveUpGrows DEF IsDelete, Types
<1>2. CASE RuncDelete(d) /\ apc'[d] = "take"
  BY <1>1, <1>2 DEF RuncDelete, GotoA, Siblings, Types
<1>3. CASE apc[d] \in Deleting
  <2>1. runc[Key(d)] = NoCall /\ hpc[d] = "wait"
    BY <1>1, <1>3, Awaited DEF Inv, ExecInv, EndedAt, Deleting
  <2>2. ASSUME NEW f \in Calls, Key(f) = Key(d), apc[f] = "runc"
        PROVE  FALSE
    <3>1. hpc[f] = "wait" /\ SerialAt(f, d)
      BY <1>1, <2>2, Awaited DEF Inv, Serial
    <3>2. f = d
      BY <2>1, <2>2, <3>1 DEF SerialAt, Active, Over
    <3> QED
      BY <1>3, <2>2, <3>2 DEF Deleting
  <2> QED
    BY <1>1, <2>1, <2>2, RuncByCreate
<1> QED
  BY <1>2, <1>3, DeletingFrom

-----------------------------------------------------------------------------
(* The invariant is inductive.                                             *)

\* It holds at first.
LEMMA InitInv == Init => Inv
<1> SUFFICES ASSUME Init
             PROVE  Inv
  OBVIOUS
<1>1. /\ \A c \in Calls : /\ hpc[c] = "idle" /\ apc[c] = "idle" /\ req[c] = Idle
                          /\ req[c].method = "none" /\ ports[c] = {}
      /\ \A k \in Keys : /\ known[k] = NoCall /\ managed[k] = NoCall /\ runc[k] = NoCall
                         /\ status[k] = "none" /\ cleanups[k] = << >>
  BY DEF Init, AgentInit, Idle
<1>2. /\ mounted = {} /\ bundles = {} /\ fifos = {} /\ links = {} /\ drives = {} /\ gaveUp = {}
      /\ cleaner = NoCall /\ nextPort = 0
  BY DEF Init, AgentInit
<1>3. \A c \in Calls : ~IsCreate(c) /\ ~IsExec(c) /\ ~IsDelete(c)
  BY <1>1 DEF IsCreate, IsExec, IsDelete
<1>4. TypeInv
  <2>1. /\ req \in [Calls -> Requests]
        /\ apc = [c \in Calls |-> apc[c]] /\ hpc = [c \in Calls |-> hpc[c]]
        /\ ports \in [Calls -> SUBSET Nat]
    BY DEF Init, AgentInit, Requests
  <2>2. /\ cleanups \in [Keys -> Seq(Entries)]
        /\ managed \in [Keys -> Calls \cup {NoCall}] /\ known \in [Keys -> Calls \cup {NoCall}]
        /\ runc \in [Keys -> Calls \cup {NoCall}] /\ status = [k \in Keys |-> status[k]]
    BY DEF Init, AgentInit
  <2> QED
    BY <1>1, <1>2, <2>1, <2>2 DEF TypeInv
<1>5. ControlInv /\ Serial /\ Registered
  BY <1>1, <1>2, <1>3 DEF ControlInv, ControlAt, Serial, SerialAt, Active, Registered, RegisteredAt
<1>6. KnownInv /\ AgentInv
  BY <1>1, <1>2, NoCallAssumption
     DEF KnownInv, KnownAt, AgentInv, ManagedAt, RuncAt, ParentAt, CleanerAt
<1>7. TaskInv
  BY <1>1, <1>3 DEF TaskInv, OneCurrent, OneDelete, OvertakenAt, CurrentDrive, DeleteDrive,
     DeletesAt, Current, Deletes
<1>8. CleanupInv
  BY <1>1, <1>2 DEF CleanupInv, CleanupAt, FifosAt
<1>9. OwnInv /\ LinkInv
  BY <1>1, <1>3 DEF OwnInv, StageAt, PlaceAt, ProcessAt, Holding, Fresh, Half, Full, Running,
     LinkInv, LinkAt, LinkedAt
<1>10. BundleInv /\ DeletedInv /\ ExecInv
  BY <1>1, <1>3 DEF BundleInv, EmptiedAt, RemovedAt, DeletedInv, ReservedAt, AgainAt, ToldAt,
     Reserved, ExecInv, ServingAt, Serving, Attached, EndedAt
<1>11. PortsInv
  BY <1>1 DEF PortsInv, PortsAt
<1> QED
  BY <1>4, <1>5, <1>6, <1>7, <1>8, <1>9, <1>10, <1>11 DEF Inv

\* Every step keeps it.
LEMMA NextInv ==
    ASSUME Inv, [Next]_vars
    PROVE  Inv'
<1>1. Types
  BY TypesHold DEF Inv
<1>2. TypeInv'
  BY <1>1, TypeStep DEF Inv
<1>3. ControlInv' /\ Serial' /\ Registered' /\ KnownInv'
  BY <1>1, ControlStep, SerialStep, RegisteredStep, KnownStep
     DEF ControlInv, Serial, Registered, KnownInv
<1>4. AgentInv'
  BY <1>1, ManagedStep, RuncStep, ParentStep, CleanerStep DEF AgentInv
<1>5. TaskInv'
  BY <1>1, OneCurrentStep, OneDeleteStep, OvertakenStep, CurrentDriveStep, DeleteDriveStep,
     DeletesAtStep DEF TaskInv
<1>6. CleanupInv'
  <2>1. mounted' \subseteq drives'
    BY <1>1, <1>2, MountedStep DEF TypeInv
  <2> QED
    BY <1>1, <2>1, CleanupsStep, FifosStep DEF CleanupInv
<1>7. OwnInv' /\ LinkInv'
  BY <1>1, StageStep, PlaceStep, ProcessStep, LinkStep, LinkedStep DEF OwnInv, LinkInv
<1>8. BundleInv' /\ DeletedInv' /\ ExecInv'
  BY <1>1, EmptiedStep, RemovedStep, ReservedStep, AgainStep, ToldStep, ServingStep, EndedStep
     DEF BundleInv, DeletedInv, ExecInv
<1>9. PortsInv'
  BY <1>1, PortsStep DEF PortsInv
<1> QED
  BY <1>2, <1>3, <1>4, <1>5, <1>6, <1>7, <1>8, <1>9 DEF Inv

\* The invariant holds in every state of the two sides.
THEOREM AlwaysInv == Spec => []Inv
<1>1. Inv /\ UNCHANGED vars => Inv'
  BY NextInv
<1>2. Inv /\ [Next]_vars => Inv'
  BY NextInv
<1> QED
  BY InitInv, <1>2, PTL DEF Spec

-----------------------------------------------------------------------------
(* The theorems.                                                           *)

\* The requests, and what the shim and the agent have for them, keep their
\* types, and runc has a status for just the processes that it has.
THEOREM TypeCorrect == Spec => []TypeOK
<1>1. Inv => TypeOK
  BY DEF Inv, TypeInv, TypeOK, Requests, Entries
<1> QED
  BY <1>1, AlwaysInv, PTL

\* A process that both sides have was created by a request that was served.
LEMMA SharedServed ==
    ASSUME Inv, NEW c \in Shared
    PROVE  /\ c \in Calls /\ Key(c) \in Keys /\ apc[c] = "served" /\ hpc[c] = "created"
           /\ known[Key(c)] = c /\ runc[Key(c)] = c
           /\ (IsCreate(c) /\ IsInit(Key(c))) \/ (IsExec(c) /\ ~IsInit(Key(c)))
<1>1. /\ c \in Calls /\ hpc[c] = "created" /\ known[Key(c)] = c /\ runc[Key(c)] = c
  BY DEF Shared
<1>2. ControlAt(c) /\ Types /\ req[c].method \in Methods \cup {"none"}
  BY <1>1, TypesHold DEF Inv, ControlInv, Types
<1> QED
  BY <1>1, <1>2 DEF ControlAt, IsCreate, IsExec, IsDelete, Methods, Types

\* A task that both sides have has its process, cleanups, image, bundle, link,
\* drive and FIFOs.
LEMMA TaskOwns ==
    ASSUME Inv, NEW c \in Shared, IsInit(Key(c))
    PROVE  /\ managed[Key(c)] = c /\ (HasStreams(c) => c \in fifos)
           /\ Task(c) \in links \cap drives \cap mounted \cap bundles
           /\ Len(cleanups[Key(c)]) = 2
<1>1. /\ c \in Calls /\ Key(c) \in Keys /\ apc[c] = "served" /\ IsCreate(c)
      /\ known[Key(c)] = c /\ runc[Key(c)] = c
  BY SharedServed
<1>2. Running(c) /\ Full(c) /\ Holding(c) /\ Current(c)
  BY <1>1 DEF Running, Full, Holding, Current
<1>3. /\ cleanups[Key(c)] = <<BundleEntry(c), RootfsEntry(c)>>
      /\ Task(c) \in mounted /\ Task(c) \in bundles /\ Task(c) \in drives
      /\ managed[Key(c)] = c /\ (HasStreams(c) => c \in fifos)
  BY <1>1, <1>2 DEF Inv, OwnInv, StageAt, PlaceAt, ProcessAt, TaskInv, CurrentDrive
<1>4. Task(c) \in links
  BY <1>1, NoCallAssumption DEF Inv, LinkInv, LinkedAt, Task
<1>5. Len(cleanups[Key(c)]) = 2
  BY <1>3
<1> QED
  BY <1>3, <1>4, <1>5

\* An exec that both sides have has its process and FIFOs.
LEMMA ExecOwns ==
    ASSUME Inv, NEW c \in Shared, ~IsInit(Key(c)), ~GivenUp(Key(c))
    PROVE  managed[Key(c)] = c /\ (HasStreams(c) => c \in fifos \/ Deleted(Task(c)))
<1>1. /\ c \in Calls /\ apc[c] = "served" /\ IsExec(c) /\ known[Key(c)] = c /\ runc[Key(c)] = c
  BY SharedServed
<1>2. Serving(c)
  BY <1>1 DEF Serving, Attached
<1> QED
  BY <1>1, <1>2 DEF Inv, ExecInv, ServingAt, FifosKept

\* A process that containerd was told of, and that the shim and runc have, keeps
\* its entry in the TaskManager, its link, drive, image, bundle, cleanups, FIFOs
\* and ports, whatever other requests fail, are retried or given up.
THEOREM OwnKept == Spec => []KeepsItsOwn
<1>1. Inv => KeepsItsOwn
  <2> SUFFICES ASSUME Inv, NEW c \in Shared
               PROVE  LET k == Key(c)
                          retried == ~IsInit(k) /\ \E d \in gaveUp : Key(d) = k
                      IN  /\ retried \/ managed[k] = c
                          /\ IsInit(k) =>
                                 /\ Task(c) \in links \cap drives \cap mounted \cap bundles
                                 /\ Len(cleanups[k]) = 2
                          /\ HasStreams(c) =>
                                 c \in fifos \/ retried \/ (~IsInit(k) /\ Deleted(Task(c)))
                          /\ \A d \in Shared \ {c} : ports[c] \cap ports[d] = {}
    BY DEF KeepsItsOwn
  <2>1. \A d \in Shared \ {c} : ports[c] \cap ports[d] = {}
    BY DEF Inv, PortsInv, PortsAt, Shared
  <2>2. CASE IsInit(Key(c))
    BY <2>1, <2>2, TaskOwns
  <2>3. CASE ~IsInit(Key(c))
    BY <2>1, <2>3, ExecOwns DEF GivenUp
  <2> QED
    BY <2>2, <2>3
<1> QED
  BY <1>1, AlwaysInv, PTL

\* A bundle is removed by a cleanup only.
LEMMA BundlesLost ==
    ASSUME Inv, Types, [Next]_vars, NEW t \in Tasks
    PROVE  (t \in bundles => t \in bundles' \/ \E f \in Calls : CleanLast(f) /\ Key(f) \in Keys)
<1> USE DEF Types, Goto, GotoA, Key, Task, agentVars, hostVars, mountVars,
       cleanVars, runcVars
<1>1. ASSUME NEW c \in Calls, NEW method \in Methods, NEW k \in Keys,
             NEW io \in IOs(method), Call(c, method, k, io)
      PROVE  (t \in bundles => t \in bundles' \/ \E f \in Calls : CleanLast(f) /\ Key(f) \in Keys)
  <2>1. PICK to : CallTo(c, method, k, io, to)
    BY <1>1, CallFacts
  <2> QED
    BY <2>1 DEF CallTo
<1>2. ASSUME NEW c \in Calls, req[c] # Idle, HostStep(c)
      PROVE  (t \in bundles => t \in bundles' \/ \E f \in Calls : CleanLast(f) /\ Key(f) \in Keys)
  <2>0. Key(c) \in Keys
    BY <1>2 DEF Types, Key
  <2>1. CASE CreateLink(c) \/ GenerateExtraData(c) \/ CreateReturns(c)
           \/ DeleteReturns(c) \/ HostAwaitIO(c)
    BY <1>2, <2>0, <2>1 DEF CreateLink, GenerateExtraData, CreateReturns,
       DeleteReturns, HostAwaitIO
  <2>2. CASE Reserve(c) \/ Release(c) \/ Register(c)
    BY <1>2, <2>0, <2>2 DEF Reserve, Release, Register
  <2>3. CASE HostUndo(c) \/ HostTakeProc(c) \/ SendDelete(c) \/ Unlink(c)
    BY <1>2, <2>0, <2>3 DEF HostUndo, HostTakeProc, SendDelete, Unlink
  <2> QED
    BY <1>2, <2>1, <2>2, <2>3 DEF HostStep
<1>3. ASSUME NEW c \in Calls, req[c] # Idle, AgentStep(c), UNCHANGED hostVars
      PROVE  (t \in bundles => t \in bundles' \/ \E f \in Calls : CleanLast(f) /\ Key(f) \in Keys)
  <2>0. Key(c) \in Keys
    BY <1>3 DEF Types, Key
  <2>1. CASE AcceptCreate(c) \/ StatRootfs(c) \/ AcceptExec(c)
    BY <1>3, <2>0, <2>1 DEF AcceptCreate, StatRootfs, AcceptExec
  <2>2. CASE WriteConfig(c) \/ AwaitIO(c) \/ StartCleanup(c) \/ EndCleanup(c)
           \/ NewProc(c) \/ Undo(c) \/ TakeProc(c)
    BY <1>3, <2>0, <2>2 DEF WriteConfig, AwaitIO, StartCleanup, EndCleanup,
       NewProc, Undo, TakeProc
  <2>3. CASE RuncCreate(c) \/ RuncDelete(c)
    BY <1>3, <2>0, <2>3 DEF RuncCreate, RuncDelete
  <2>4. CASE CleanLast(c)  BY <1>3, <2>0, <2>4 DEF CleanLast
  <2> QED
    BY <1>3, <2>1, <2>2, <2>3, <2>4
       DEF AgentStep, CreateStep, DeleteStep, CleanupStep
<1>4. CASE Forward
  BY <1>4 DEF Forward, ServeStep, ServeStart, ServePause, ServeResume,
     ServeKill, SetStatus
<1>5. CASE UNCHANGED vars
  BY <1>5 DEF vars
<1> QED
  BY <1>1, <1>2, <1>3, <1>4, <1>5 DEF Next

\* os.RemoveAll never runs on a bundle that has an image mounted in it.
THEOREM RemovedInOrder == Spec => RemovedUnmounted
<1>1. Inv /\ [Next]_vars => \A t \in bundles \ bundles' : t \notin mounted
  <2> SUFFICES ASSUME Inv, [Next]_vars, NEW t \in bundles, t \notin bundles'
               PROVE  t \notin mounted
    OBVIOUS
  <2>1. Types /\ t \in Tasks
    BY TypesHold DEF Inv, TypeInv
  <2>2. PICK f \in Calls : CleanLast(f) /\ Key(f) \in Keys
    BY <2>1, BundlesLost
  <2>3. CASE IsInit(Key(f))
    BY <2>1, <2>2, <2>3, CleanInit
  <2>4. CASE ~IsInit(Key(f))
    BY <2>1, <2>2, <2>4, CleanExec
  <2> QED
    BY <2>3, <2>4
<1> QED
  BY <1>1, AlwaysInv, PTL DEF Spec, RemovedUnmounted

\* The Delete of a task ends with the link.
LEMMA UnlinkEnds ==
    ASSUME Inv, Types, [Next]_vars, NEW d \in Calls
    PROVE  (hpc[d] = "unlink" /\ hpc'[d] = "deleted" => Unlink(d))
<1> USE DEF Types, Goto, GotoA, Key, Task, agentVars, hostVars, mountVars,
       cleanVars, runcVars
<1>1. ASSUME NEW c \in Calls, NEW method \in Methods, NEW k \in Keys,
             NEW io \in IOs(method), Call(c, method, k, io)
      PROVE  (hpc[d] = "unlink" /\ hpc'[d] = "deleted" => Unlink(d))
  <2>1. PICK to : CallTo(c, method, k, io, to)
    BY <1>1, CallFacts
  <2> QED
    BY <2>1 DEF CallTo
<1>2. ASSUME NEW c \in Calls, req[c] # Idle, HostStep(c)
      PROVE  (hpc[d] = "unlink" /\ hpc'[d] = "deleted" => Unlink(d))
  <2>0. Key(c) \in Keys
    BY <1>2 DEF Types, Key
  <2>1. CASE CreateLink(c) \/ GenerateExtraData(c) \/ CreateReturns(c)
           \/ DeleteReturns(c) \/ HostAwaitIO(c)
    BY <1>2, <2>0, <2>1 DEF CreateLink, GenerateExtraData, CreateReturns,
       DeleteReturns, HostAwaitIO
  <2>2. CASE Reserve(c) \/ Release(c) \/ Register(c)
    BY <1>2, <2>0, <2>2 DEF Reserve, Release, Register
  <2>3. CASE HostUndo(c) \/ HostTakeProc(c) \/ SendDelete(c) \/ Unlink(c)
    BY <1>2, <2>0, <2>3 DEF HostUndo, HostTakeProc, SendDelete, Unlink
  <2> QED
    BY <1>2, <2>1, <2>2, <2>3 DEF HostStep
<1>3. ASSUME NEW c \in Calls, req[c] # Idle, AgentStep(c), UNCHANGED hostVars
      PROVE  (hpc[d] = "unlink" /\ hpc'[d] = "deleted" => Unlink(d))
  <2>0. Key(c) \in Keys
    BY <1>3 DEF Types, Key
  <2>1. CASE AcceptCreate(c) \/ StatRootfs(c) \/ AcceptExec(c)
    BY <1>3, <2>0, <2>1 DEF AcceptCreate, StatRootfs, AcceptExec
  <2>2. CASE WriteConfig(c) \/ AwaitIO(c) \/ StartCleanup(c) \/ EndCleanup(c)
           \/ NewProc(c) \/ Undo(c) \/ TakeProc(c)
    BY <1>3, <2>0, <2>2 DEF WriteConfig, AwaitIO, StartCleanup, EndCleanup,
       NewProc, Undo, TakeProc
  <2>3. CASE RuncCreate(c) \/ RuncDelete(c)
    BY <1>3, <2>0, <2>3 DEF RuncCreate, RuncDelete
  <2>4. CASE CleanLast(c)  BY <1>3, <2>0, <2>4 DEF CleanLast
  <2> QED
    BY <1>3, <2>1, <2>2, <2>3, <2>4
       DEF AgentStep, CreateStep, DeleteStep, CleanupStep
<1>4. CASE Forward
  BY <1>4 DEF Forward, ServeStep, ServeStart, ServePause, ServeResume,
     ServeKill, SetStatus
<1>5. CASE UNCHANGED vars
  BY <1>5 DEF vars
<1> QED
  BY <1>1, <1>2, <1>3, <1>4, <1>5 DEF Next

\* A Delete of a task that succeeds leaves no drive, image, link, process or
\* cleanup of it, and no bundle unless an exec made it again.
THEOREM DeleteLeavesNothing == Spec => DeletedIsGone
<1> DEFINE Gone(c) ==
       /\ Task(c) \notin links' \cup drives' \cup mounted'
       /\ Task(c) \in bundles' =>
              \E d \in Calls : req[d].method = "exec" /\ Task(d) = Task(c)
       /\ known'[Key(c)] = NoCall /\ managed'[Key(c)] = NoCall
       /\ cleanups'[Key(c)] = << >>
       /\ \A k \in Siblings(Key(c)) : runc'[k] = NoCall
<1>1. ASSUME Inv, [Next]_vars, NEW c \in Calls, hpc[c] = "unlink", hpc'[c] = "deleted"
      PROVE  Gone(c)
  <2>1. Types /\ Unlink(c)
    BY <1>1, TypesHold, UnlinkEnds DEF Inv
  <2>2. Deletes(c) /\ apc[c] = "served" /\ Key(c) \in Keys /\ IsInit(Key(c))
    BY <1>1, <2>1, ReleaseDeletes DEF Deletes
  <2>3. /\ links' = links \ {Task(c)} /\ drives' = drives /\ mounted' = mounted
        /\ bundles' = bundles /\ known' = known /\ managed' = managed
        /\ cleanups' = cleanups /\ runc' = runc
    BY <2>1 DEF Unlink, agentVars, mountVars, cleanVars, runcVars
  <2>4. Task(c) \notin drives /\ mounted \subseteq drives
    BY <1>1 DEF Inv, TaskInv, DeleteDrive, CleanupInv
  <2>5. Task(c) \notin bundles \/ ExecOf(Task(c))
    BY <1>1 DEF Inv, BundleInv, RemovedAt
  <2>6. known[Key(c)] = NoCall
    BY <1>1, <2>1, UnlinkInit
  <2>7. /\ managed[Key(c)] = NoCall /\ cleanups[Key(c)] = << >> /\ runc[Key(c)] = NoCall
    BY <1>1, <2>2 DEF Inv, TaskInv, DeletesAt
  <2>8. ASSUME NEW k \in Siblings(Key(c))
        PROVE  runc[k] = NoCall
    <3>1. k \in Keys /\ TaskOf(k) = TaskOf(Key(c))
      BY DEF Siblings
    <3>2. InitOf(k) = Key(c)
      BY <2>2, <3>1, KeyFacts, SameInit
    <3> QED
      BY <1>1, <2>7, <3>1, <3>2 DEF Inv, AgentInv, ParentAt
  <2> QED
    BY <2>3, <2>4, <2>5, <2>6, <2>7, <2>8 DEF ExecOf, IsExec
<1>2. Inv /\ [Next]_vars =>
         \A c \in Calls : hpc[c] = "unlink" /\ hpc'[c] = "deleted" => Gone(c)
  BY <1>1
<1> QED
  BY <1>2, AlwaysInv, PTL DEF Spec, DeletedIsGone

=============================================================================
