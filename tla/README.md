# TLA+ models of firecracker-containerd

The repository holds the material of a thesis on isolating containers in
microVMs. Its program is `src/Firecracker/firecracker-containerd` (Go): a
containerd runtime that runs each container, or group of containers, in a
Firecracker microVM. The rest (`src/Docker`, `src/Kata-Container`,
`src/DataAnalyze`, the Firecracker notes) is Dockerfiles, scripts and
measurements; it keeps no program state and is not modelled. Paths below are
relative to `src/Firecracker/firecracker-containerd`.

## 1. Inventory

```
 containerd ── firecracker-control plugin ──(fork, ttrpc)──> shim, one per VM
      │            CreateVM / StopVM                            │
      └───────── task API: Create, Exec, Delete, Shutdown ────> │
                                                                ├─ TaskManager ─ IO proxies
                                                                ├─ stub drives ─ VMM (API socket)
                                                                ├─ jailer ────── VMM process
                                                                └─ vsock ──> agent in the VM
                                                                             ├─ TaskManager ─ runc
                                                                             ├─ drive mounts
                                                                             └─ event bridge
```

| component | state | operations | hard behaviour | what must hold |
|---|---|---|---|---|
| runtime shim, VM life cycle: `runtime/service.go` | `vmStartOnce`, `vmReady`, `machine`, clients, `exitAfterAllTasksDeleted`, `cleanupOnce`, `cleanupErr`, `shimCtx` | CreateVM, StopVM, Shutdown, `shutdownLoop`, `monitorVMExit`, `cleanup` | calls race the start, each other and a crash of the VMM; containerd's Shutdown passes no gate; timeouts at the gate; an agent that does not answer | nobody uses a machine or client that is not there; the cleanup runs once and whoever reports a stop comes after it; start and stop events in order, once; a crash is noticed; a stop returns |
| TaskManager: `internal/vm/task.go`, on the host and again in the VM | tasks and their processes, `isShutdown`, per process a context and two channels | CreateTask, ExecProcess, DeleteProcess, ShutdownIfEmpty, with `newProc`, `deleteProc` and `monitorExit` | the mutex covers map operations, not the RPCs between them; lost replies; streams that fail | a process that exists is managed; after ShutdownIfEmpty nothing is left; only the right process is given up; Delete returns once the streams are closed |
| stub drives: `runtime/drive_handler.go`, `agent/drive_handler.go` | `freeDrives`, `usedDrives`, mutex; in the VM, what each drive serves and where it is mounted | Reserve, PatchAndMount, Release, MountDrive, UnmountDrive | requests to VMM and agent under a mutex, each may fail or be served after the caller gave up | no drive lost or shared; a container reads its own image; a deleted container's image is no longer served; the mutex is given back |
| IO proxy and connectors: `internal/vm/{ioproxy,vsock,fifo}.go` | per stream two results, contexts, three channels | `proxy`, `start`, dial with retry, accept, FIFO open | a dial is repeated without end, Wait may fail while the process runs, both ends must be closed, flush timeout after exit | the creator hears of every result, nobody cuts a running process short, no connection stays open |
| firecracker-control plugin: `firecracker-control/local.go` | `processes` (VM ID to shim pid), mutex; VM directories and abstract sockets on the host | CreateVM, `newShim`, StopVM, `waitForShimToExit`, forwards to the shim | mutex held while waiting for a process; a reaper goroutine per shim removes directories; a crash of the plugin keeps shims alive | one shim per VM ID; a VM that was stopped is not served; the reaper removes only its own VM's directory |
| agent: `agent/service.go`, `agent/main.go` | cleanups per process, TaskManager, extra data | Create, Exec, Delete, Shutdown, forwards to runc | cleanups after failures, retries and Delete; requests the shim has given up | what a live process needs stays, what a deleted one had goes, in an order that spares the image |
| event bridge: `eventbridge/`, `internal/event` | a queue in the VM, a getter loop and an exchange on the host | GetEvent, Attach, Republish | the getter pops before the answer has arrived; several contexts and goroutines end in any order | events in order, once, without a gap, after the start of their VM; none is stuck while nothing breaks |
| jailers: `runtime/{noop,runc}_jailer.go` | pid, jail directory, `config.json`, runc's container | BuildJailedMachine, ExposeFileToJail, Stop, Close | two copies of the configuration, paths with two roots, owners; what a failure leaves behind | the VMM can open what its configuration names and runs as asked |
| making of a VM: `runtime/{service,helpers,drive_handler}.go`, `config`, `internal/debug`, `agent/drive_handler.go` | machine configuration, stubs, the files of the VM directory; in the VM, the drives found and mounted | buildVMConfiguration, the stubs, the drive mounts, the discovery of drives | defaults, options in any order, symbolic links, a second attempt after a failure | the VM is what was asked for, or the request is refused, for a reason |
| cpuset builder, OCI annotations, name validation, command-line programs | none | — | — | not modelled |
| generated protocol code, examples, tools, test helpers | — | — | — | not modelled |

Interactions: the plugin starts a shim and calls it over ttrpc; the shim calls
the Firecracker API and, over vsock, the agent's task, drive and event
services; both TaskManagers forward a request to the next task service and run
goroutines of their own for the streams and for `Wait`; the jailer and the
VMM are processes that may end at any time.

PROJECT.json lists what is hard to test in this code, line by line
("hazards"), with the properties that cover each item, or why none does yet.

## 2. The modules

| module | models | checked by | proved in |
|---|---|---|---|
| `ShimService` | the life of one VM in its shim | runs `shim`, `shim_stop_hangs` | `ShimServiceProofs` |
| `TaskRegistry` | the abstract promise of a TaskManager | as a refinement | `TaskManagerProofs` |
| `TaskManager` | the TaskManager with its concurrent requests | run `task_manager` | `TaskManagerProofs` |
| `StubDrives` | the stub drives, with Create and Delete around them | run `stub_drives` | `StubDrivesProofs` |
| `FcControl` | the firecracker-control plugin with shims, reapers and a restart of containerd | runs `fc_control`, `fc_reaper` | `FcControlProofs` |
| `IoProxy` | the streams of one process at one end | runs `io_proxy`, `io_listen` | `IoProxyProofs` |
| `EventPipe` | the abstract promise of the event bridge | as a refinement | `EventBridgeProofs` |
| `EventBridge` | the way of an event from the VM to containerd | run `event_bridge` | `EventBridgeProofs` |
| `AgentTasks` | the task service of the agent, with its cleanups | with `HostGuest` | `HostGuestProofs` |
| `HostGuest` | a task on both sides of the VM, composed with `AgentTasks` | run `host_guest` | `HostGuestProofs` |
| `DebugHelper` | the log levels | with `VmSetup` | `VmSetupProofs` |
| `VmConfig` | from configuration file and request to machine configuration | with `VmSetup` | `VmSetupProofs` |
| `GuestPaths` | links, dots and forbidden directories on the paths of the VM | with `VmSetup` | `VmSetupProofs` |
| `VmSetup` | the making of a VM, in a jail or not, composed of these three | runs `vm_setup`, `vm_leftover` | `VmSetupProofs` |

`MC*` modules add what TLC needs (symmetry sets, and for `VmSetup` the inputs)
and nothing else.

### 2.1 ShimService

A call is a model value; `pc[c]` says where its handler is, and its final
values are the replies. The `shutdownLoop` goroutine a call starts has its own
counter `loop[c]`; `monitor` is the goroutine `monitorVMExit`, `once`,
`cleanup` and `vmReady` are the `sync.Once`s and the channel. The steps of
CreateVM are `StartOnce`, `Build`, `StartMachine`, `DialAgent`, `ArmExit`,
`MountDrives`, then `AbortCreate` or `AnnounceVM`, `GoMonitor`, `OpenGate`;
those of a stop are `WaitVMReady` or `Shutdown`, `AwaitMachine`, the cleanup
(`CloseJailer`, `PublishVMStop`, `CancelShim`), and `ReplyStop`. The loop is
`AskAgent`, `AgentReturns`, `StopJailer`: between the first two it waits for the
agent. Steps end
where another goroutine can see a difference: `ArmExit` is a step of its own
because `exitAfterAllTasksDeleted` is set before the drives are mounted, and
containerd's Shutdown reads it without waiting for `vmReady`.

Abstractions: requests to the VMM, the agent and the jailer succeed or fail
(`machine.Start` may fail before or after the process exists); a timeout is a
choice; publishing an event does not fail; containerd's Shutdown never sets
`Now`; tasks are a number, registered while the gate is open and the
TaskManager is not closed. `JailerSignals` says whether `jailer.Stop()` knows
the VMM's pid. `Bounded` are the calls whose context ends, because the caller
set a deadline or goes away: the shim gives its request to the agent no
deadline of its own, and the timeout in StopVM's request is how long the loop
sleeps after an answer.

### 2.2 TaskManager and TaskRegistry

`procs` is the two-level map of the code flattened to keys (task, exec ID);
`Init0` is the exec ID `""` of a task's first process. CreateTask and
ExecProcess run the same steps (`NewProc`, `StartIO`, `ServeCreate`,
`AwaitInit`, `Undo`) and differ in their key. DeleteProcess is `ServeDelete`
followed by `TakeProc` and `Flushed`: it asks the service first and looks
the process up by its key afterwards. The task service (`svc`, `exited`) and
the streams (`io`) are environment; `LoseReplies` lets the service serve a
request whose reply is lost.

`Overlap` says whether a request may arrive for a key that another request
is still working on. containerd sends the requests of one task one after the
other as long as its client waits for replies; nothing in this code enforces
it. The guarantees are checked and proved with `Overlap = FALSE`; with
`Overlap = TRUE` TLC refutes `NothingLeftBehind` (section 5).

`TaskRegistry` is what the interface promises: distinct keys, an exec only in
a registered task, nothing registered once closed. `TaskManager` implements it
under `registered <- DOMAIN procs, closed <- isShutdown`, with or without overlap.

### 2.3 StubDrives

`free` is `freeDrives`, head first; `used` is `usedDrives`; `holder` is the
owner of the mutex. `backing` is what the VMM serves as the content of each
drive (a container's image or the stub), `mounted` what the agent mounted
where. Create is `Create` (links), `Reserve`, `Patch`, `Mount`, `CreateTask`;
Delete is `Delete`, `Release`, `Unmount`, `Repatch`, `Unlink`. A drive moves
from `free` to `used` at the end of `Mount`, as in the code, and back at the
end of `Repatch`. A failed patch has or has not been applied. With
`LoseReplies` a request the host gave up is served nevertheless: an unmount
at once, a mount at once or much later (`late`, since the agent retries up to
100 times).

Abstractions: the container ID names its image; drives mounted by CreateVM
are not in the list; the exec requests, the exit of the task and the rest of
CreateTask are in `TaskManager`; UnmountDrive takes the device and removes
what is mounted from it.

### 2.4 FcControl

`pc[c]` says where a CreateVM or StopVM request is. A shim, its reaper
goroutine and its recorded pid are named after the CreateVM that forked it;
`processes` maps a VM ID to that name. An abstract socket is taken while
somebody holds a descriptor of it, so `shimFds` and `fcFds` are sets of pairs:
the plugin's listener (`"call"`), the copy that the reaper closes (`"file"`) and
the one the shim inherited (`"shim"`).

CreateVM is `CreateVM` (listen on the shim's address), `MakeDir`, `ListenFc`,
`Fork`, `SetShimOOMScore`, `CallShim`, `AddShim`, and then its deferred calls in
the order Go runs them: `Kill` on an error after the fork, `CloseFc`,
`RemoveDir` on an error, `CloseShim`. An early return enters that list where the
code has got to. StopVM is `StopVM` (connect), `ShimAnswers`, `LookUp` and
`Poll`; `mu` is `processesMu` where it is held across a wait, that is while
`waitForShimToExit` polls. A shim is environment: it serves, stops because it
was asked or by itself (`ShimStops`), exits (`ShimExits`), and is waited for
(`Wait`), after which its goroutine does `Reap`. `Expire` ends the context of a
StopVM, which nothing guarantees. `Restart` restarts containerd: requests and
reapers are gone, the shims and their descriptors are not, and `processes`
starts empty.

`EagerStop` says whether a StopVM may come before the CreateVM of its VM ID
has returned. `StoppedMeansGone` is checked and proved without such
requests; with them TLC refutes it (section 5). `MaxRestarts` bounds the restarts.
GetVMInfo and the metadata calls forward a request and change nothing here.

### 2.5 IoProxy

One process in one TaskManager, on the host or in the VM (`end`): the two differ
in which side of a stream is a FIFO and which a vsock (`FifoDir`), and only the
one in the VM listens. `conn` is the connector of each side of each stream, from
`"busy"` to its result and to `"taken"`; `open` the stream it opened. `proxy` is
the goroutine of a stream, `timer` the one that closes the stream after the
exit, `initQ` the errors buffered in its `initDone`, and `initGot` and `copyGot`
what the errgroups of `start` have received. `start` calls the connectors in
their order (`ConnectFifo`, `ConnectVSock`); a connector that sends to a channel
nobody has yet is `"stuck"`, and so is `start`. `task` follows CreateTask or
ExecProcess, which take the same steps, and DeleteProcess. `TaskManager` has the
streams as its environment; this module is their inside.

`Dial` is one turn of the loop of `VSockDial`: the attempt connects, fails, or
fails temporarily (`Retry`, state `"tick"`) and is repeated; nothing counts the
turns. `Accept` waits until the host dials, as long as that takes. `MonitorExit`
is the return of Wait, which may come at any time, since Wait fails when the
connection breaks; `monitor` says whether it has returned, and `ctx` is the
context that it cancels.

Abstractions: the contents of the streams are left out; the connections of host
and VM are not tied to each other; the end of the shim or of the agent itself,
whose context is above that of every process, is left out. `ListenMayFail` says
whether listening on a port can fail.

### 2.6 EventBridge and EventPipe

A containerd exchange keeps an unbounded queue for each subscriber. It is a
log and the position of its reader here: `produced` and `taken` for the
exchange of the agent, `hostLog` and `read` for that of the shim. `call` is
the one GetEvent call that `Attach` has under way, `attach`, `republish` and
`forwarders` are the goroutines of `Attach`, of `Republish` and of
`startEventForwarders`; the latter waits for `vmReady`, then for the error of
`Attach`, then for that of `Republish`, and only then closes the publisher.
`PopEvent` takes an event in the VM before the answer is on its way; `VMExits`
loses what was on its way. `EndSubscription` and `CancelAgent` are two steps:
between them the exchange may still hand out events, after them its error
channel gives a nil error with no event, which GetEvent must not pass on.

CreateVM is what matters of it here: it publishes the start (`PublishVMStart`,
the error of which is only logged) and then closes `vmReady`, or fails.
`ShimService` has the rest.

The publisher of containerd's client library, to which `Republish` hands an
event, is external. It is assumed to have delivered an event when Publish
returns without an error and not to have delivered it when it returns one, which
ends `Republish` (`RepublishErrs`). A publisher that queues what it could not
send, or that fails after the event has arrived, delivers one event more than
`sent` says; it is the one on which the bridge ends, so that there is still no
gap before it.

`EventPipe` is the promise: events arrive in order, once, until the bridge
breaks, and after that none. `EventBridge` implements it under `accepted <-
produced, delivered <- sent, open <- republish = "select"`: the mapping says
that it is the goroutine of `Republish` that decides when there is an end.

### 2.7 AgentTasks and HostGuest

`AgentTasks` is the agent's side and has no specification of its own;
`HostGuest` extends it with the shim's. `apc[c]` says where a request is in
the agent, `hpc[c]` where it is in the shim; a request the shim has given up
(`CreateReturns`, `DeleteReturns` with `LoseReplies`) goes on in the agent.

The agent's Create is `AcceptCreate`, `StatRootfs`, `WriteConfig`, then the
TaskManager with `NewProc`, `RuncCreate`, `AwaitIO`, `Undo`; Exec is
`AcceptExec` and the same rest; Delete is `RuncDelete` and `TakeProc`.
`cleanups[k]` is the list of what the requests of a key have registered, with
the request that did it, and `doCleanup` is `StartCleanup`, one `CleanLast`
per entry, `EndCleanup`: it runs the entries of every request of its key.
The mutex of the cleanups is `cleaner`.

The shim's Create is `CreateLink`, `Reserve`, `GenerateExtraData`, `Register`,
`CreateReturns`, `HostAwaitIO`, `HostUndo`; Exec starts at
`GenerateExtraData`; Delete is `SendDelete`, `DeleteReturns`, `HostTakeProc`,
`Release`, `Unlink`.

Abstractions: the two TaskManagers are their registries (`managed`, `known`), a
stub drive is the fact that a task has one (`drives`), the FIFOs of a process
are one thing and one cleanup, an unmount succeeds. runc is environment: it
serves or refuses, and deletes a task with its execs. Methods that only forward
and read (State, Pids, Stats, ...) are no steps. containerd (`MayCall`) sends no
two requests for one process at a time and asks only for what it was told of;
requests for different processes of a task run concurrently, so that a task can
be deleted while an exec of it is made.

### 2.8 VmSetup, VmConfig, DebugHelper and GuestPaths

`VmSetup` follows `createVM` step by step (`phase`, and `i` for the loops):
`StartService`, `NewJailer`, `StartConfig`, `CreateContainerStub`,
`CreateDriveMountStub`, `AddNetworks`, `NewMachine`, the jail (`WriteOCIConfig`,
`JailFiles`, `JailDrive`), `StartVMM`, `CreateLogFiles`, `LinkFifos`, `Attach`,
`Dial`, and per mount `Expose`, `Patch`, `MountDrive`. `ShimExits`, `StopVM` and
`CreateVMAgain` close the circle, so that what an attempt leaves on the host
meets the next attempt, which is another request for the same VM ID, one of
`Retries`. `fault` says that something outside of the shim failed in this
attempt (the VMM that does not start, the agent that cannot be dialed, a mount
that fails), or that the attempt before left the container or a directory that
could not be removed; it is set anew by each attempt. The module is sequential:
its hardness is the inputs. `Inputs` are pairs of a configuration file and a
request.

`files` is the host's file system as a function from paths (a jail is a
subtree), each file with its kind, owner, rights, size in sectors and the
origin of its content. `mc` and `mCfg` are the two copies of the machine
configuration: the shim keeps the first and the handlers of the SDK change
the second. `devices` are what the guest sees, `found` what the agent makes of
them (`discoverDrives`), `mounted` what is mounted.

The functions of `VmConfig` are `LoadConfig`, `buildVMConfiguration` and the
conversions of `helpers.go`; `DebugHelper` folds the list of log levels;
`GuestPaths` has two readings of a path. The kernel's, at mkdir and mount, is
`Lead`: links are followed one at a time and at most `MaxLinks` of them
(`Follow`, `Followed`), and `..` is above what the names before it lead to
(`Straight`). The one of the test is `evalAnySymlinks`: `filepath.Clean` first,
where `..` takes back the name before it (`Clean`), and then name by name from
the first on (`EvalName`). `IsSystemDir` asks the second, `MkdirAll` and
`mounted` are about the first. Loops over a list or a path are recursive
functions on the numbers, so that they can be reasoned about.

What the shim makes has names of its own (`ShimNames`). A root drive or a mount
with one of them would overwrite it or be overwritten, in the jail or in the VM
directory; the properties are about requests that are `Apart` from them.
The modules assume that the host's files are a tree and are root's
(`HostTree`), that the fields of an input have their types (`InputsAreTyped`),
that decimal numerals differ (`StubNamesDiffer`), that `CreateVM` is called
at least once (`SomeAttempts`), and that what is asked again is an input
(`RetriesAreInputs`).

The SDK and Firecracker are external: copying the configuration, opening files,
the order of the handlers. Abstractions: the identifier of a stub drive stands
for its base32 text and has at most 127 bytes; buckets of a limiter are kept as
the fields that are passed on; UNIX sockets, cgroups and CPU sets are left out;
the VM directory is removed as a whole or not at all. Links of the host, and
dots in its paths, are left out, as are dots in the targets of the guest's links
and what is found inside of a drive once it is mounted; a regular file of the
image on the way of a path is given as a link to itself, which is refused like
it.

## 3. The runs

| run | instance | shows |
|---|---|---|
| `shim` | 3 calls, 2 of them bounded, `MaxTasks = 1` | all safety properties, that a crash is noticed and that bounded stops return though the agent may hang, every interleaving of a CreateVM with a StopVM and a Shutdown (or two of one kind), failures at each step, a crash of the VMM at each point |
| `shim_stop_hangs` | `JailerSignals = FALSE` | finding: the loop has no third action, so StopVM waits without end |
| `task_manager` | 1 task, 1 exec ID besides the first, 4 requests, no overlap, lost replies | the TaskManager implements the registry and the registry is true of the task service |
| `stub_drives` | 2 drives, 2 containers, 4 requests, lost replies | no drive lost or shared, own image, image gone after Delete, every request returns |
| `fc_control` | 3 requests for 1 VM ID, 1 restart, no eager stop | one shim per VM ID and truthful stops, across the restart; nothing left behind, where there was none; every request returns when its shim answers and the process it waits for ends |
| `fc_reaper` | 2 requests for 1 VM ID | finding: the goroutine of an old shim removes the directory of its successor |
| `io_proxy` | a stream into and one out of the process, host or VM, listening succeeds | all safety and liveness properties of the streams, with dials that are repeated and a Wait that returns at any time |
| `io_listen` | the same, listening may fail | finding: Create hangs |
| `event_bridge` | `MaxEvents = 4` | the bridge implements the pipe, the start of the VM comes first, and nothing is stuck |
| `host_guest` | 1 task, 1 exec ID besides the first, 3 requests, lost replies | what a live process needs is never taken away; the image is unmounted before its directory is removed; a Delete leaves nothing |
| `vm_setup` | 12 998 inputs, then up to 2 more attempts with any of 9 | the VMM can open its files, the guest is as asked, log levels are as asked, requests are refused for a reason, and after a failed attempt the next one for the VM ID fails only for what is wrong with itself |
| `vm_leftover` | the same inputs | finding: a failed CreateVM leaves runc's container behind |

Bounds. Three shim calls are enough for the creator, a stop that passed the gate
and one that did not; the once-only parts are symmetric in further callers. One
task suffices because a shutdown asks whether there is one. In `TaskManager`
requests for different tasks share only `isShutdown` and the emptiness test;
create, delete, create and delete again is the longest pattern the guarantees
are about, and the exec ID makes the key structure matter. In `StubDrives` four
requests reserve, release and reserve again while another container holds or
wants a drive; two drives let the list rotate. In `EventBridge` each event is in
one of four places (queue, answer, hand, exchange of the shim); four events fill
them all. In `HostGuest` three requests are a task, an exec and a Delete of
either, or a Create, its retry and a Delete; four requests were checked once as
well (3.3 million states, no violation). In `VmSetup` the inputs are all lists
of up to three log levels (a top level, a component and a contradiction), all
pairs of three mounts that are right, single mounts of every kind of wrong
source and destination, with dots before, behind and instead of a link, and all
combinations of jail, kernel, root drive and machine. The nine inputs of the
attempts that follow (`Retries`) succeed, or fail at the log levels, at a kernel
that is missing, at a file that cannot be written and at a destination that is
refused, with a jail or not; three attempts let any request and a failure of
another kind precede a request that is right. `MaxLinks` (8) stands for the
kernel's 40 links; the guest has no chain of more than one, and a loop. The
theorems of section 4 hold for all values of these constants.

`CHECK_DEADLOCK FALSE` is set where an instance ends: all its requests are
answered and nothing else is due.

Fairness. Every goroutine that can take a step takes it (the Go scheduler), and
a timer that was started fires. Arrivals, failures, crashes and
exits of processes have no fairness, and neither have answers over a connection:
the code gives most requests no deadline of its own. What a liveness property
needs beyond that is a hypothesis that it names.

In `ShimService` a VMM that got SIGTERM exits, and so does a shim whose context
is cancelled. The agent's answer is fair for the calls in `Bounded` only, whose
context ends; `StopReturns` is about these, while the agent may hang. The others
may wait for ever (section 5).

In `StubDrives` `CallsReturn` is about the mutex: each request to the VMM and
the agent is assumed to come back, which the code does not ensure, and it is
shown that the mutex is given back on every path. Weak fairness suffices for the
mutex because a request takes it at most once and requests are finite in number.

In `FcControl` neither a shim's answer nor `Expire` is fair. `CallsReturn` has
two hypotheses: `ShimsAnswer`, that no call to a shim lasts for ever, and
`WaitsEnd`, that the process a StopVM has found exits or the context of this
StopVM ends. It says that these are the only waits there are. Where they do not
end, a StopVM keeps `processesMu` and all others wait: a StopVM that looks its
VM ID up late can wait for the shim of the next VM. Shims that stop are waited
for, and finalizers run when the collector does.

In `IoProxy` the turns of a dial are fair, their outcome is not: a dial may go
on for ever, and an accept wait for ever. `CreateReturns` has the
hypotheses `ConnectorsEnd` and `ServiceAnswers`, and says that nothing else
keeps a creator waiting; `DeleteReturns` needs only that Wait returns after the
exit, since the timer closes the streams. A copy ends when the stream it reads
was closed; the end of its input has no fairness. `StreamsEnd` is about streams
whose two connectors are through.

In `EventBridge` the goroutines run and a GetEvent with an event in the queue is
answered. Nobody has to publish, to cancel, to exit or to fail: `AllArrive` is
about the case that nothing breaks. `TaskManager`, `HostGuest` and `VmSetup`
state no fairness: their properties are safety properties.

## 4. What is proved

All theorems hold for every value of the constants that satisfies the named
assumptions of the modules.

* `ShimServiceProofs`: `TypeCorrect`; `NoNilShutdown` (`ShutdownFindsVM`);
  `EmptyForGood` (`AcceptedShutdownIsEmpty`); `AnsweredMeansGone`
  (`StoppedMeansGone`); `StartBeforeStop` (`EventsInOrder`). One inductive
  invariant `IInv` carries them: at most one call is past the once
  (`OneCreator`), the clients are set only after the machine ran
  (`ClientsInv`), and the published events are a function of the creator's,
  the cleanup's and the monitor's position (`CleanInv`, `OrderInv`). None of
  the properties is inductive alone: that a stop finds a machine needs that
  `vmReady` and `exitAfter` are set after the clients.
* `TaskManagerProofs`: `TypeCorrect` and `Implements` (the TaskManager
  implements `TaskRegistry`) without assumption on arrivals; `Managed`
  (`CreatedIsManaged`), `EmptyWhenClosed` (`NothingLeftBehind`) and `GivenUp`
  (`GivenUpRightly`) under `~Overlap`. The invariant: no two running requests
  share a key (`NoOverlap`), what is registered, served or being created
  belongs to the creator of that key, and a process about to be taken was
  forgotten by the service (`TakenIsForgotten`).
* `StubDrivesProofs`: `TypeCorrect`, `NoDriveLost` (`DrivesPartitioned`),
  `Isolated` (`OwnImage`), `ImageReleased` (`ImageIsGone`). The invariant:
  only the holder of the mutex is inside the handler (`Locked`), what it
  checked is still true (`Checked`), the head of `free` is the drive being
  reserved and belongs to nobody, and a drive that serves a container's image
  is used by it or is free and will be patched (`Reserved`, `Tidy`).
  Lemmas on sequences (`TailFacts`, `AppendFacts`, `TakeHead`, `PutLast`) say
  what moving a drive does to the partition.
* `IoProxyProofs`: `TypeCorrect`; `AllConnected` (`CreatedIsConnected`);
  `NotCutShort` (`LivesWithProcess`); `ClosedAfterDelete` (`DeletedIsClosed`),
  for any set of streams. The invariant: a goroutine past its loop has both
  results (`ConnInv`), an error is in a channel or has been received (`ErrInv`),
  the timer closes nothing before the context is cancelled, and nobody cancels
  that of a created process before Wait returns (`CopyInv`), and `copyDone` is
  closed last (`ClosedInv`).
* `FcControlProofs`: `TypeCorrect`; `SingleShim` (`OneShim`) for any number of
  requests, VM IDs and restarts; `StopWaits` (`StoppedMeansGone`) under
  `~EagerStop`. One shim per ID follows from the descriptors: all those of one
  address belong to one CreateVM (`OneOwner`), and a request that has not
  closed its listener, like a shim that lives, holds one (`Holding`). That a
  stop is truthful needs that descriptors of the fccontrol address stem from a
  CreateVM too (`FcOwner`), and that a served VM is recorded before anybody
  stops it (`Recorded`, `Connected`, `Served`, `Polling`). `GivenBack`
  (`NothingLeft`): every descriptor has somebody who will close it (`FdInv`), and
  every directory somebody who will remove it, a CreateVM that has not forked or
  is failing, a shim that lives, or its reaper (`DirInv`, `ReaperInv`).
* `EventBridgeProofs`: `TypeCorrect`; `StartComesFirst` (`StartFirst`);
  `BridgeIsAPipe` (`EventBridge` implements `EventPipe`), for any number of
  events. The invariant: an answer or the hand of `Attach` carries the event
  popped last (`CallInv`); the exchange of the shim holds the events of the VM in
  their order, without a gap, and all that were popped but the one on its way
  (`LogInv`); while `Republish` runs, containerd has exactly those that were
  read (`SentInv`); and the start of the VM is the first of the log, since
  `Attach` waits for `vmReady` (`StartInv`).
* `HostGuestProofs`: `TypeCorrect`; `OwnKept` (`KeepsItsOwn`); `RemovedInOrder`
  (`RemovedUnmounted`); `DeleteLeavesNothing` (`DeletedIsGone`), for any number
  of tasks, execs and requests, with answers lost or not. None of the
  properties is inductive, since a request that was given up goes on in the
  agent beside the retry of it. What carries them is that a task has one
  `Current` Create, the only one with anything of the task, and one Delete that
  takes it away, and that this Delete overtakes the Create only where runc has
  the task (`TaskInv`). The one Create exists because a drive is reserved for
  it, and a drive is released only by a Delete that has left nothing. From it
  follow whose the cleanups are and in what order (`CleanupInv`), that nobody
  else touches what a Create needs (`OwnInv`, `Alone`), that a bundle is gone
  with its cleanups (`BundleInv`), and for execs that a task is created again
  only after it was deleted (`DeletedInv`, `ExecInv`). Each part is a
  predicate of one or two requests with a lemma that goes through all actions.
* `VmSetupProofs`: `VmSetupTypes` (`TypeOK`); `AskedLevels` (`LevelsAsAsked`);
  `FilesAreSeen` (`VmmSeesItsFiles`); `GuestIsAsAsked` (`GuestAsAsked`);
  `FailsForCause` (`FailsOnlyForCause`), for any configuration and request, any
  files of the host, any image with its links and any number of attempts. None
  of the properties is inductive: they speak of the state in one phase, and what
  holds there was made many steps before. The invariant says at every phase and
  index what each variable is made of, as a function of the input, the host and
  the image (`StubsInv`, `ConfigInv`, `VmmConfigInv`, `OciInv`, `DevicesInv`,
  `FoundInv`, `PlacesInv`, `MountedInv`), where every file of the host comes
  from (`FilesInvs`, `StubFilesInv`, `CopiesInv`, `FifosInv`, `ExposedInv`), and
  what an attempt that got so far says of the request (`AcceptedInv`,
  `HostInv`). It has two halves. `AnyInv` holds of every request; `ApartInv` of
  those whose paths are apart from the names the shim uses, which is what the
  properties ask for too. `FailsForCause` then looks at the step that fails:
  what it lacks was there unless the request, the image or an earlier failure
  left it out. That nothing of an earlier attempt is in the way is
  `LeftoverInv`: what is in the VM directory at the start of an attempt is there
  because its removal failed, for which `fault` is set in this attempt only.
  `FailsForCause` speaks of requests without dots in their destinations
  (`NoDots`). What the recursive functions compute is proved for all their
  inputs. `NewFoldsLevels`: `debug.New` sets each level as its entry says, or
  refuses the list. `FollowedParts`: a path leads where its last name leads from
  where its directory leads. `RefusedWhereItLeads`: for a path without dots
  `evalAnySymlinks` finds where it will lead to once `os.MkdirAll` has made its
  directories, so that the test against the system directories, made before, is
  about the place where the mount ends up. With dots it is not (section 5);
  `GuestIsAsAsked` then still says that the mount is where the kernel leads the
  path to. The library's induction theorems are not needed for them: `LeastOf`,
  that a nonempty set of numbers has a least one, follows from the order of the
  numbers being well-founded, and `Induction` is about a set of numbers and not
  a predicate. `MaxLinks` is a definition; the proofs use only that it is a
  natural number.

Every invariant of a run that passes is the statement of a theorem, and so
are the two refinements. Only model-checked: liveness (`NothingHangs` of
`ShimService`, `CallsReturn` of `StubDrives`, `FcControl` and `IoProxy`,
`StreamsEnd`, `AllArrive`) and the refuted statements, which are beyond the
prover.

## 5. Findings

Each is a run that TLC refutes; PROJECT.json quotes the lines.

1. `shutdownLoop` documents three ways to stop the VM and has two; if the
   agent does not answer and the noop jailer has no pid, StopVM never returns.
2. The goroutine that reaps a shim frees the addresses of the VM ID before it
   removes the directory: a CreateVM in between loses its directory while its VM
   runs.
3. When listening on a vsock port fails in the VM, the connector sends the error
   to a channel that its caller has not got yet: Create hangs.
4. A CreateVM that fails after `runc run` never calls the jailer's Close: the
   container of the VM ID is left behind, and the next CreateVM for it fails.

Disagreements with a comment that the models reach, noted without a run of
their own:

* `shutdownLoop` "sends multiple different shutdown requests", the second of them
  a SIGTERM (`runtime/service.go:1211`); it asks the agent first, with the
  context of the caller (line 1228) and no deadline of its own. If neither the
  agent answers nor the caller gives up, no signal follows.
* A StopVM that times out at the gate returns an error "but the shim will
  continue to shutdown" (`runtime/service.go:597`); it leaves nothing behind
  (line 608) that would end a VM which comes up later.
* `VSockDial` retries "up to a fixed timeout" (`internal/vm/vsock.go:38`) and has
  none (lines 43-64); the context of the connectors is not cancelled before they
  are through (`internal/vm/ioproxy.go:77`), so that a dial into a VM in which
  nobody listens goes on for ever, and a Create that waits for it.
* "Once the proc exits" the streams are closed (`internal/vm/ioproxy.go:121`); but
  `monitorExit` cancels the context whenever Wait returns
  (`internal/vm/task.go:272`), also with an error while the process runs.
* The level `warning` uses `firecracker:output` (`internal/debug/debug.go:36`);
  `LogFirecrackerOutput` (line 154) does not look at it, and the output of the VMM
  is discarded. `LevelsAsAsked` leaves this case open.
* "We won't be mounting over any important system directories"
  (`agent/drive_handler.go:179`): the test is on the clean form of a destination
  (line 261), mkdir and mount take it as it was sent (lines 184, 202). With a
  `..` behind a link a mount can end up over /proc, /sys or /dev; destinations
  are tested to be absolute, not to be clean (`runtime/service.go:715`).
* Shutdown's comment requires a VM that started (`runtime/service.go:1163`); the
  flag it tests is set before the drives are mounted (line 575).
* The TaskManager does not serialise requests (`internal/vm/task.go:33`, 252):
  with `Overlap = TRUE` two requests for one key make it forget a process, and
  ShutdownIfEmpty then answers TRUE.
* `Reserve` "pops an unused stub drive" (`runtime/drive_handler.go:95`, 131), but a
  drive whose mount was given up by the host stays in the list and may be mounted.
* StopVM looks the pid up by VM ID (`firecracker-control/local.go:264`), and a
  VM that exits by itself leaves its pid behind: with `EagerStop = TRUE` a
  StopVM that is served before CreateVM has recorded the new pid reports success
  while the shim lives.
* When a copy fails, Delete may return before the streams are closed
  (`internal/vm/task.go:257`).

Behaviour that nothing forbids and that a reader should know:

* An Exec that the shim has given up and that is retried: the agent refuses the
  second, whose deferred `doCleanup` removes the FIFOs of the first
  (`agent/service.go:143`). `KeepsItsOwn` names the exception.
* A Create that fails after `Reserve` releases neither the drive nor the links of
  its container; a Release that fails half way leaves the drive used for the life
  of the VM; a Delete whose reply is lost cannot be repeated, so that
  the entry and the drive of the task stay.
* An unmount that fails does not keep `doCleanup` from the `RemoveAll` that
  follows (`agent/service.go:145`).
* When `setShimOOMScore` fails the shim is not killed and blocks its VM ID; a
  StopVM that gives up deletes the record of a shim that may still run.
* `nextVSockPort` panics with a value that is no error
  after more than 10^9 containers (`runtime/service.go:417`).
* An event of the VM may reach containerd after the stop of the VM: both are
  in one log, and `Attach` may append after `PublishVMStop`.
* A mount with options that name both `ro` and `rw` is accepted by the first and
  mounted by the last (`Ambiguous`). One block device for two mounts fails in a
  jail only; a regular file mounted in a jail is a copy; a root drive that has
  the name of a file of the jail overwrites it (`Apart`). A runc template
  without a network namespace leaves the VMM outside of the one asked for; one
  without a process or root is a panic. `HtEnabled` of a request with a machine
  configuration overrides that of the configuration file, also where it was left
  out.
* The length byte of a stub's content is written as a character: for
  128 bytes and more it would be two bytes (`GenerateStubContent`).
  The identifiers are shorter.

## 6. Not modelled, and what is left

Not modelled: the metadata calls and GetVMInfo, which forward a request and
change nothing that the shim or the plugin keeps; `Cleanup` of the shim's binary;
the CPU set builder, the OCI annotations and the validation of names (string
processing without state); cgroups and UNIX sockets in a jail; generated
protocol code; the command-line programs, examples and tools; the benchmarks
and configurations of the thesis.

Left for later: a composition of `HostGuest` with the inside of the two
TaskManagers and of `StubDrives`, which are now joined at their interfaces only.
