------------------------------- MODULE VmConfig -------------------------------
(***************************************************************************)
(* From the configuration of the runtime (config/config.go) and a CreateVM *)
(* request to the configuration of the VMM: the conversions of             *)
(* buildVMConfiguration (runtime/service.go) and runtime/helpers.go.       *)
(*                                                                         *)
(* Paths are sequences of names, a relative one starting with ".".  Of the *)
(* strings only those are kept that decide something.                      *)
(***************************************************************************)
EXTENDS DebugHelper, Integers, TLC

DefaultKernelPath == <<"lib", "vmlinux">>
DefaultRootfsPath == <<"lib", "rootfs">>
FirecrackerBinaryPath == <<"bin", "firecracker">>

\* One function over another.
Over(new, old) ==
    [x \in DOMAIN new \cup DOMAIN old |-> IF x \in DOMAIN new THEN new[x] ELSE old[x]]

Only(x, val) == [y \in {x} |-> val]

IsAbs(path) == path # << >> /\ path[1] # "."

-----------------------------------------------------------------------------
(* The configuration file and the request.                                 *)

\* LoadConfig: what the file says over the defaults.  The template of the runc
\* jailer is a file of its own: whether it has a process, of which user, and
\* the path of its network namespace, "" for a new one, or None without it.
LoadConfig(file) ==
    Over(file,
         [kernel |-> DefaultKernelPath, root |-> DefaultRootfsPath,
          template |-> "T2", ht |-> FALSE, levels |-> << >>, shimDebug |-> FALSE,
          nets |-> << >>,
          runc |-> [process |-> TRUE, user |-> 0, netns |-> ""]])

\* A CreateVM request: the zero values of its fields, and None for nil.
Request(fields) ==
    Over(fields,
         [vmID |-> "vm", exitAfter |-> FALSE, jailer |-> None, kernel |-> None,
          root |-> None, count |-> 0, mounts |-> << >>, nets |-> None,
          machine |-> None])

\* What containerd's start of a shim asks for: the VM named by the annotation
\* of the container, or a VM of its own that ends with the container.
StartShimRequest(annotation) ==
    IF annotation = None
    THEN Request([vmID |-> "uuid", exitAfter |-> TRUE, count |-> 1])
    ELSE Request([vmID |-> annotation])

-----------------------------------------------------------------------------
(* The machine, the rate limiters and the network interfaces.              *)

OrDefault(val, default) == IF val = None THEN default ELSE val

Positive(n, default) == IF n > 0 THEN n ELSE default

MachineConfiguration(config, machine) ==
    IF machine = None
    THEN [template |-> config.template, vcpus |-> 1, mem |-> 128, ht |-> config.ht]
    ELSE [template |-> OrDefault(machine.template, config.template),
          vcpus |-> Positive(machine.vcpus, 1),
          mem |-> Positive(machine.mem, 128),
          ht |-> machine.ht]

\* Only what is positive is passed on.
TokenBucket(bucket) == [f \in {g \in DOMAIN bucket : bucket[g] > 0} |-> bucket[f]]

\* A limiter has buckets for the bandwidth, the operations, or both.
RateLimiter(limiter) ==
    IF limiter = None THEN None
    ELSE [kind \in DOMAIN limiter |-> TokenBucket(limiter[kind])]

\* A static interface has an address, which must be a CIDR, or has none.
IsNetworkConfig(net) == net.addr # "malformed"

NetworkConfig(net) ==
    [net EXCEPT !.in = RateLimiter(@), !.out = RateLimiter(@)]

\* The interfaces of the configuration stand in for a nil list only.
Networks(config, request) == OrDefault(request.nets, config.nets)

-----------------------------------------------------------------------------
(* The drives.                                                             *)

Drive(id, path, writable, limiter) ==
    [id |-> id, path |-> path, writable |-> writable, limiter |-> RateLimiter(limiter)]

RootDrive(config, request) ==
    IF request.root = None
    THEN Drive("root_drive", config.root, FALSE, None)
    ELSE Drive("root_drive", request.root.path, request.root.writable,
               request.root.limiter)

\* Mutant of ContainerCount: the default of the protocol, 0, is used.
UncheckedContainerCount(request) == request.count

ContainerCount(request) == Positive(request.count, 1)

ReadWrite(writable) == IF writable THEN "rw" ELSE "ro"

\* setReadWriteOptions: the first of "ro" and "rw" among the options decides
\* whether they go with the drive, to which the option is added if neither is.
ReadWriteOptions(options) == {n \in DOMAIN options : options[n] \in {"ro", "rw"}}

IncompatibleOptions(options, writable) ==
    /\ ReadWriteOptions(options) # {}
    /\ options[Min(ReadWriteOptions(options))] # ReadWrite(writable)

SetReadWriteOptions(options, writable) ==
    IF ReadWriteOptions(options) = {}
    THEN Append(options, ReadWrite(writable))
    ELSE options

\* A drive shows whole sectors only, so a stub is filled up to one.
SectorSize == 512
DriveSize(bytes) ==
    SectorSize * (bytes \div SectorSize)
        + (IF bytes % SectorSize = 0 THEN 0 ELSE SectorSize)
Sectors(bytes) == bytes \div SectorSize

-----------------------------------------------------------------------------
\* The configuration of the VMM, with the root drive alone.
BuildVMConfiguration(config, helper, request) ==
    [kernel |-> OrDefault(request.kernel, config.kernel),
     drives |-> <<RootDrive(config, request)>>,
     machine |-> MachineConfiguration(config, request.machine),
     netns |-> IF request.jailer = None THEN "" ELSE request.jailer.netns,
     nets |-> << >>,
     logLevel |-> GetFirecrackerLogLevel(helper)]
=============================================================================
