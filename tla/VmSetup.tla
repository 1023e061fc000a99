------------------------------- MODULE VmSetup -------------------------------
(***************************************************************************)
(* How a VM is made: createVM of the shim (runtime/service.go) step by     *)
(* step, with the stub drives (runtime/drive_handler.go), the two jailers  *)
(* (runtime/noop_jailer.go, runtime/runc_jailer.go), the handlers of the   *)
(* SDK in between, the drives the agent finds and the drives it mounts     *)
(* (agent/drive_handler.go), up to the end of the shim and another         *)
(* CreateVM of the same ID.                                                *)
(*                                                                         *)
(* The files of the host are one function from paths.  A file is told by   *)
(* where its content comes from; the ID of a stub drive stands for its     *)
(* base32 text, and both have at most 127 bytes.  The SDK and Firecracker  *)
(* are external.                                                           *)
(***************************************************************************)
EXTENDS VmConfig, GuestPaths

CONSTANTS
    Inputs,       \* configuration files with CreateVM requests
    Retries,      \* those with which CreateVM may be called again
    HostFiles,    \* the files of the host
    MaxAttempts   \* bound: how often CreateVM is called

VARIABLES
    input,      \* the configuration file and the request
    phase,      \* where createVM is
    i,          \* the index of the loop it is in
    attempt,    \* how often CreateVM was called
    helper,     \* config.DebugHelper
    files,      \* the file system of the host
    mc,         \* s.machineConfig
    mCfg,       \* m.Cfg, the copy that the SDK's machine works with
    stubs,      \* the IDs of the container stubs
    mountStubs, \* s.driveMountStubs
    oci,        \* the config.json of the jail
    container,  \* whether runc has a container with the VM ID
    devices,    \* the block devices of the guest
    found,      \* the drives of the agent: device by drive ID
    dirs,       \* the directories of the guest
    mounted,    \* what is mounted where in the guest
    fault       \* whether something outside of the shim failed, or was left

hostVars == <<files, container>>
configVars == <<helper, mc, mCfg, stubs, mountStubs, oci>>
guestVars == <<devices, found, dirs, mounted>>
vars == <<input, phase, i, attempt, hostVars, configVars, guestVars, fault>>

VmDir == <<"run", "vm">>
JailRoot == <<"run", "vm", "rootfs">>

Config == LoadConfig(input.file)
Request0 == input.request
Jailer == Request0.jailer
Jailed == Jailer # None
Uid == IF Jailed THEN Jailer.uid ELSE 0

\* JailPath, and the root of the VMM's file system.
JailPath == IF Jailed THEN JailRoot ELSE VmDir

File(kind, content, owner, modes) ==
    [kind |-> kind, content |-> content, owner |-> owner, modes |-> modes, sectors |-> 1]
Dir(owner) == File("dir", [stub |-> FALSE, of |-> "dir"], owner, {"r", "w"})

Below(dir, path) == Len(path) >= Len(dir) /\ SubSeq(path, 1, Len(dir)) = dir

\* The files of the host, of root: above a file is a directory, and the VM
\* directory is new.  No links: the paths of the host are taken as clean ones.
HostFilesAssumption ==
    /\ DOMAIN HostFiles \subseteq Path
    /\ \A path \in DOMAIN HostFiles :
           /\ LET file == HostFiles[path]
              IN  file = [File(file.kind, file.content, 0, file.modes)
                              EXCEPT !.sectors = file.sectors]
           /\ ~Below(VmDir, path)
           /\ \A n \in 0..(Len(path) - 1) :
                  SubSeq(path, 1, n) \in DOMAIN HostFiles =>
                      HostFiles[SubSeq(path, 1, n)].kind = "dir"
ASSUME HostTree == HostFilesAssumption
ASSUME RetriesAreInputs == Retries \subseteq Inputs
ASSUME SomeAttempts == MaxAttempts \in Nat \ {0}

\* The fields of a configuration and a request that decide something.
InputAssumption(config, request) ==
    /\ config.levels \in Seq(Entries) /\ config.shimDebug \in BOOLEAN
    /\ OrDefault(request.kernel, config.kernel) \in Path
    /\ RootDrive(config, request).path \in Path \ {<< >>}
    /\ RootDrive(config, request).writable \in BOOLEAN
    /\ request.count \in Int /\ Len(request.mounts) \in Nat
    /\ DOMAIN request.mounts = 1..Len(request.mounts)
    /\ \A n \in DOMAIN request.mounts :
           LET mount == request.mounts[n]
           IN  /\ mount.host \in Path /\ mount.vm \in Path
               /\ mount.writable \in BOOLEAN /\ mount.options \in Seq(STRING)
ASSUME InputsAreTyped == \A in \in Inputs : InputAssumption(LoadConfig(in.file), in.request)

Init ==
    /\ input \in Inputs
    /\ phase = "start" /\ i = 1 /\ attempt = 1
    /\ helper = None /\ mc = None /\ mCfg = None
    /\ stubs = << >> /\ mountStubs = << >> /\ oci = None
    /\ files = HostFiles /\ container = FALSE
    /\ devices = << >> /\ found = << >>
    /\ dirs = GuestDirs /\ mounted = << >>
    /\ fault = FALSE

\* The next phase, and the next round of the loop of one.
Goto(from, to) == phase = from /\ phase' = to /\ i' = 1
Again(from) == phase = from /\ phase' = phase /\ i' = i + 1
FailAt(from) ==
    /\ Goto(from, "failed")
    /\ UNCHANGED <<input, attempt, hostVars, configVars, guestVars>>
Fail(from) == FailAt(from) /\ UNCHANGED fault

\* Something outside of the shim fails.
Break(from) == FailAt(from) /\ fault' = TRUE

-----------------------------------------------------------------------------
(* The configuration and the jailer.                                       *)

\* NewService loads the configuration.
StartService ==
    LET new == New(Config.levels) IN
    \/ /\ new # None
       /\ Goto("start", "jailer")
       /\ helper' = new
       /\ UNCHANGED <<input, attempt, hostVars, mc, mCfg, stubs, mountStubs, oci, guestVars,
                      fault>>
    \/ new = None /\ Fail("start")

\* newJailer: root is refused; the directory of the jail must be new.
CanJail == Jailer.uid # 0 /\ Jailer.gid # 0 /\ JailRoot \notin DOMAIN files

NewJailer ==
    \/ /\ Jailed => CanJail
       /\ Goto("jailer", "config")
       /\ files' = IF Jailed THEN Over(Only(JailRoot, Dir(Uid)), files) ELSE files
       /\ UNCHANGED <<input, attempt, container, configVars, guestVars, fault>>
    \/ Jailed /\ ~CanJail /\ Fail("jailer")

-----------------------------------------------------------------------------
(* buildVMConfiguration.                                                   *)

AbsoluteMounts ==
    \A n \in DOMAIN Request0.mounts :
        IsAbs(Request0.mounts[n].host) /\ IsAbs(Request0.mounts[n].vm)

StartConfig ==
    \/ /\ AbsoluteMounts
       /\ Goto("config", "stubs")
       /\ mc' = BuildVMConfiguration(Config, helper, Request0)
       /\ UNCHANGED <<input, attempt, hostVars, helper, mCfg, stubs, mountStubs, oci,
                      guestVars, fault>>
    \/ ~AbsoluteMounts /\ Fail("config")

Fifos == {"fc-logs.fifo", "fc-metrics.fifo"}

\* newStubDrive: a file that must be new, which is given to the jail.
StubName(name, n) == name \o ToString(n - 1)
StubPath(name, n) == Append(JailPath, StubName(name, n))
StubID(path) == Last(path)

\* Decimal numerals differ, and so do the names.
Stubs(request) ==
    [name : {"ctrstub"}, n : 1..ContainerCount(request)]
        \cup [name : {"drivemntstub"}, n : DOMAIN request.mounts]
ASSUME StubNamesDiffer ==
    \A in \in Inputs : \A a \in Stubs(in.request) :
        /\ StubName(a.name, a.n) \in STRING
        /\ StubName(a.name, a.n) \notin
               {"firecracker", "kernel-image", "root_drive"} \cup Fifos
        /\ \A b \in Stubs(in.request) : StubName(a.name, a.n) = StubName(b.name, b.n) => a = b

NewStubDrive(path, writable, limiter) ==
    LET content == [stub |-> TRUE, of |-> StubID(path)]
        stub == [File("reg", content, Uid, {"r", "w"})
                     EXCEPT !.sectors = Sectors(DriveSize(20))]
    IN  /\ path \notin DOMAIN files
        /\ files' = Over(Only(path, stub), files)
        /\ mc' = [mc EXCEPT !.drives =
                      Append(@, Drive(StubID(path), path, writable, limiter))]

\* CreateContainerStubs: writable, without limits.
CreateContainerStub ==
    LET path == StubPath("ctrstub", i) IN
    \/ /\ i <= ContainerCount(Request0)
       /\ Again("stubs")
       /\ NewStubDrive(path, TRUE, None)
       /\ stubs' = Append(stubs, StubID(path))
       /\ UNCHANGED <<input, attempt, container, helper, mCfg, mountStubs, oci, guestVars,
                      fault>>
    \/ i <= ContainerCount(Request0) /\ path \in DOMAIN files /\ Fail("stubs")
    \/ /\ i > ContainerCount(Request0)
       /\ Goto("stubs", "mountStubs")
       /\ UNCHANGED <<input, attempt, hostVars, configVars, guestVars, fault>>

\* CreateDriveMountStubs.
CreateDriveMountStub ==
    LET mount == Request0.mounts[i]
        path == StubPath("drivemntstub", i)
        bad == IncompatibleOptions(mount.options, mount.writable) \/ path \in DOMAIN files
    IN
    \/ /\ i \in DOMAIN Request0.mounts /\ ~bad
       /\ Again("mountStubs")
       /\ NewStubDrive(path, mount.writable, mount.limiter)
       /\ mountStubs' = Append(mountStubs,
              [id |-> StubID(path), host |-> mount.host, vm |-> mount.vm,
               options |-> SetReadWriteOptions(mount.options, mount.writable)])
       /\ UNCHANGED <<input, attempt, container, helper, mCfg, stubs, oci, guestVars, fault>>
    \/ i \in DOMAIN Request0.mounts /\ bad /\ Fail("mountStubs")
    \/ /\ i \notin DOMAIN Request0.mounts
       /\ Goto("mountStubs", "nets")
       /\ UNCHANGED <<input, attempt, hostVars, configVars, guestVars, fault>>

AddNetworks ==
    LET nets == Networks(Config, Request0)
        bad == \E n \in DOMAIN nets : ~IsNetworkConfig(nets[n])
    IN
    \/ /\ ~bad
       /\ Goto("nets", "machine")
       /\ mc' = [mc EXCEPT !.nets = [n \in DOMAIN nets |-> NetworkConfig(nets[n])]]
       /\ UNCHANGED <<input, attempt, hostVars, helper, mCfg, stubs, mountStubs, oci,
                      guestVars, fault>>
    \/ bad /\ Fail("nets")

-----------------------------------------------------------------------------
(* BuildJailedMachine and NewMachine.                                      *)

\* The network namespace of the template stands in for one that is not named.
JailedConfig ==
    [mc EXCEPT !.netns = IF Jailed /\ @ = "" /\ Config.runc.netns # None
                         THEN Config.runc.netns ELSE @]

\* NewMachine of the SDK copies the configuration and names a namespace for the
\* interfaces that CNI sets up.
Populate(cfg) ==
    IF cfg.netns = "" /\ \E n \in DOMAIN cfg.nets : cfg.nets[n].kind = "cni"
    THEN [cfg EXCEPT !.netns = "cni"]
    ELSE cfg

NewMachine ==
    /\ Goto("machine", IF Jailed THEN "jailConfig" ELSE "vmm")
    /\ mc' = JailedConfig
    /\ mCfg' = Populate(JailedConfig)
    /\ UNCHANGED <<input, attempt, hostVars, helper, stubs, mountStubs, oci, guestVars,
                   fault>>

-----------------------------------------------------------------------------
(* BuildJailedRootHandler, which runs before the VMM is started.           *)

\* Mutant of OverwriteConfig: the configuration before NewMachine is used.
UnpopulatedOverwriteConfig ==
    [uid |-> Jailer.uid,
     netns |-> IF mc.netns # "" /\ Config.runc.netns # None
               THEN mc.netns ELSE Config.runc.netns]

\* The template with the user of the jail and the network namespace, if the
\* template has one.
OverwriteConfig ==
    [uid |-> Jailer.uid,
     netns |-> IF mCfg.netns # "" /\ Config.runc.netns # None
               THEN mCfg.netns ELSE Config.runc.netns]

\* A template without a process is a panic.
WriteOCIConfig ==
    LET bad == ~Config.runc.process \/ Config.runc.user # 0 IN
    \/ /\ ~bad
       /\ Goto("jailConfig", "jailFiles")
       /\ oci' = OverwriteConfig
       /\ UNCHANGED <<input, attempt, hostVars, helper, mc, mCfg, stubs, mountStubs,
                      guestVars, fault>>
    \/ bad /\ Fail("jailConfig")

\* copyFileToJail: cp makes a regular file, or overwrites one, but not itself.
CanCopy(src, dst) == src \in DOMAIN files /\ files[src].kind # "dir" /\ src # dst

Copied(src, dst, modes) ==
    Only(dst, [files[src] EXCEPT !.kind = "reg", !.owner = Jailer.uid, !.modes = modes])

\* The binary of the VMM and the kernel.
InJail(name) == Append(JailRoot, name)

JailFiles ==
    LET good == /\ CanCopy(FirecrackerBinaryPath, InJail("firecracker"))
                /\ CanCopy(mCfg.kernel, InJail("kernel-image"))
    IN
    \/ /\ phase = "jailFiles" /\ good
       /\ Goto("jailFiles", "jailDrives")
       /\ files' = Over(Copied(FirecrackerBinaryPath, InJail("firecracker"), {"r", "x"}),
                        Over(Copied(mCfg.kernel, InJail("kernel-image"), {"r"}), files))
       /\ mCfg' = [mCfg EXCEPT !.kernel = <<"kernel-image">>]
       /\ UNCHANGED <<input, attempt, container, helper, mc, stubs, mountStubs, oci,
                      guestVars, fault>>
    \/ phase = "jailFiles" /\ ~good /\ Fail("jailFiles")

IsStubDrive(file) == file.content.stub /\ file.sectors > 0

\* A stub drive was made in the jail; the other drives are copied there.
LeaveStub(path) == IsStubDrive(files[path])

JailDrive ==
    LET drive == mCfg.drives[i]
        dst == InJail(Last(drive.path))
        good == /\ drive.path \in DOMAIN files
                /\ LeaveStub(drive.path) \/ CanCopy(drive.path, dst)
    IN
    /\ phase = "jailDrives"
    /\ \/ /\ i \in DOMAIN mCfg.drives /\ good
          /\ Again("jailDrives")
          /\ files' = IF LeaveStub(drive.path) THEN files
                      ELSE Over(Copied(drive.path, dst, {"r"} \cup
                                           (IF drive.writable THEN {"w"} ELSE {})),
                                files)
          /\ mCfg' = [mCfg EXCEPT !.drives[i].path = <<Last(drive.path)>>]
          /\ UNCHANGED <<input, attempt, container, helper, mc, stubs, mountStubs, oci,
                         guestVars, fault>>
       \/ i \in DOMAIN mCfg.drives /\ ~good /\ Fail("jailDrives")
       \/ /\ i \notin DOMAIN mCfg.drives
          /\ Goto("jailDrives", "vmm")
          /\ UNCHANGED <<input, attempt, hostVars, configVars, guestVars, fault>>

-----------------------------------------------------------------------------
(* The VMM.                                                                *)

\* "runc run" of a container with the VM ID, or Firecracker itself.
StartVMM ==
    \/ /\ Jailed => ~container
       /\ Goto("vmm", "logs")
       /\ container' = (Jailed \/ container)
       /\ UNCHANGED <<input, attempt, files, configVars, guestVars, fault>>
    \/ Jailed /\ container /\ Fail("vmm")
    \/ Break("vmm")

\* CreateLogFiles of the SDK: mkfifo, of what must be new.
FifoFile(name, owner) == File("fifo", [stub |-> FALSE, of |-> name], owner, {"r", "w"})
LogFifos == {Append(VmDir, f) : f \in Fifos}

CreateLogFiles ==
    \/ /\ LogFifos \cap DOMAIN files = {}
       /\ Goto("logs", IF Jailed THEN "link" ELSE "attach")
       /\ files' = Over([path \in LogFifos |-> FifoFile(Last(path), 0)], files)
       /\ UNCHANGED <<input, attempt, container, configVars, guestVars, fault>>
    \/ LogFifos \cap DOMAIN files # {} /\ Fail("logs")

\* BuildLinkFifoHandler: hard links, which must be new and by which both names
\* get the owner.
JailFifos == {InJail(f) : f \in Fifos}

LinkFifos ==
    \/ /\ JailFifos \cap DOMAIN files = {}
       /\ Goto("link", "attach")
       /\ files' = Over([path \in LogFifos \cup JailFifos |->
                              FifoFile(Last(path), Jailer.uid)], files)
       /\ UNCHANGED <<input, attempt, container, configVars, guestVars, fault>>
    \/ JailFifos \cap DOMAIN files # {} /\ Fail("link")

\* What the VMM can open: root anything, the user of a jail its own files in
\* its own directories.
VmmPath(path) ==
    IF Jailed THEN JailRoot \o path ELSE path

CanOpen(path, modes) ==
    LET real == VmmPath(path) IN
    /\ real \in DOMAIN files /\ files[real].kind # "dir"
    /\ Jailed =>
          /\ files[real].owner = oci.uid /\ modes \subseteq files[real].modes
          /\ \A n \in Len(JailRoot)..(Len(real) - 1) :
                /\ SubSeq(real, 1, n) \in DOMAIN files
                /\ files[SubSeq(real, 1, n)].owner = oci.uid

DriveModes(drive) == IF drive.writable THEN {"r", "w"} ELSE {"r"}
LogPath(f) == IF Jailed THEN <<f>> ELSE Append(VmDir, f)

VmmOpensAll ==
    /\ CanOpen(mCfg.kernel, {"r"})
    /\ \A f \in Fifos : CanOpen(LogPath(f), {"w"})
    /\ \A n \in DOMAIN mCfg.drives :
           CanOpen(mCfg.drives[n].path, DriveModes(mCfg.drives[n]))

\* The logger, the kernel and the drives are given to the VMM.
Attach ==
    \/ /\ Goto("attach", "dial") /\ VmmOpensAll
       /\ devices' = [n \in DOMAIN mCfg.drives |-> files[VmmPath(mCfg.drives[n].path)]]
       /\ UNCHANGED <<input, attempt, hostVars, configVars, found, dirs, mounted, fault>>
    \/ phase = "attach" /\ ~VmmOpensAll /\ Fail("attach")

-----------------------------------------------------------------------------
(* The agent and the drives it mounts.                                     *)

\* discoverDrives: the ID of a drive is the content of its stub.
DiscoverDrives ==
    LET stubDevices == {n \in DOMAIN devices : IsStubDrive(devices[n])}
    IN  [id \in {devices[n].content.of : n \in stubDevices} |->
            Max({n \in stubDevices : devices[n].content.of = id})]

\* The agent is up when it can be dialed.
Dial ==
    \/ /\ Goto("dial", "expose")
       /\ found' = DiscoverDrives
       /\ UNCHANGED <<input, attempt, hostVars, configVars, devices, dirs, mounted, fault>>
    \/ Break("dial")

\* From one step of PatchAndMount to the next.
Move(from, to) ==
    phase = from /\ i \in DOMAIN mountStubs /\ phase' = to /\ i' = i

\* mkdirAllWithPermissions: the directories that are missing in the jail.
JailDirs(path) ==
    LET parents == {SubSeq(path, 1, n) : n \in Len(JailRoot)..(Len(path) - 1)}
    IN  [d \in parents \ DOMAIN files |-> Dir(Jailer.uid)]

\* ExposeFileToJail: a block device is made, and must be new; a regular file is
\* copied.
CanExpose(host) ==
    /\ host \in DOMAIN files
    /\ \/ files[host].kind = "blk" /\ JailRoot \o host \notin DOMAIN files
       \/ files[host].kind = "reg"

Exposed(host) ==
    LET path == JailRoot \o host
        modes == IF files[host].kind = "blk" THEN {"r", "w"} ELSE files[host].modes
    IN  Over(Only(path, [files[host] EXCEPT !.owner = Jailer.uid, !.modes = modes]),
             Over(JailDirs(path), files))

Expose ==
    LET host == mountStubs[i].host IN
    \/ /\ Move("expose", "patch")
       /\ IF Jailed THEN CanExpose(host) /\ files' = Exposed(host) ELSE UNCHANGED files
       /\ UNCHANGED <<input, attempt, container, configVars, guestVars, fault>>
    \/ i \in DOMAIN mountStubs /\ Jailed /\ ~CanExpose(host) /\ Fail("expose")

\* UpdateGuestDrive: the VMM opens the file behind the drive.
Device(id) == CHOOSE n \in DOMAIN mCfg.drives : mCfg.drives[n].id = id

Patch ==
    LET n == Device(mountStubs[i].id)
        host == mountStubs[i].host
        opens == CanOpen(host, DriveModes(mCfg.drives[n]))
    IN
    \/ /\ Move("patch", "mount") /\ opens
       /\ devices' = [devices EXCEPT ![n] = files[VmmPath(host)]]
       /\ UNCHANGED <<input, attempt, hostVars, configVars, found, dirs, mounted, fault>>
    \/ phase = "patch" /\ ~opens /\ Fail("patch")

\* MountDrive of the agent.  Of "ro" and "rw" the last counts for the mount.
MountDrive ==
    LET stub == mountStubs[i]
        n == found[stub.id]
        writable == stub.options[Max(ReadWriteOptions(stub.options))] = "rw"
        good == /\ stub.id \in DOMAIN found
                /\ ~IsSystemDir(dirs, stub.vm) /\ CanMkdirAll(dirs, stub.vm)
                /\ writable => mCfg.drives[n].writable
    IN
    \/ /\ phase = "mount" /\ good
       /\ phase' = "expose" /\ i' = i + 1
       /\ dirs' = MkdirAll(dirs, stub.vm)
       /\ mounted' = Over(Only(Lead(stub.vm),
                               [content |-> devices[n].content, writable |-> writable]),
                          mounted)
       /\ UNCHANGED <<input, attempt, hostVars, configVars, devices, found, fault>>
    \/ phase = "mount" /\ ~good /\ Fail("mount")
    \/ Break("mount")

Ready ==
    /\ i \notin DOMAIN mountStubs
    /\ Goto("expose", "ready")
    /\ UNCHANGED <<input, attempt, hostVars, configVars, guestVars, fault>>

-----------------------------------------------------------------------------
(* The end of the VM, and another CreateVM.                                *)

\* Mutant of WithoutVmDir: the jail is removed, not what is beside it.
WithoutJail == [path \in {p \in DOMAIN files : ~Below(JailRoot, p)} |-> files[path]]

WithoutVmDir == [path \in {p \in DOMAIN files : ~Below(VmDir, p)} |-> files[path]]

\* What fails in the end is a fault of what comes after.
RemoveVmDir(stays) == files' = IF stays THEN files ELSE WithoutVmDir

\* A failed CreateVM ends the shim.  The end of its context kills the VMM, or
\* the runc that ran it, which may or may not pass that on in time; the VM
\* directory is removed after the shim, or cannot be.
ShimExits ==
    /\ Goto("failed", "over")
    /\ \E stays \in BOOLEAN : RemoveVmDir(stays) /\ fault' = stays
    /\ container' \in {FALSE, container}
    /\ UNCHANGED <<input, attempt, configVars, guestVars>>

\* Stop and Close of the jailer, with the removal of the container.
StopVM ==
    /\ Goto("ready", "over")
    /\ container' \in {FALSE, container}
    /\ \E stays \in BOOLEAN : RemoveVmDir(stays) /\ fault' = (stays \/ container')
    /\ UNCHANGED <<input, attempt, configVars, guestVars>>

\* Another request for the same VM ID.
CreateVMAgain ==
    /\ attempt < MaxAttempts
    /\ Goto("over", "start")
    /\ attempt' = attempt + 1 /\ input' \in Retries
    /\ helper' = None /\ mc' = None /\ mCfg' = None /\ oci' = None
    /\ stubs' = << >> /\ mountStubs' = << >>
    /\ devices' = << >> /\ found' = << >> /\ dirs' = GuestDirs /\ mounted' = << >>
    /\ fault' = (fault \/ container)
    /\ UNCHANGED hostVars

Next ==
    \/ StartService \/ NewJailer \/ StartConfig
    \/ CreateContainerStub \/ CreateDriveMountStub \/ AddNetworks \/ NewMachine
    \/ WriteOCIConfig \/ JailFiles \/ JailDrive
    \/ StartVMM \/ CreateLogFiles \/ LinkFifos \/ Attach
    \/ Dial \/ Expose \/ Patch \/ MountDrive \/ Ready
    \/ ShimExits \/ StopVM \/ CreateVMAgain

Spec == Init /\ [][Next]_vars

-----------------------------------------------------------------------------
(* Properties.                                                             *)

\* The variables have their types, and there are as many stub drives as were
\* asked for: one per mount, and one per container but at least one.
TypeOK ==
    /\ i \in Nat /\ attempt \in 1..MaxAttempts
    /\ container \in BOOLEAN /\ fault \in BOOLEAN
    /\ phase = "nets" =>
           /\ Len(mountStubs) = Len(Request0.mounts)
           /\ Len(stubs) = Positive(Request0.count, 1)
           /\ Len(mc.drives) = 1 + Len(stubs) + Len(mountStubs)

\* Of two top levels, or two of a component, none is right.
Asked(levels, of) == {levels[n] : n \in {k \in DOMAIN levels : levels[k].of = of}}
Twice(levels) ==
    \E j, k \in DOMAIN levels : j # k /\ levels[j].of = levels[k].of
                                     /\ levels[j].of \in Components \cup {"top"}

\* A level is what was asked of the component, or else for all, in whatever
\* order; contradictory lists are refused.  The output of the VMM is shown if
\* it was asked for or for the top level debug, and not for error and info; of
\* warning the comments and the code of debug.go say different things.
LevelsAsAsked ==
    phase \notin {"start", "failed", "over"} =>
           LET levels == Config.levels
               Level(of) == CASE Asked(levels, of) # {} -> {e.level : e \in Asked(levels, of)}
                              [] OTHER -> {e.level : e \in Asked(levels, "top")}
               Got(level) == {level} \ {None}
               Debug == Asked(levels, "containerd") = {} /\ Config.shimDebug
           IN  /\ ~Twice(levels)
               /\ Got(GetFirecrackerLogLevel(helper)) = Level("firecracker")
               /\ Got(GetFirecrackerSDKLogLevel(helper)) = Level("sdk")
               /\ Got(GetFirecrackerContainerdLogLevel(helper, Config.shimDebug)) =
                      (IF Debug THEN {"debug"} ELSE Level("containerd"))
               /\ "warning" \notin Level("top") =>
                      (LogFirecrackerOutput(helper) <=>
                           Asked(levels, "output") # {} \/ "debug" \in Level("top"))

\* The files that the shim makes are its own: a root drive with the name of one
\* would overwrite it in the jail, as would a mount, a file in the VM directory
\* is there for a while only, and a root drive must not look like a stub.
ShimNames ==
    {"firecracker", "kernel-image"} \cup Fifos
        \cup {StubName("ctrstub", n) : n \in 1..ContainerCount(Request0)}
        \cup {StubName("drivemntstub", n) : n \in DOMAIN Request0.mounts}

KernelPath == OrDefault(Request0.kernel, Config.kernel)
RootPath == RootDrive(Config, Request0).path
MountHosts == {Request0.mounts[n].host : n \in DOMAIN Request0.mounts}

Apart ==
    /\ Last(RootPath) \notin ShimNames
    /\ RootPath \in DOMAIN HostFiles => ~IsStubDrive(HostFiles[RootPath])
    /\ \A path \in {KernelPath, RootPath} \cup MountHosts : ~Below(VmDir, path)
    /\ \A host \in MountHosts, name \in ShimNames \cup {Last(RootPath)} :
           ~Below(<<name>>, host)

\* A VMM that runs, in a jail or not, can open what its configuration names,
\* and with the rights that the drives need, finds there what the request
\* means, and runs as the user and in the network namespace that were asked
\* for, or the one in which the SDK sets up its interfaces.
VmmSeesItsFiles ==
    phase = "attach" /\ Apart =>
        /\ \A f \in Fifos : CanOpen(LogPath(f), {"w"})
        /\ \A n \in DOMAIN mCfg.drives : Jailed =>
               CanOpen(mCfg.drives[n].path, DriveModes(mCfg.drives[n]))
        /\ Jailed =>
               /\ oci.uid = Jailer.uid /\ oci.uid # 0
               /\ files[VmmPath(mCfg.kernel)].content = HostFiles[KernelPath].content
               /\ files[VmmPath(mCfg.drives[1].path)].content = HostFiles[RootPath].content
               /\ mCfg.netns # "" /\ Config.runc.netns # None => oci.netns = mCfg.netns

\* Options that name both "ro" and "rw" pass, but the last one counts.
Named(options) == {options[n] : n \in ReadWriteOptions(options)}
Ambiguous(mount) == Named(mount.options) = {"ro", "rw"}

\* Destinations without "." and "..", of which the test against the system
\* directories is right.
NoDots == \A n \in DOMAIN Request0.mounts : Plain(Request0.mounts[n].vm)

\* A VM that is ready has found exactly the stub drives that the shim will
\* refer to, each at the device that the VMM has for it, and every mount of the
\* request: the content of its file, writable or not as asked, at the place its
\* path leads to for the kernel, which is outside of /proc, /sys and /dev unless
\* there is a ".." in a destination.  The order of options that name both
\* decides instead.
GuestAsAsked ==
    phase = "ready" /\ Apart =>
        /\ DOMAIN found = ToSet(stubs) \cup {mountStubs[n].id : n \in DOMAIN mountStubs}
        /\ \A id \in DOMAIN found : mCfg.drives[found[id]].id = id
        /\ \A n \in DOMAIN Request0.mounts :
               LET mount == Request0.mounts[n]
                   place == Lead(mount.vm)
                   last == ~\E k \in DOMAIN Request0.mounts :
                               k > n /\ Lead(Request0.mounts[k].vm) = place
               IN  /\ NoDots => ~UnderBanned(place)
                   /\ last => /\ mounted[place].content = HostFiles[mount.host].content
                              /\ ~Ambiguous(mount) =>
                                     mounted[place].writable = mount.writable

\* What a CreateVM may be refused for: contradictory or unknown log levels, a
\* jail for root or with a template that names a user or no process, a file
\* that is missing, is a directory or has not the modes that are needed, one
\* block device for two mounts of a jail, a relative path, options that
\* contradict the drive, an address that is none, and a destination that leads
\* under a system directory, or over a link that leads nowhere.
Missing(path) == path \notin DOMAIN HostFiles \/ HostFiles[path].kind = "dir"

RefusedPlace(within, path) ==
    \/ UnderBanned(Lead(path))
    \/ \E k \in 1..Len(path) : Dangles(within, SubSeq(path, 1, k))

RefusedMount(mount) ==
    \/ ~IsAbs(mount.host) \/ ~IsAbs(mount.vm) \/ Missing(mount.host)
    \/ Named(mount.options) # {} /\ ReadWrite(mount.writable) \notin Named(mount.options)
    \/ Jailed /\ LET file == HostFiles[mount.host]
                 IN  \/ file.kind \notin {"blk", "reg"}
                     \/ file.kind = "reg" /\ ~(DriveModes(mount) \subseteq file.modes)

Refused(within) ==
    \/ Twice(Config.levels) \/ \E k \in DOMAIN Config.levels : Config.levels[k].of = "invalid"
    \/ Jailed /\ (Jailer.uid = 0 \/ Jailer.gid = 0 \/ Config.runc.user # 0
                      \/ ~Config.runc.process \/ Missing(FirecrackerBinaryPath))
    \/ Missing(KernelPath) \/ Missing(RootPath)
    \/ \E k \in DOMAIN Request0.mounts :
           RefusedMount(Request0.mounts[k]) \/ RefusedPlace(within, Request0.mounts[k].vm)
    \/ Jailed /\ \E j, k \in DOMAIN Request0.mounts :
           /\ j # k /\ Request0.mounts[j].host = Request0.mounts[k].host
           /\ HostFiles[Request0.mounts[j].host].kind = "blk"
    \/ \E k \in DOMAIN Networks(Config, Request0) :
           Networks(Config, Request0)[k].addr = "malformed"

\* CreateVM fails only for a request that is to be refused by the image as it
\* is, because something outside of the shim failed, or because the one before
\* left a container, or a directory that could not be removed; and it refuses
\* what is to be refused with the directories that it made.  In particular a VM
\* ID can be used again after a failure, whatever step it was and whatever the
\* next request is: nothing in the VM directory is in its way.
FailsOnlyForCause ==
    /\ phase = "failed" /\ Apart /\ NoDots =>
           \/ Refused(GuestDirs) \/ fault
           \/ \E k \in DOMAIN Request0.mounts : Ambiguous(Request0.mounts[k])
    /\ phase = "ready" /\ Apart /\ NoDots => ~Refused(dirs)

\* "Close will cleanup the container that may be left behind if the jailing
\* process was killed via SIGKILL."
LeavesNoContainer == phase = "over" /\ ~fault => ~container
=============================================================================
