------------------------------ MODULE MCVmSetup ------------------------------
(***************************************************************************)
(* A small host and guest, and the configurations and requests for TLC.    *)
(***************************************************************************)
EXTENDS VmSetup

MCHostFile(kind, path, modes) ==
    path :> [File(kind, [stub |-> FALSE, of |-> path], 0, modes) EXCEPT !.sectors = 8]

MCHostFiles ==
    MCHostFile("reg", FirecrackerBinaryPath, {"r", "w", "x"})
    @@ MCHostFile("reg", DefaultKernelPath, {"r", "w"})
    @@ MCHostFile("reg", DefaultRootfsPath, {"r", "w"})
    @@ MCHostFile("reg", <<"img", "kernel">>, {"r"})
    @@ MCHostFile("reg", <<"img", "root">>, {"r", "w"})
    @@ MCHostFile("reg", <<"img", "data">>, {"r", "w"})
    @@ MCHostFile("reg", <<"img", "fc-logs.fifo">>, {"r", "w"})
    @@ MCHostFile("reg", <<"img", "fixed">>, {"r"})
    @@ MCHostFile("blk", <<"dev", "vol">>, {"r", "w"})
    @@ MCHostFile("dir", <<"img">>, {"r", "w"})

MCGuestDirs ==
    {<< >>, <<"proc">>, <<"sys">>, <<"dev">>, <<"mnt">>, <<"mnt", "data">>}

\* Links to a directory, to a system directory, to nothing and to itself, as a
\* file would be given.
MCGuestLinks ==
    <<"data">> :> <<"mnt", "data">> @@ <<"mnt", "kernel">> :> <<"sys">>
        @@ <<"lost">> :> <<"nowhere">> @@ <<"loop">> :> <<"loop">>

Mount(host, vm, writable, options) ==
    [host |-> host, vm |-> vm, writable |-> writable, options |-> options,
     limiter |-> None]

GoodMounts == {
    Mount(<<"img", "data">>, <<"data", "a">>, TRUE, << >>),
    Mount(<<"img", "fixed">>, <<"mnt", "data", "a">>, FALSE, <<"noatime">>),
    Mount(<<"dev", "vol">>, <<"new", "dir">>, TRUE, <<"rw">>)}

Mounts ==
    {Mount(host, vm, TRUE, << >>) :
        host \in {<<"img", "data">>, <<"img", "fixed">>, <<"img">>, <<"img", "none">>,
                  <<".", "data">>, <<"dev", "vol">>},
        vm \in {<<"data", "a">>, <<"mnt", "kernel", "a">>, <<"lost", "a">>,
                <<"loop", "a">>, <<"dev", "a">>, <<".", "a">>,
                <<"data", "..", "new", ".", "a">>, <<"mnt", "kernel", "..", "proc">>,
                <<"new", "..", "lost">>, <<"mnt", "..", "dev">>}}
    \cup {Mount(<<"dev", "vol">>, <<"data">>, writable, options) :
             writable \in BOOLEAN,
             options \in {<< >>, <<"ro">>, <<"rw">>, <<"rw", "ro">>, <<"ro", "rw">>}}

\* A link to nothing, until the mount before it has made what it leads to.
MadeForTheNext ==
    <<Mount(<<"img", "data">>, <<"nowhere">>, TRUE, << >>),
      Mount(<<"img", "fixed">>, <<"lost", "a">>, FALSE, << >>)>>

Jailers == {None, [uid |-> 7, gid |-> 8, netns |-> ""], [uid |-> 7, gid |-> 8, netns |-> "ns"]}

Limiter == [bandwidth |-> [burst |-> 0, refill |-> 5, capacity |-> 9]]
Net(kind, addr) == [kind |-> kind, addr |-> addr, in |-> Limiter, out |-> None]
NetLists == {None, << >>, <<Net("cni", "none")>>,
             <<Net("static", "cidr"), Net("static", "malformed")>>}

Runcs == [process : BOOLEAN, user : {0, 5}, netns : {None, "", "template"}]

Machines == {None, [template |-> None, vcpus |-> 2, mem |-> 0, ht |-> TRUE]}

Requests ==
    {StartShimRequest(None), StartShimRequest("annotated")}
    \cup {Request([jailer |-> j, mounts |-> <<mount>>]) : j \in Jailers, mount \in Mounts}
    \cup {Request([jailer |-> j, mounts |-> <<a, b>>, count |-> 2]) :
             j \in Jailers, a, b \in GoodMounts}
    \cup {Request([jailer |-> j, mounts |-> MadeForTheNext]) : j \in Jailers}
    \cup {Request([jailer |-> [uid |-> u, gid |-> g, netns |-> ""]]) : u, g \in {0, 7}}
    \cup {Request([jailer |-> j, kernel |-> k, machine |-> ma,
                   root |-> [path |-> p, writable |-> w, limiter |-> Limiter]]) :
             j \in Jailers, k \in {None, <<"img", "kernel">>, <<"img", "none">>},
             p \in {<<"img", "root">>, <<"dev", "vol">>, <<"img", "none">>},
             w \in BOOLEAN, ma \in Machines}
    \cup {Request([jailer |-> j,
                   root |-> [path |-> <<"img", "fc-logs.fifo">>, writable |-> FALSE,
                             limiter |-> None]]) : j \in Jailers}

\* Requests that fail at different steps, and such that do not.
RetryRequests ==
    {Request([jailer |-> j, mounts |-> <<mount>>]) :
        j \in {None, [uid |-> 7, gid |-> 8, netns |-> ""]},
        mount \in {Mount(<<"img", "data">>, <<"data", "a">>, TRUE, << >>),
                   Mount(<<"img", "fixed">>, <<"data", "a">>, TRUE, << >>),
                   Mount(<<"img", "data">>, <<"mnt", "kernel", "a">>, TRUE, << >>)}}
    \cup {Request([jailer |-> [uid |-> 8, gid |-> 8, netns |-> ""], kernel |-> k]) :
             k \in {None, <<"img", "none">>}}

MCRetries ==
    [file : {<< >>}, request : RetryRequests]
    \cup [file : {[levels |-> <<[of |-> "invalid", level |-> None]>>]},
          request : {Request(<< >>)}]

\* The lists of up to three levels, with a plain request; the networks and the
\* templates of the jail; every request with an empty configuration; and those that
\* are made again.
MCInputs ==
    [file : [levels : UNION {[1..n -> Entries] : n \in 0..3}, shimDebug : BOOLEAN],
     request : {Request(<< >>)}]
    \cup [file : [nets : {<< >>, <<Net("cni", "none")>>}, runc : Runcs],
          request : {Request([jailer |-> j, nets |-> n]) : j \in Jailers, n \in NetLists}]
    \cup [file : {<< >>}, request : Requests]
    \cup MCRetries
=============================================================================
