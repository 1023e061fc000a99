------------------------------- MODULE IoProxy -------------------------------
(***************************************************************************)
(* The streams of one process in one TaskManager (internal/vm/ioproxy.go,  *)
(* vsock.go, fifo.go): connectors open both sides of each stream, on the   *)
(* host a FIFO and a vsock dialled into the VM, in the VM a FIFO and an    *)
(* accepted vsock; a goroutine per stream waits for both, copies and       *)
(* closes; CreateTask or ExecProcess waits for all streams to be           *)
(* connected and DeleteProcess for all copies to end.                      *)
(*                                                                         *)
(* The contents of the streams are left out.  ioCtx is cancelled when the  *)
(* goroutine of the stream ends, after both connectors: nothing sees it.   *)
(* The context of the shim or the agent itself, of which proc.ctx is made, *)
(* is cancelled when that program ends: it is left out.                    *)
(***************************************************************************)
EXTENDS Naturals

CONSTANTS
    Streams,       \* the streams the process has
    ListenMayFail  \* whether VSockListener can fail

Rank == [stdin |-> 1, stdout |-> 2, stderr |-> 3]

ASSUME StreamsAssumption == Streams \subseteq DOMAIN Rank
ASSUME ListenMayFailAssumption == ListenMayFail \in BOOLEAN

VARIABLES
    end,      \* where this TaskManager is: "host" or "guest"
    task,     \* where the requests for the process are
    monitor,  \* monitorExit: not started, in Wait, or past it
    ctx,      \* proc.ctx is cancelled
    conn,     \* the connector of each side of each stream, or its result
    open,     \* the stream each connector opened
    proxy,    \* the goroutine of each stream
    initErr,  \* ioInitErr of each stream is not nil
    initQ,    \* the number of errors in initDone of each stream
    initGot,  \* what initErrG has got from each stream
    copyGot,  \* what copyErrG has got from each stream
    timer     \* the goroutine that closes a stream after the exit

callVars == <<task, monitor, ctx>>
sideVars == <<conn, open>>
gotVars == <<initGot, copyGot>>
vars == <<end, callVars, sideVars, proxy, initErr, initQ, gotVars, timer>>

Dirs == {"read", "write"}

\* newIOProxy on the host, Create and Exec of the agent in the VM: data for
\* stdin comes from the host.
FifoDir(s) == IF (s = "stdin") = (end = "host") THEN "read" ELSE "write"

Init ==
    /\ end \in {"host", "guest"}
    /\ task = "starting"
    /\ monitor = "off"
    /\ ctx = FALSE
    /\ conn = [s \in Streams |-> [d \in Dirs |-> "none"]]
    /\ open = [s \in Streams |-> [d \in Dirs |-> "none"]]
    /\ proxy = [s \in Streams |-> "none"]
    /\ initErr = [s \in Streams |-> FALSE]
    /\ initQ = [s \in Streams |-> 0]
    /\ initGot = [s \in Streams |-> "no"]
    /\ copyGot = [s \in Streams |-> "no"]
    /\ timer = [s \in Streams |-> "off"]

-----------------------------------------------------------------------------
(* The connectors.                                                         *)

\* A connector has its result, which opens a stream or is an error.
Opened(s, d) ==
    \/ conn' = [conn EXCEPT ![s][d] = "ok"] /\ open' = [open EXCEPT ![s][d] = "open"]
    \/ conn' = [conn EXCEPT ![s][d] = "err"] /\ UNCHANGED open

\* isTemporaryNetErr: above all a missing acknowledgement, because nothing
\* listens in the VM yet, or nothing listens any more.
Retry(s, d) == conn' = [conn EXCEPT ![s][d] = "tick"] /\ UNCHANGED open

\* start and proxy call the connectors one by one.
NextSide(s, d) ==
    /\ task = "starting"
    /\ conn[s][d] = "none"
    /\ d = "write" => conn[s]["read"] \notin {"none", "stuck"}
    /\ \A t \in Streams : Rank[t] < Rank[s] => conn[t]["write"] \notin {"none", "stuck"}

\* The goroutine of a stream starts after its second connector returned.
Go(s, d, ok) == proxy' = [proxy EXCEPT ![s] = IF d = "write" /\ ok THEN "init" ELSE @]

\* fifoConnector opens at once and has room for its result.
ConnectFifo(s, d) ==
    /\ NextSide(s, d) /\ d = FifoDir(s)
    /\ Opened(s, d)
    /\ Go(s, d, TRUE)
    /\ UNCHANGED <<end, callVars, initErr, initQ, gotVars, timer>>

\* VSockDialConnector and VSockAcceptConnector start a goroutine.  If the port
\* cannot be listened on, the latter sends its result to a channel that its
\* caller has not got yet.
ConnectVSock(s, d) ==
    /\ NextSide(s, d) /\ d # FifoDir(s)
    /\ \/ conn' = [conn EXCEPT ![s][d] = "busy"] /\ Go(s, d, TRUE)
       \/ /\ end = "guest" /\ ListenMayFail
          /\ conn' = [conn EXCEPT ![s][d] = "stuck"] /\ Go(s, d, FALSE)
    /\ UNCHANGED <<end, callVars, open, initErr, initQ, gotVars, timer>>

\* VSockDial, one turn of its loop: the attempt connects or fails, and after a
\* temporary failure the next one comes with the next tick.  ioCtx is not
\* cancelled while the connector is waited for, and nothing counts the turns.
Dial(s, d) ==
    /\ end = "host"
    /\ \/ conn[s][d] = "busy" /\ (Opened(s, d) \/ Retry(s, d))
       \/ /\ conn[s][d] = "tick"
          /\ conn' = [conn EXCEPT ![s][d] = "busy"] /\ UNCHANGED open
    /\ UNCHANGED <<end, callVars, proxy, initErr, initQ, gotVars, timer>>

\* Accept of the listener in the VM: the timeout is looked at before and after
\* an accept of the socket, which waits until the host dials.
Accept(s, d) ==
    /\ end = "guest"
    /\ conn[s][d] = "busy"
    /\ Opened(s, d)
    /\ UNCHANGED <<end, callVars, proxy, initErr, initQ, gotVars, timer>>

-----------------------------------------------------------------------------
(* proxy: the goroutine of a stream.                                       *)

\* The capacity of initDone.
InitCap == 2

\* One result is consumed.
Receive(s, d) ==
    /\ proxy[s] = "init"
    /\ conn[s][d] \in {"ok", "err"}
    /\ conn' = [conn EXCEPT ![s][d] = "taken"]
    /\ IF conn[s][d] = "err"
       THEN /\ initErr' = [initErr EXCEPT ![s] = TRUE]
            /\ proxy' = [proxy EXCEPT ![s] = "report"]
       ELSE UNCHANGED <<initErr, proxy>>
    /\ UNCHANGED <<end, callVars, open, initQ, gotVars, timer>>

\* initDone <- ioInitErr: there is room, or somebody waits for it.
Report(s) ==
    /\ proxy[s] = "report"
    /\ initQ[s] < InitCap \/ (initQ[s] = 0 /\ initGot[s] = "no")
    /\ initQ' = [initQ EXCEPT ![s] = @ + 1]
    /\ proxy' = [proxy EXCEPT ![s] = "init"]
    /\ UNCHANGED <<end, callVars, sideVars, initErr, gotVars, timer>>

\* Mutant of CloseInit: one result is enough, as with && in the loop.
HastyCloseInit(s) ==
    /\ proxy[s] = "init"
    /\ \E d \in Dirs : conn[s][d] = "taken"
    /\ proxy' = [proxy EXCEPT ![s] = IF initErr[s] THEN "close" ELSE "copy"]
    /\ timer' = [timer EXCEPT ![s] = IF initErr[s] THEN @ ELSE "armed"]
    /\ UNCHANGED <<end, callVars, sideVars, initErr, initQ, gotVars>>

\* Mutant of CloseInit: on an error the goroutine returns at once.
LeakyCloseInit(s) ==
    /\ proxy[s] = "init"
    /\ \A d \in Dirs : conn[s][d] = "taken"
    /\ proxy' = [proxy EXCEPT ![s] = IF initErr[s] THEN "end" ELSE "copy"]
    /\ timer' = [timer EXCEPT ![s] = IF initErr[s] THEN @ ELSE "armed"]
    /\ UNCHANGED <<end, callVars, sideVars, initErr, initQ, gotVars>>

\* Both results are in: initDone is closed, and the streams are copied or, on
\* an error, closed.
CloseInit(s) ==
    /\ proxy[s] = "init"
    /\ \A d \in Dirs : conn[s][d] = "taken"
    /\ proxy' = [proxy EXCEPT ![s] = IF initErr[s] THEN "close" ELSE "copy"]
    /\ timer' = [timer EXCEPT ![s] = IF initErr[s] THEN @ ELSE "armed"]
    /\ UNCHANGED <<end, callVars, sideVars, initErr, initQ, gotVars>>

\* io.CopyBuffer returns at the end of the input or with an error; it must if
\* the stream it reads was closed.
EndCopy(s) ==
    /\ proxy[s] = "copy"
    /\ \/ open[s]["read"] = "open" /\ proxy' = [proxy EXCEPT ![s] = "close"]
       \/ proxy' = [proxy EXCEPT ![s] = "copyErr"]
    /\ UNCHANGED <<end, callVars, sideVars, initErr, initQ, gotVars, timer>>

\* copyDone <- err: copyErrG receives it.
SendCopyErr(s) ==
    /\ proxy[s] = "copyErr"
    /\ copyGot[s] = "no"
    /\ copyGot' = [copyGot EXCEPT ![s] = "err"]
    /\ proxy' = [proxy EXCEPT ![s] = "close"]
    /\ UNCHANGED <<end, callVars, sideVars, initErr, initQ, initGot, timer>>

Shut(s, d) == IF open[s][d] = "open" THEN "closed" ELSE open[s][d]

\* Mutant of Close: the deferred close(copyDone) comes first.
LateClose(s) ==
    /\ proxy[s] \in {"close", "done"}
    /\ proxy' = [proxy EXCEPT ![s] = IF @ = "close" THEN "done" ELSE "end"]
    /\ open' = [open EXCEPT ![s] = IF proxy[s] = "done" THEN [d \in Dirs |-> Shut(s, d)] ELSE @]
    /\ UNCHANGED <<end, callVars, conn, initErr, initQ, gotVars, timer>>

\* logClose of both sides, at once or deferred, before close(copyDone).
Close(s) ==
    /\ proxy[s] = "close"
    /\ proxy' = [proxy EXCEPT ![s] = "end"]
    /\ open' = [open EXCEPT ![s] = [d \in Dirs |-> Shut(s, d)]]
    /\ UNCHANGED <<end, callVars, conn, initErr, initQ, gotVars, timer>>

CloseCopyDone(s) ==
    /\ proxy[s] = "end"
    /\ proxy' = [proxy EXCEPT ![s] = "done"]
    /\ UNCHANGED <<end, callVars, sideVars, initErr, initQ, gotVars, timer>>

\* Mutant of Flush: only the writer is closed.
WriterFlush(s) ==
    /\ ctx
    /\ timer[s] = "armed" /\ timer' = [timer EXCEPT ![s] = "done"]
    /\ open' = [open EXCEPT ![s]["write"] = Shut(s, "write")]
    /\ UNCHANGED <<end, callVars, conn, proxy, initErr, initQ, gotVars>>

\* The goroutine that waits for the exit and, after the timeout, closes the
\* reader and then the writer.
Flush(s) ==
    /\ ctx
    /\ \/ /\ timer[s] = "armed" /\ timer' = [timer EXCEPT ![s] = "half"]
          /\ open' = [open EXCEPT ![s]["read"] = Shut(s, "read")]
       \/ /\ timer[s] = "half" /\ timer' = [timer EXCEPT ![s] = "done"]
          /\ open' = [open EXCEPT ![s]["write"] = Shut(s, "write")]
    /\ UNCHANGED <<end, callVars, conn, proxy, initErr, initQ, gotVars>>

\* Mutant of TakeInit: an error is taken from a channel that is only closed.
EmptyTakeInit(s) ==
    /\ initGot[s] = "no"
    /\ initQ[s] > 0 \/ proxy[s] \notin {"none", "init", "report"}
    /\ initQ' = [initQ EXCEPT ![s] = @ - 1]
    /\ initGot' = [initGot EXCEPT ![s] = "err"]
    /\ UNCHANGED <<end, callVars, sideVars, proxy, initErr, copyGot, timer>>

\* initErrG and copyErrG read one value of each channel, nil if it is closed.
TakeInit(s) ==
    /\ initGot[s] = "no"
    /\ \/ /\ initQ[s] > 0 /\ initQ' = [initQ EXCEPT ![s] = @ - 1]
          /\ initGot' = [initGot EXCEPT ![s] = "err"]
       \/ /\ initQ[s] = 0 /\ proxy[s] \notin {"none", "init", "report"}
          /\ initGot' = [initGot EXCEPT ![s] = "ok"] /\ UNCHANGED initQ
    /\ UNCHANGED <<end, callVars, sideVars, proxy, initErr, copyGot, timer>>

TakeCopy(s) ==
    /\ copyGot[s] = "no" /\ proxy[s] = "done"
    /\ copyGot' = [copyGot EXCEPT ![s] = "ok"]
    /\ UNCHANGED <<end, callVars, sideVars, proxy, initErr, initQ, initGot, timer>>

ProxyStep(s) ==
    \/ \E d \in Dirs : Receive(s, d)
    \/ Report(s) \/ CloseInit(s) \/ SendCopyErr(s) \/ Close(s) \/ CloseCopyDone(s)
    \/ Flush(s) \/ TakeInit(s) \/ TakeCopy(s)

-----------------------------------------------------------------------------
(* The requests of the TaskManager.                                        *)

\* start returns.
Started ==
    /\ task = "starting"
    /\ \A s \in Streams : \A d \in Dirs : conn[s][d] \notin {"none", "stuck"}
    /\ task' = "creating"
    /\ UNCHANGED <<end, monitor, ctx, sideVars, proxy, initErr, initQ, gotVars, timer>>

\* Mutant of ServeCreate: the process's context is cancelled in any case.
CancellingServeCreate ==
    /\ task = "creating"
    /\ task' \in {"await", "failed"} /\ ctx' = TRUE
    /\ UNCHANGED <<end, monitor, sideVars, proxy, initErr, initQ, gotVars, timer>>

\* The request to the next task service, and the deferred cancel.
ServeCreate ==
    /\ task = "creating"
    /\ \/ task' = "await" /\ UNCHANGED ctx
       \/ task' = "failed" /\ ctx' = TRUE
    /\ UNCHANGED <<end, monitor, sideVars, proxy, initErr, initQ, gotVars, timer>>

\* err = <-proc.ioInitDone: initErrG.Wait returns when all streams are in, and
\* without an error monitorExit is started.
AwaitInit ==
    /\ task = "await"
    /\ \A s \in Streams : initGot[s] # "no"
    /\ IF \E s \in Streams : initGot[s] = "err"
       THEN task' = "failed" /\ ctx' = TRUE /\ UNCHANGED monitor
       ELSE task' = "running" /\ monitor' = "waits" /\ UNCHANGED ctx
    /\ UNCHANGED <<end, sideVars, proxy, initErr, initQ, gotVars, timer>>

Exit ==
    /\ task = "running"
    /\ task' = "exited"
    /\ UNCHANGED <<end, monitor, ctx, sideVars, proxy, initErr, initQ, gotVars, timer>>

\* Wait returns some time after the exit, or with an error at any time, as when
\* the connection to the agent breaks; proc.cancel is called in either case.
MonitorExit ==
    /\ monitor = "waits" /\ monitor' = "done"
    /\ ctx' = TRUE
    /\ UNCHANGED <<end, task, sideVars, proxy, initErr, initQ, gotVars, timer>>

DeleteProcess ==
    /\ task = "exited"
    /\ task' = "deleting"
    /\ UNCHANGED <<end, monitor, ctx, sideVars, proxy, initErr, initQ, gotVars, timer>>

\* <-proc.ioCopyDone: copyErrG.Wait returns when all streams are in.
AwaitCopy ==
    /\ task = "deleting"
    /\ \A s \in Streams : copyGot[s] # "no"
    /\ task' = "deleted"
    /\ UNCHANGED <<end, monitor, ctx, sideVars, proxy, initErr, initQ, gotVars, timer>>

TaskStep == Started \/ AwaitInit \/ AwaitCopy

Next ==
    \/ \E s \in Streams : \E d \in Dirs :
          ConnectFifo(s, d) \/ ConnectVSock(s, d) \/ Dial(s, d) \/ Accept(s, d)
    \/ \E s \in Streams : ProxyStep(s) \/ EndCopy(s)
    \/ TaskStep \/ ServeCreate \/ Exit \/ MonitorExit \/ DeleteProcess

Spec == Init /\ [][Next]_vars

\* Goroutines run, the attempts of a dial go on, and a copy ends when the stream
\* it reads was closed.  Nothing is assumed of how an attempt ends, of an accept,
\* and of the requests to the next task service.
Fairness ==
    /\ WF_vars(TaskStep)
    /\ \A s \in Streams :
          /\ WF_vars(ProxyStep(s))
          /\ WF_vars(open[s]["read"] = "closed" /\ EndCopy(s))
          /\ \A d \in Dirs : WF_vars(ConnectFifo(s, d) \/ ConnectVSock(s, d) \/ Dial(s, d))

FairSpec == Spec /\ Fairness

-----------------------------------------------------------------------------
(* Properties.                                                             *)

TypeOK ==
    /\ end \in {"host", "guest"}
    /\ task \in {"starting", "creating", "await", "failed", "running", "exited",
                 "deleting", "deleted"}
    /\ monitor \in {"off", "waits", "done"}
    /\ ctx \in BOOLEAN
    /\ conn \in [Streams -> [Dirs -> {"none", "busy", "tick", "stuck", "ok", "err",
                                  "taken"}]]
    /\ open \in [Streams -> [Dirs -> {"none", "open", "closed"}]]
    /\ proxy \in [Streams -> {"none", "init", "report", "copy", "copyErr", "close",
                              "end", "done"}]
    /\ initErr \in [Streams -> BOOLEAN]
    /\ initQ \in [Streams -> 0 .. InitCap]
    /\ initGot \in [Streams -> {"no", "ok", "err"}]
    /\ copyGot \in [Streams -> {"no", "ok", "err"}]
    /\ timer \in [Streams -> {"off", "armed", "half", "done"}]

Created == {"running", "exited", "deleting", "deleted"}

\* A process that was reported as created had both sides of all its streams
\* opened: the error of any connector, early or late, reaches its creator.
CreatedIsConnected ==
    task \in Created =>
        \A s \in Streams : \A d \in Dirs : conn[s][d] = "taken" /\ open[s][d] # "none"

\* Until the Wait of monitorExit has returned, the streams of a created process
\* are copied between two open sides, or the copy has ended by itself: nothing
\* that went on while it was created closes them later.
LivesWithProcess ==
    monitor = "waits" =>
        \A s \in Streams : proxy[s] = "copy" => \A d \in Dirs : open[s][d] = "open"

\* "Wait for the io streams to be flushed+closed before returning": after a
\* Delete no stream is open, except one whose copy ended with an error, which
\* is reported before the close.
DeletedIsClosed ==
    task = "deleted" =>
        \A s \in Streams : copyGot[s] = "err" \/ \A d \in Dirs : open[s][d] = "closed"

Waiting(s, d) == conn[s][d] \in {"busy", "tick"}

\* Every dial and every accept ends, with a connection or an error.
ConnectorsEnd == []<>(\A s \in Streams : \A d \in Dirs : ~Waiting(s, d))

\* The next task service answers Create and Exec, and Wait after the exit.
ServiceAnswers ==
    /\ []<>(task # "creating")
    /\ []<>(task \in {"exited", "deleting"} => monitor # "waits")

\* The creator of a process hears of it: the results of the connectors, errors
\* too, neither block the goroutines nor get lost on the way.
CreateReturns ==
    ConnectorsEnd /\ ServiceAnswers
        => (task = "starting" ~> task \in Created \cup {"failed"})

\* A Delete returns, though the streams may be held open by others.
DeleteReturns == ServiceAnswers => (task = "deleting" ~> task = "deleted")

\* Where the next task service answers, no Delete waits without end for a
\* stream, and no Create for anything but a connector.
CallsReturn == CreateReturns /\ DeleteReturns

\* "consume both so we can ensure both end up closed in the case of an error":
\* when the process is over, or its creation failed and nobody reads the
\* channels, no stream stays open once its connectors are through.
StreamsEnd ==
    \A s \in Streams :
        (ctx /\ \A d \in Dirs : conn[s][d] \in {"ok", "err", "taken"})
            ~> (\A d \in Dirs : open[s][d] # "open")
=============================================================================
