---------------------------- MODULE IoProxyProofs ----------------------------
(***************************************************************************)
(* Proofs about IoProxy, for any set of streams at either end: type        *)
(* correctness, that a created process has all its streams connected, that *)
(* nothing closes them before the Wait of monitorExit has returned, and    *)
(* that they are closed after a Delete.                                    *)
(***************************************************************************)
EXTENDS IoProxy, TLAPS

-----------------------------------------------------------------------------
(* The inductive invariant.                                                *)

\* Where the goroutine of a stream has both results.
Connected == {"copy", "copyErr", "close", "end", "done"}

\* A result is consumed only by the goroutine of its stream, and only a side
\* that was opened is consumed without an error; nothing is closed earlier.
ConnInv ==
    \A s \in Streams :
        /\ proxy[s] = "none" => ~initErr[s]
        /\ proxy[s] # "none" => conn[s]["write"] # "none"
        /\ \A d \in Dirs :
              /\ proxy[s] = "none" => conn[s][d] # "taken"
              /\ proxy[s] \in Connected => conn[s][d] = "taken"
              /\ proxy[s] \notin Connected => open[s][d] # "closed"
              /\ conn[s][d] = "ok" => open[s][d] = "open"
              /\ conn[s][d] = "taken" /\ ~initErr[s] => open[s][d] # "none"

\* An error is on its way to initErrG or has arrived.
ErrInv ==
    \A s \in Streams :
        /\ proxy[s] = "report" => initErr[s]
        /\ initErr[s] /\ proxy[s] # "report" => initQ[s] > 0 \/ initGot[s] = "err"
        /\ initGot[s] = "ok" => proxy[s] \in Connected /\ ~initErr[s]

\* A copy is armed to end after the exit, and only then.
CopyInv ==
    \A s \in Streams :
        /\ timer[s] # "off" => proxy[s] \in Connected
        /\ proxy[s] = "copy" => timer[s] # "off" /\ ~initErr[s]
        /\ timer[s] \in {"half", "done"} => ctx
        /\ proxy[s] = "copy" /\ timer[s] = "armed" =>
               \A d \in Dirs : open[s][d] = "open"

\* A goroutine that is about to close copyDone has closed both sides.
ClosedInv ==
    \A s \in Streams :
        /\ copyGot[s] = "ok" => proxy[s] = "done"
        /\ proxy[s] \in {"end", "done"} => \A d \in Dirs : open[s][d] # "open"

\* What the requests have waited for.
CallInv ==
    /\ task \in {"starting", "creating", "await"} => ~ctx /\ monitor = "off"
    /\ monitor = "waits" => ~ctx
    /\ task \in Created => \A s \in Streams : initGot[s] = "ok"
    /\ task = "deleted" => \A s \in Streams : copyGot[s] # "no"

IInv == TypeOK /\ ConnInv /\ ErrInv /\ CopyInv /\ ClosedInv /\ CallInv

-----------------------------------------------------------------------------
(* Every step preserves every part of the invariant.                       *)

\* The steps of one side, and of the goroutines of one stream.
SideStep(s, d) ==
    \/ ConnectFifo(s, d) \/ ConnectVSock(s, d) \/ Dial(s, d) \/ Accept(s, d)
    \/ Receive(s, d)

StreamStep(s) ==
    \/ Report(s) \/ CloseInit(s) \/ EndCopy(s) \/ SendCopyErr(s) \/ Close(s)
    \/ CloseCopyDone(s) \/ Flush(s) \/ TakeInit(s) \/ TakeCopy(s)

\* A result keeps the types.
LEMMA OpenedType ==
    ASSUME TypeOK, NEW s \in Streams, NEW d \in Dirs, Opened(s, d)
    PROVE  /\ conn' \in [Streams -> [Dirs -> {"none", "busy", "tick", "stuck", "ok",
                                            "err", "taken"}]]
           /\ open' \in [Streams -> [Dirs -> {"none", "open", "closed"}]]
<1>1. CASE conn' = [conn EXCEPT ![s][d] = "ok"] /\ open' = [open EXCEPT ![s][d] = "open"]
  BY <1>1 DEF TypeOK
<1>2. CASE conn' = [conn EXCEPT ![s][d] = "err"] /\ UNCHANGED open
  BY <1>2 DEF TypeOK
<1> QED
  BY <1>1, <1>2 DEF Opened

LEMMA ConnType ==
    ASSUME TypeOK, NEW s \in Streams, NEW d \in Dirs, NEW v \in {"busy", "tick", "stuck"},
           conn' = [conn EXCEPT ![s][d] = v]
    PROVE  conn' \in [Streams -> [Dirs -> {"none", "busy", "tick", "stuck", "ok",
                                         "err", "taken"}]]
  BY DEF TypeOK

\* Every step keeps the variables in their types.
LEMMA TypeStep ==
    ASSUME TypeOK, [Next]_vars
    PROVE  TypeOK'
<1> USE DEF TypeOK, Opened, Go, Shut, NextSide, InitCap, Dirs,
       vars, callVars, sideVars, gotVars
<1>1. ASSUME NEW s \in Streams, NEW d \in Dirs, SideStep(s, d)
      PROVE  TypeOK'
  <2>1. CASE ConnectFifo(s, d)
    <3>1. Opened(s, d)
      BY <2>1 DEF ConnectFifo
    <3>2. proxy' = proxy \/ proxy' = [proxy EXCEPT ![s] = "init"]
      BY <2>1 DEF ConnectFifo
    <3>3. /\ end' = end /\ task' = task /\ monitor' = monitor /\ ctx' = ctx
          /\ initErr' = initErr /\ initQ' = initQ /\ initGot' = initGot /\ copyGot' = copyGot
          /\ timer' = timer
      BY <2>1, Zenon DEF ConnectFifo, callVars, gotVars
    <3> HIDE DEF Opened, Go, Shut, NextSide, Dirs, InitCap, vars, callVars, sideVars, gotVars
    <3> QED
      BY <3>1, <3>2, <3>3, OpenedType, Zenon
  <2>2. CASE ConnectVSock(s, d)
    <3>1. proxy' = proxy \/ proxy' = [proxy EXCEPT ![s] = "init"]
      <4>1. CASE proxy' = [proxy EXCEPT ![s] = IF d = "write" THEN "init" ELSE @]
        BY <4>1
      <4>2. CASE proxy' = [proxy EXCEPT ![s] = @]
        BY <4>2
      <4> QED
        BY <2>2, <4>1, <4>2 DEF ConnectVSock
    <3>2. \/ conn' = [conn EXCEPT ![s][d] = "busy"]
          \/ conn' = [conn EXCEPT ![s][d] = "stuck"]
      BY <2>2 DEF ConnectVSock
    <3>3. conn' \in [Streams -> [Dirs -> {"none", "busy", "tick", "stuck", "ok", "err", "taken"}]]
      BY <3>2, ConnType
    <3> QED
      BY <2>2, <3>1, <3>3 DEF ConnectVSock
  <2>3. CASE Dial(s, d)
    <3>1. \/ Opened(s, d)
          \/ open' = open /\ conn' = [conn EXCEPT ![s][d] = "tick"]
          \/ open' = open /\ conn' = [conn EXCEPT ![s][d] = "busy"]
      BY <2>3, Zenon DEF Dial, Retry
    <3>2. /\ end' = end /\ task' = task /\ monitor' = monitor /\ ctx' = ctx
          /\ proxy' = proxy /\ initErr' = initErr /\ initQ' = initQ /\ initGot' = initGot
          /\ copyGot' = copyGot /\ timer' = timer
      BY <2>3, Zenon DEF Dial, callVars, gotVars
    <3> HIDE DEF Opened, Go, Shut, NextSide, Dirs, InitCap, vars, callVars, sideVars, gotVars
    <3>3. CASE Opened(s, d)
      BY <3>2, <3>3, OpenedType, Zenon
    <3>4. ASSUME NEW v \in {"busy", "tick", "stuck"}, open' = open,
                 conn' = [conn EXCEPT ![s][d] = v]
          PROVE  TypeOK'
      <4>1. conn' \in [Streams -> [Dirs -> {"none", "busy", "tick", "stuck", "ok", "err",
                                           "taken"}]]
        BY <3>4, ConnType
      <4> QED
        BY <3>2, <3>4, <4>1, Zenon
    <3> QED
      BY <3>1, <3>3, <3>4
  <2>4. CASE Accept(s, d)
    <3>1. Opened(s, d)
      BY <2>4 DEF Accept
    <3> QED
      BY <2>4, <3>1, OpenedType DEF Accept
  <2>5. CASE Receive(s, d)  BY <2>5 DEF Receive
  <2> QED  BY <1>1, <2>1, <2>2, <2>3, <2>4, <2>5 DEF SideStep
<1>2. ASSUME NEW s \in Streams, StreamStep(s)
      PROVE  TypeOK'
  <2>1. CASE Report(s)  BY <2>1 DEF Report
  <2>2. CASE CloseInit(s)  BY <2>2 DEF CloseInit
  <2>3. CASE EndCopy(s)  BY <2>3 DEF EndCopy
  <2>4. CASE SendCopyErr(s)  BY <2>4 DEF SendCopyErr
  <2>5. CASE Close(s)  BY <2>5 DEF Close
  <2>6. CASE CloseCopyDone(s)  BY <2>6 DEF CloseCopyDone
  <2>7. CASE Flush(s)
    <3>1. open' \in [Streams -> [Dirs -> {"none", "open", "closed"}]]
      <4>1. PICK d \in Dirs : open' = [open EXCEPT ![s][d] = Shut(s, d)]
        BY <2>7, Zenon DEF Flush
      <4>2. Shut(s, d) \in {"none", "open", "closed"}
        OBVIOUS
      <4> HIDE DEF Shut
      <4> QED
        BY <4>1, <4>2
    <3>2. timer' \in [Streams -> {"off", "armed", "half", "done"}]
      BY <2>7 DEF Flush
    <3>3. /\ end' = end /\ task' = task /\ monitor' = monitor /\ ctx' = ctx
          /\ conn' = conn /\ proxy' = proxy /\ initErr' = initErr /\ initQ' = initQ
          /\ initGot' = initGot /\ copyGot' = copyGot
      BY <2>7, Zenon DEF Flush, callVars, gotVars
    <3> HIDE DEF Opened, Go, Shut, NextSide, Dirs, InitCap, vars, callVars, sideVars, gotVars
    <3> QED
      BY <3>1, <3>2, <3>3, Zenon
  <2>8. CASE TakeInit(s)
    <3>1. initQ[s] \in 0 .. 2
      BY <2>8 DEF TakeInit
    <3>2. initQ'[s] \in 0 .. 2
      BY <2>8 DEF TakeInit
    <3>3. initGot' \in [Streams -> {"no", "ok", "err"}]
      BY <2>8 DEF TakeInit
    <3> QED
      BY <2>8, <3>1, <3>2, <3>3 DEF TakeInit
  <2>9. CASE TakeCopy(s)  BY <2>9 DEF TakeCopy
  <2> QED
    BY <1>2, <2>1, <2>2, <2>3, <2>4, <2>5, <2>6, <2>7, <2>8, <2>9 DEF StreamStep
<1>3. CASE Started  BY <1>3 DEF Started
<1>4. CASE ServeCreate  BY <1>4 DEF ServeCreate
<1>5. CASE AwaitInit  BY <1>5 DEF AwaitInit
<1>6. CASE Exit  BY <1>6 DEF Exit
<1>7. CASE MonitorExit  BY <1>7 DEF MonitorExit
<1>8. CASE DeleteProcess  BY <1>8 DEF DeleteProcess
<1>9. CASE AwaitCopy  BY <1>9 DEF AwaitCopy
<1>10. CASE UNCHANGED vars  BY <1>10 DEF vars, callVars, sideVars, gotVars
<1> QED
  BY <1>1, <1>2, <1>3, <1>4, <1>5, <1>6, <1>7, <1>8, <1>9, <1>10
  DEF Next, SideStep, StreamStep, ProxyStep, TaskStep

\* Every step keeps the results with the goroutine of their stream.
LEMMA ConnStep ==
    ASSUME TypeOK, ConnInv, CopyInv, [Next]_vars
    PROVE  ConnInv'
<1> USE DEF TypeOK, ConnInv, CopyInv, Connected, Opened, Go, Shut, NextSide, Dirs,
       vars, callVars, sideVars, gotVars
<1>1. ASSUME NEW s \in Streams, NEW d \in Dirs, SideStep(s, d)
      PROVE  ConnInv'
  <2>1. CASE ConnectFifo(s, d)  BY <2>1 DEF ConnectFifo
  <2>2. CASE ConnectVSock(s, d)  BY <2>2 DEF ConnectVSock
  <2>3. CASE Dial(s, d)  BY <2>3 DEF Dial, Retry
  <2>4. CASE Accept(s, d)
    <3>1. proxy[s] \notin Connected
      BY <2>4 DEF Accept
    <3>2. \A t \in Streams : \A e \in Dirs :
             <<t, e>> # <<s, d>> => conn'[t][e] = conn[t][e] /\ open'[t][e] = open[t][e]
      BY <2>4 DEF Accept
    <3>3. \/ conn'[s][d] = "ok" /\ open'[s][d] = "open"
          \/ conn'[s][d] = "err" /\ open'[s][d] = open[s][d]
      BY <2>4 DEF Accept
    <3>4. proxy' = proxy /\ initErr' = initErr
      BY <2>4 DEF Accept
    <3>5. conn[s][d] = "busy"
      BY <2>4 DEF Accept
    <3>6. proxy[s] # "none" => conn'[s]["write"] # "none"
      <4>1. CASE d = "write"
        BY <3>3, <4>1
      <4>2. CASE d = "read"
        <5>1. conn'[s]["write"] = conn[s]["write"]
          BY <3>2, <4>2
        <5> QED
          BY <5>1
      <4> QED
        BY <4>1, <4>2
    <3> SUFFICES ASSUME NEW t \in Streams, NEW e \in Dirs
                 PROVE  /\ proxy'[t] = "none" => ~initErr'[t]
                        /\ proxy'[t] # "none" => conn'[t]["write"] # "none"
                        /\ proxy'[t] = "none" => conn'[t][e] # "taken"
                        /\ proxy'[t] \in Connected => conn'[t][e] = "taken"
                        /\ proxy'[t] \notin Connected => open'[t][e] # "closed"
                        /\ conn'[t][e] = "ok" => open'[t][e] = "open"
                        /\ conn'[t][e] = "taken" /\ ~initErr'[t] => open'[t][e] # "none"
      BY DEF ConnInv
    <3> HIDE DEF ConnInv, CopyInv, TypeOK, Opened, Go, Shut, NextSide, vars, callVars,
             sideVars, gotVars, Dirs
    <3>a. /\ proxy[t] = "none" => ~initErr[t]
          /\ proxy[t] # "none" => conn[t]["write"] # "none"
          /\ proxy[t] = "none" => conn[t][e] # "taken"
          /\ proxy[t] \in Connected => conn[t][e] = "taken"
          /\ proxy[t] \notin Connected => open[t][e] # "closed"
          /\ conn[t][e] = "ok" => open[t][e] = "open"
          /\ conn[t][e] = "taken" /\ ~initErr[t] => open[t][e] # "none"
      BY DEF ConnInv
    <3>7. CASE t = s /\ e = d
      BY <3>1, <3>3, <3>4, <3>5, <3>6, <3>7, <3>a
    <3>8. CASE ~(t = s /\ e = d)
      <4>1. conn'[t][e] = conn[t][e] /\ open'[t][e] = open[t][e]
        BY <3>2, <3>8
      <4>2. proxy[t] # "none" => conn'[t]["write"] # "none"
        <5>1. CASE t = s
          BY <3>6, <5>1
        <5>2. CASE t # s
          <6>1. conn'[t]["write"] = conn[t]["write"]
            BY <3>2, <5>2 DEF Dirs
          <6> QED
            BY <3>a, <6>1
        <5> QED
          BY <5>1, <5>2
      <4> QED
        BY <3>4, <3>a, <4>1, <4>2
    <3> QED
      BY <3>7, <3>8
  <2>5. CASE Receive(s, d)  BY <2>5 DEF Receive
  <2> QED  BY <1>1, <2>1, <2>2, <2>3, <2>4, <2>5 DEF SideStep
<1>2. ASSUME NEW s \in Streams, StreamStep(s)
      PROVE  ConnInv'
  <2>1. CASE Report(s)  BY <2>1 DEF Report
  <2>2. CASE CloseInit(s)  BY <2>2 DEF CloseInit
  <2>3. CASE EndCopy(s)  BY <2>3 DEF EndCopy
  <2>4. CASE SendCopyErr(s)  BY <2>4 DEF SendCopyErr
  <2>5. CASE Close(s)  BY <2>5 DEF Close
  <2>6. CASE CloseCopyDone(s)  BY <2>6 DEF CloseCopyDone
  <2>7. CASE Flush(s)
    <3>1. timer[s] # "off" /\ proxy' = proxy /\ conn' = conn /\ initErr' = initErr
      BY <2>7 DEF Flush
    <3>2. \A t \in Streams : \A d \in Dirs :
             \/ open'[t][d] = open[t][d]
             \/ t = s /\ open[t][d] = "open" /\ open'[t][d] = "closed"
      BY <2>7 DEF Flush
    <3>3. proxy[s] \in Connected
      BY <3>1
    <3> HIDE DEF Opened, Go, Shut, NextSide, vars, callVars, sideVars, gotVars
    <3> QED
      BY <3>1, <3>2, <3>3
  <2>8. CASE TakeInit(s)  BY <2>8 DEF TakeInit
  <2>9. CASE TakeCopy(s)  BY <2>9 DEF TakeCopy
  <2> QED
    BY <1>2, <2>1, <2>2, <2>3, <2>4, <2>5, <2>6, <2>7, <2>8, <2>9 DEF StreamStep
<1>3. CASE Started  BY <1>3 DEF Started
<1>4. CASE ServeCreate  BY <1>4 DEF ServeCreate
<1>5. CASE AwaitInit  BY <1>5 DEF AwaitInit
<1>6. CASE Exit  BY <1>6 DEF Exit
<1>7. CASE MonitorExit  BY <1>7 DEF MonitorExit
<1>8. CASE DeleteProcess  BY <1>8 DEF DeleteProcess
<1>9. CASE AwaitCopy  BY <1>9 DEF AwaitCopy
<1>10. CASE UNCHANGED vars  BY <1>10 DEF vars, callVars, sideVars, gotVars
<1> QED
  BY <1>1, <1>2, <1>3, <1>4, <1>5, <1>6, <1>7, <1>8, <1>9, <1>10
  DEF Next, SideStep, StreamStep, ProxyStep, TaskStep

\* No step loses an error of a connector.
LEMMA ErrStep ==
    ASSUME TypeOK, ConnInv, ErrInv, [Next]_vars
    PROVE  ErrInv'
<1> USE DEF TypeOK, ConnInv, ErrInv, Connected, Opened, Go, NextSide, InitCap, Dirs,
       vars, callVars, sideVars, gotVars
<1>1. ASSUME NEW s \in Streams, NEW d \in Dirs, SideStep(s, d)
      PROVE  ErrInv'
  <2>1. CASE ConnectFifo(s, d)  BY <2>1 DEF ConnectFifo
  <2>2. CASE ConnectVSock(s, d)
    <3>1. \A t \in Streams : \/ proxy'[t] = proxy[t]
                             \/ proxy'[t] = "init" /\ proxy[t] = "none"
      BY <2>2 DEF ConnectVSock
    <3>2. UNCHANGED <<initErr, initQ, initGot>>
      BY <2>2 DEF ConnectVSock
    <3>3. ASSUME NEW t \in Streams, proxy[t] = "none"
          PROVE  ~initErr[t] /\ initGot[t] # "ok"
      BY <3>3
    <3> QED
      BY <3>1, <3>2, <3>3
  <2>3. CASE Dial(s, d)  BY <2>3 DEF Dial, Retry
  <2>4. CASE Accept(s, d)  BY <2>4 DEF Accept
  <2>5. CASE Receive(s, d)  BY <2>5 DEF Receive
  <2> QED  BY <1>1, <2>1, <2>2, <2>3, <2>4, <2>5 DEF SideStep
<1>2. ASSUME NEW s \in Streams, StreamStep(s)
      PROVE  ErrInv'
  <2>1. CASE Report(s)
    <3>1. proxy[s] = "report" /\ proxy'[s] = "init" /\ initQ'[s] = initQ[s] + 1
      BY <2>1 DEF Report
    <3>2. \A t \in Streams : t # s => proxy'[t] = proxy[t] /\ initQ'[t] = initQ[t]
      BY <2>1 DEF Report
    <3>3. UNCHANGED <<initErr, initGot>> /\ initQ[s] \in Nat
      BY <2>1 DEF Report
    <3>4. initQ'[s] > 0 /\ initGot[s] # "ok"
      BY <3>1, <3>3
    <3> HIDE DEF Opened, Go, NextSide, vars, callVars, sideVars, gotVars
    <3> QED
      BY <3>1, <3>2, <3>3, <3>4
  <2>2. CASE CloseInit(s)  BY <2>2 DEF CloseInit
  <2>3. CASE EndCopy(s)  BY <2>3 DEF EndCopy
  <2>4. CASE SendCopyErr(s)  BY <2>4 DEF SendCopyErr
  <2>5. CASE Close(s)  BY <2>5 DEF Close
  <2>6. CASE CloseCopyDone(s)  BY <2>6 DEF CloseCopyDone
  <2>7. CASE Flush(s)  BY <2>7 DEF Flush
  <2>8. CASE TakeInit(s)  BY <2>8 DEF TakeInit
  <2>9. CASE TakeCopy(s)  BY <2>9 DEF TakeCopy
  <2> QED
    BY <1>2, <2>1, <2>2, <2>3, <2>4, <2>5, <2>6, <2>7, <2>8, <2>9 DEF StreamStep
<1>3. CASE Started  BY <1>3 DEF Started
<1>4. CASE ServeCreate  BY <1>4 DEF ServeCreate
<1>5. CASE AwaitInit  BY <1>5 DEF AwaitInit
<1>6. CASE Exit  BY <1>6 DEF Exit
<1>7. CASE MonitorExit  BY <1>7 DEF MonitorExit
<1>8. CASE DeleteProcess  BY <1>8 DEF DeleteProcess
<1>9. CASE AwaitCopy  BY <1>9 DEF AwaitCopy
<1>10. CASE UNCHANGED vars  BY <1>10 DEF vars, callVars, sideVars, gotVars
<1> QED
  BY <1>1, <1>2, <1>3, <1>4, <1>5, <1>6, <1>7, <1>8, <1>9, <1>10
  DEF Next, SideStep, StreamStep, ProxyStep, TaskStep

\* Every step leaves a copy its two sides until the exit.
LEMMA CopyStep ==
    ASSUME TypeOK, ConnInv, CopyInv, [Next]_vars
    PROVE  CopyInv'
<1> USE DEF TypeOK, ConnInv, CopyInv, Connected, Opened, Go, Shut, NextSide, Dirs,
       vars, callVars, sideVars, gotVars
<1>1. ASSUME NEW s \in Streams, NEW d \in Dirs, SideStep(s, d)
      PROVE  CopyInv'
  <2>1. CASE ConnectFifo(s, d)  BY <2>1 DEF ConnectFifo
  <2>2. CASE ConnectVSock(s, d)  BY <2>2 DEF ConnectVSock
  <2>3. CASE Dial(s, d)
    <3>1. proxy[s] # "copy"
      BY <2>3 DEF Dial
    <3>2. \A t \in Streams : t # s => open'[t] = open[t]
      BY <2>3 DEF Dial, Retry
    <3> QED
      BY <2>3, <3>1, <3>2 DEF Dial, Retry
  <2>4. CASE Accept(s, d)
    <3>1. proxy[s] # "copy"
      BY <2>4 DEF Accept
    <3>2. \A t \in Streams : t # s => open'[t] = open[t]
      BY <2>4 DEF Accept
    <3> QED
      BY <2>4, <3>1, <3>2 DEF Accept
  <2>5. CASE Receive(s, d)  BY <2>5 DEF Receive
  <2> QED  BY <1>1, <2>1, <2>2, <2>3, <2>4, <2>5 DEF SideStep
<1>2. ASSUME NEW s \in Streams, StreamStep(s)
      PROVE  CopyInv'
  <2>1. CASE Report(s)  BY <2>1 DEF Report
  <2>2. CASE CloseInit(s)  BY <2>2 DEF CloseInit
  <2>3. CASE EndCopy(s)  BY <2>3 DEF EndCopy
  <2>4. CASE SendCopyErr(s)  BY <2>4 DEF SendCopyErr
  <2>5. CASE Close(s)  BY <2>5 DEF Close
  <2>6. CASE CloseCopyDone(s)  BY <2>6 DEF CloseCopyDone
  <2>7. CASE Flush(s)  BY <2>7 DEF Flush
  <2>8. CASE TakeInit(s)  BY <2>8 DEF TakeInit
  <2>9. CASE TakeCopy(s)  BY <2>9 DEF TakeCopy
  <2> QED
    BY <1>2, <2>1, <2>2, <2>3, <2>4, <2>5, <2>6, <2>7, <2>8, <2>9 DEF StreamStep
<1>3. CASE Started  BY <1>3 DEF Started
<1>4. CASE ServeCreate  BY <1>4 DEF ServeCreate
<1>5. CASE AwaitInit  BY <1>5 DEF AwaitInit
<1>6. CASE Exit  BY <1>6 DEF Exit
<1>7. CASE MonitorExit  BY <1>7 DEF MonitorExit
<1>8. CASE DeleteProcess  BY <1>8 DEF DeleteProcess
<1>9. CASE AwaitCopy  BY <1>9 DEF AwaitCopy
<1>10. CASE UNCHANGED vars  BY <1>10 DEF vars, callVars, sideVars, gotVars
<1> QED
  BY <1>1, <1>2, <1>3, <1>4, <1>5, <1>6, <1>7, <1>8, <1>9, <1>10
  DEF Next, SideStep, StreamStep, ProxyStep, TaskStep

\* copyDone is closed after the sides.
LEMMA ClosedStep ==
    ASSUME TypeOK, ConnInv, ClosedInv, [Next]_vars
    PROVE  ClosedInv'
<1> USE DEF TypeOK, ConnInv, ClosedInv, Connected, Opened, Go, Shut, NextSide, Dirs,
       vars, callVars, sideVars, gotVars
<1>1. ASSUME NEW s \in Streams, NEW d \in Dirs, SideStep(s, d)
      PROVE  ClosedInv'
  <2>1. CASE ConnectFifo(s, d)  BY <2>1 DEF ConnectFifo
  <2>2. CASE ConnectVSock(s, d)  BY <2>2 DEF ConnectVSock
  <2>3. CASE Dial(s, d)
    <3>1. proxy[s] \notin {"end", "done"}
      BY <2>3 DEF Dial
    <3>2. \A t \in Streams : t # s => open'[t] = open[t]
      BY <2>3 DEF Dial, Retry
    <3> QED
      BY <2>3, <3>1, <3>2 DEF Dial, Retry
  <2>4. CASE Accept(s, d)
    <3>1. proxy[s] \notin {"end", "done"}
      BY <2>4 DEF Accept
    <3>2. \A t \in Streams : t # s => open'[t] = open[t]
      BY <2>4 DEF Accept
    <3> QED
      BY <2>4, <3>1, <3>2 DEF Accept
  <2>5. CASE Receive(s, d)  BY <2>5 DEF Receive
  <2> QED  BY <1>1, <2>1, <2>2, <2>3, <2>4, <2>5 DEF SideStep
<1>2. ASSUME NEW s \in Streams, StreamStep(s)
      PROVE  ClosedInv'
  <2>1. CASE Report(s)  BY <2>1 DEF Report
  <2>2. CASE CloseInit(s)  BY <2>2 DEF CloseInit
  <2>3. CASE EndCopy(s)  BY <2>3 DEF EndCopy
  <2>4. CASE SendCopyErr(s)  BY <2>4 DEF SendCopyErr
  <2>5. CASE Close(s)  BY <2>5 DEF Close
  <2>6. CASE CloseCopyDone(s)  BY <2>6 DEF CloseCopyDone
  <2>7. CASE Flush(s)  BY <2>7 DEF Flush
  <2>8. CASE TakeInit(s)  BY <2>8 DEF TakeInit
  <2>9. CASE TakeCopy(s)  BY <2>9 DEF TakeCopy
  <2> QED
    BY <1>2, <2>1, <2>2, <2>3, <2>4, <2>5, <2>6, <2>7, <2>8, <2>9 DEF StreamStep
<1>3. CASE Started  BY <1>3 DEF Started
<1>4. CASE ServeCreate  BY <1>4 DEF ServeCreate
<1>5. CASE AwaitInit  BY <1>5 DEF AwaitInit
<1>6. CASE Exit  BY <1>6 DEF Exit
<1>7. CASE MonitorExit  BY <1>7 DEF MonitorExit
<1>8. CASE DeleteProcess  BY <1>8 DEF DeleteProcess
<1>9. CASE AwaitCopy  BY <1>9 DEF AwaitCopy
<1>10. CASE UNCHANGED vars  BY <1>10 DEF vars, callVars, sideVars, gotVars
<1> QED
  BY <1>1, <1>2, <1>3, <1>4, <1>5, <1>6, <1>7, <1>8, <1>9, <1>10
  DEF Next, SideStep, StreamStep, ProxyStep, TaskStep

\* The requests wait for all streams.
LEMMA CallStep ==
    ASSUME TypeOK, CallInv, [Next]_vars
    PROVE  CallInv'
<1> USE DEF TypeOK, CallInv, Created, NextSide,
       vars, callVars, sideVars, gotVars
<1>1. ASSUME NEW s \in Streams, NEW d \in Dirs, SideStep(s, d)
      PROVE  CallInv'
  <2>1. CASE ConnectFifo(s, d)  BY <2>1 DEF ConnectFifo
  <2>2. CASE ConnectVSock(s, d)  BY <2>2 DEF ConnectVSock
  <2>3. CASE Dial(s, d)  BY <2>3 DEF Dial, Retry
  <2>4. CASE Accept(s, d)  BY <2>4 DEF Accept
  <2>5. CASE Receive(s, d)  BY <2>5 DEF Receive
  <2> QED  BY <1>1, <2>1, <2>2, <2>3, <2>4, <2>5 DEF SideStep
<1>2. ASSUME NEW s \in Streams, StreamStep(s)
      PROVE  CallInv'
  <2>1. CASE Report(s)  BY <2>1 DEF Report
  <2>2. CASE CloseInit(s)  BY <2>2 DEF CloseInit
  <2>3. CASE EndCopy(s)  BY <2>3 DEF EndCopy
  <2>4. CASE SendCopyErr(s)  BY <2>4 DEF SendCopyErr
  <2>5. CASE Close(s)  BY <2>5 DEF Close
  <2>6. CASE CloseCopyDone(s)  BY <2>6 DEF CloseCopyDone
  <2>7. CASE Flush(s)  BY <2>7 DEF Flush
  <2>8. CASE TakeInit(s)  BY <2>8 DEF TakeInit
  <2>9. CASE TakeCopy(s)  BY <2>9 DEF TakeCopy
  <2> QED
    BY <1>2, <2>1, <2>2, <2>3, <2>4, <2>5, <2>6, <2>7, <2>8, <2>9 DEF StreamStep
<1>3. CASE Started  BY <1>3 DEF Started
<1>4. CASE ServeCreate  BY <1>4 DEF ServeCreate
<1>5. CASE AwaitInit  BY <1>5 DEF AwaitInit
<1>6. CASE Exit  BY <1>6 DEF Exit
<1>7. CASE MonitorExit  BY <1>7 DEF MonitorExit
<1>8. CASE DeleteProcess  BY <1>8 DEF DeleteProcess
<1>9. CASE AwaitCopy  BY <1>9 DEF AwaitCopy
<1>10. CASE UNCHANGED vars  BY <1>10 DEF vars, callVars, sideVars, gotVars
<1> QED
  BY <1>1, <1>2, <1>3, <1>4, <1>5, <1>6, <1>7, <1>8, <1>9, <1>10
  DEF Next, SideStep, StreamStep, ProxyStep, TaskStep

-----------------------------------------------------------------------------
(* The theorems.                                                           *)

\* The invariant is one.
LEMMA Invariance == Spec => []IInv
<1>1. Init => IInv
  <2> SUFFICES ASSUME Init PROVE IInv
    OBVIOUS
  <2> USE DEF Init
  <2>1. TypeOK
    <3>1. conn \in [Streams -> [Dirs -> {"none", "busy", "tick", "stuck", "ok", "err", "taken"}]]
      OBVIOUS
    <3>2. open \in [Streams -> [Dirs -> {"none", "open", "closed"}]]
      OBVIOUS
    <3>3. initErr \in [Streams -> BOOLEAN] /\ ctx \in BOOLEAN
      OBVIOUS
    <3>4. initQ \in [Streams -> 0 .. InitCap]
      BY DEF InitCap
    <3> QED
      BY <3>1, <3>2, <3>3, <3>4, Zenon DEF TypeOK
  <2>2. ConnInv /\ ErrInv /\ CopyInv /\ ClosedInv
    BY DEF ConnInv, ErrInv, CopyInv, ClosedInv, Connected, Dirs
  <2>3. CallInv
    BY DEF CallInv, Created
  <2> QED
    BY <2>1, <2>2, <2>3 DEF IInv
<1>2. IInv /\ [Next]_vars => IInv'
  BY TypeStep, ConnStep, ErrStep, CopyStep, ClosedStep, CallStep DEF IInv
<1> QED
  BY <1>1, <1>2, PTL DEF Spec

\* The variables keep their types, whatever the streams and the end.
THEOREM TypeCorrect == Spec => []TypeOK
<1>1. IInv => TypeOK
  BY DEF IInv
<1> QED
  BY <1>1, Invariance, PTL

\* CreateTask and ExecProcess report success only if every stream of the
\* process was connected at both sides.
THEOREM AllConnected == Spec => []CreatedIsConnected
<1>1. IInv => CreatedIsConnected
  <2> SUFFICES ASSUME IInv, task \in Created, NEW s \in Streams, NEW d \in Dirs
               PROVE  conn[s][d] = "taken" /\ open[s][d] # "none"
    BY DEF CreatedIsConnected
  <2>1. proxy[s] \in Connected /\ ~initErr[s]
    BY DEF IInv, CallInv, ErrInv
  <2> QED
    BY <2>1 DEF IInv, ConnInv
<1> QED
  BY <1>1, Invariance, PTL

\* Until the Wait of monitorExit returns, with an exit or with an error, the
\* streams of a created process are closed by nobody but their peers.
THEOREM NotCutShort == Spec => []LivesWithProcess
<1>1. IInv => LivesWithProcess
  BY DEF IInv, TypeOK, CallInv, CopyInv, LivesWithProcess
<1> QED
  BY <1>1, Invariance, PTL

\* DeleteProcess returns after the streams are closed, or after a copy has
\* reported its error.
THEOREM ClosedAfterDelete == Spec => []DeletedIsClosed
<1>1. IInv => DeletedIsClosed
  <2> SUFFICES ASSUME IInv, task = "deleted", NEW s \in Streams, NEW d \in Dirs,
                      copyGot[s] # "err"
               PROVE  open[s][d] = "closed"
    BY DEF DeletedIsClosed
  <2>1. copyGot[s] = "ok" /\ initGot[s] = "ok"
    BY DEF IInv, TypeOK, CallInv, Created
  <2>2. proxy[s] = "done" /\ ~initErr[s]
    BY <2>1 DEF IInv, ClosedInv, ErrInv
  <2>3. open[s][d] # "open" /\ open[s][d] # "none"
    BY <2>2 DEF IInv, ClosedInv, ConnInv, Connected
  <2> QED
    BY <2>3 DEF IInv, TypeOK
<1> QED
  BY <1>1, Invariance, PTL
=============================================================================
