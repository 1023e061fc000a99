-------------------------- MODULE ShimServiceProofs --------------------------
(***************************************************************************)
(* Proofs about ShimService, for any set of calls and any MaxTasks.        *)
(*                                                                         *)
(* IInv strengthens the four safety invariants of the module.  Its core is *)
(* OneCreator: at most one call is past vmStartOnce, so nothing a creator  *)
(* has established (the machine, the clients, the events) is undone by     *)
(* another one.                                                            *)
(***************************************************************************)
EXTENDS ShimService, SequenceTheorems, TLAPS

\* The places of a creator: before it has set the clients, before it has
\* announced the VM, and all of them.
NoClients == {"build", "start", "dial"}
Unannounced == NoClients \cup {"arm", "mount", "announce"}
Ran == Unannounced \cup {"abort", "monitor", "ready", "created", "failed"}

OneCreator ==
    /\ \A c, d \in Calls : pc[c] \in Ran /\ pc[d] \in Ran => c = d
    /\ once = "idle" => \A c \in Calls : pc[c] \notin Ran

\* The clients are set after the VMM was started, exitAfter after the clients.
ClientsInv ==
    /\ clients => machine \in {"running", "exited"}
    /\ exitAfter \/ vmReady => clients
    /\ once = "idle" => ~clients
    /\ \A c \in Calls :
          /\ pc[c] \in NoClients => ~clients
          /\ pc[c] \in {"arm", "mount", "announce", "monitor", "ready"} => clients
          /\ pc[c] = "arm" => ~exitAfter

\* Whoever waits for the cleanup has seen the VMM exit.
CleanInv ==
    /\ \A c \in Calls :
          /\ pc[c] \in {"clean", "stopped", "forced"} => clients /\ machine = "exited"
          /\ pc[c] \in {"stopped", "forced"} => cleanup = "done"
    /\ cleanup \in {"cancel", "done"} => Published("stop")
    /\ cleanup = "done" => shimDone

\* As long as containerd's Shutdown was not accepted, the stop event waits
\* for the monitor, and the monitor for the start event.
OrderInv ==
    ~isShutdown =>
        /\ \A c \in Calls :
              /\ pc[c] \in {"stop", "clean"} => vmReady
              /\ pc[c] \in Unannounced => events = <<>> /\ monitor = "off"
              /\ pc[c] = "monitor" => events = <<"start">> /\ monitor = "off"
        /\ once = "idle" => events = <<>> /\ monitor = "off"
        /\ vmReady \/ (\E c \in Calls : pc[c] = "ready") => monitor # "off"
        /\ monitor = "off" => cleanup = "idle" /\ events \in {<<>>, <<"start">>}
        /\ monitor # "off" =>
              events = IF cleanup \in {"idle", "publish"}
                       THEN <<"start">> ELSE <<"start", "stop">>

IInv ==
    /\ TypeOK
    /\ OneCreator
    /\ ClientsInv
    /\ ShutdownFindsVM
    /\ AcceptedShutdownIsEmpty
    /\ CleanInv
    /\ OrderInv

-----------------------------------------------------------------------------
\* The two histories of a VM that is not shut down as empty.
LEMMA AppendStart ==
    ASSUME NEW s, s = <<>> PROVE Append(s, "start") = <<"start">>
OBVIOUS

LEMMA AppendStop ==
    ASSUME NEW s, s = <<"start">> PROVE Append(s, "stop") = <<"start", "stop">>
<1> DEFINE t == Append(s, "stop")
           u == <<"start", "stop">>
<1>1. s \in Seq({"start", "stop"}) /\ Len(s) = 1 /\ s[1] = "start"
  OBVIOUS
<1>2. t \in Seq({"start", "stop"}) /\ Len(t) = 2 /\ t[1] = "start" /\ t[2] = "stop"
  BY <1>1, AppendProperties
<1>3. u \in Seq({"start", "stop"}) /\ Len(u) = 2 /\ u[1] = "start" /\ u[2] = "stop"
  OBVIOUS
<1>4. \A i \in 1 .. 2 : i = 1 \/ i = 2
  OBVIOUS
<1> HIDE DEF t, u
<1>5. t = u
  BY <1>2, <1>3, <1>4, SeqEqual
<1>6. QED
  BY <1>5 DEF t, u

\* Every step keeps the types.
LEMMA TypeInductive ==
    TypeOK /\ [Next]_vars => TypeOK'
<1> SUFFICES ASSUME TypeOK, [Next]_vars PROVE TypeOK'
  OBVIOUS
<1> USE MaxTasksAssumption, JailerSignalsAssumption DEF TypeOK, CreatePc, StopPc, Replies, Pc, Goto, vars, vmVars, taskVars, cleanVars, readyVars
<1>1. ASSUME NEW c \in Calls, CreateVM(c) PROVE TypeOK'
  BY <1>1 DEF CreateVM
<1>2. ASSUME NEW c \in Calls, StopVM(c) PROVE TypeOK'
  BY <1>2 DEF StopVM
<1>3. ASSUME NEW c \in Calls, Shutdown(c) PROVE TypeOK'
  <2>1. CASE exitAfter /\ tasks = 0
    BY <1>3, <2>1 DEF Shutdown
  <2>2. CASE ~(exitAfter /\ tasks = 0)
    BY <1>3, <2>2 DEF Shutdown
  <2>3. QED
    BY <2>1, <2>2
<1>4. ASSUME NEW c \in Calls, StartOnce(c) PROVE TypeOK'
  BY <1>4 DEF StartOnce
<1>5. ASSUME NEW c \in Calls, Build(c) PROVE TypeOK'
  BY <1>5 DEF Build
<1>6. ASSUME NEW c \in Calls, StartMachine(c) PROVE TypeOK'
  BY <1>6 DEF StartMachine
<1>7. ASSUME NEW c \in Calls, DialAgent(c) PROVE TypeOK'
  <2>1. pc' \in [Calls -> Pc] /\ once' \in {"idle", "running", "done"}
    BY <1>7 DEF DialAgent
  <2>2. clients' \in BOOLEAN
    BY <1>7 DEF DialAgent
  <2>3. QED
    BY <1>7, <2>1, <2>2 DEF DialAgent
<1>8. ASSUME NEW c \in Calls, ArmExit(c) PROVE TypeOK'
  BY <1>8 DEF ArmExit
<1>9. ASSUME NEW c \in Calls, MountDrives(c) PROVE TypeOK'
  BY <1>9 DEF MountDrives
<1>10. ASSUME NEW c \in Calls, AbortCreate(c) PROVE TypeOK'
  BY <1>10 DEF AbortCreate
<1>11. ASSUME NEW c \in Calls, AnnounceVM(c) PROVE TypeOK'
  BY <1>11 DEF AnnounceVM
<1>12. ASSUME NEW c \in Calls, GoMonitor(c) PROVE TypeOK'
  BY <1>12 DEF GoMonitor
<1>13. ASSUME NEW c \in Calls, OpenGate(c) PROVE TypeOK'
  BY <1>13 DEF OpenGate
<1>14. ASSUME NEW c \in Calls, WaitVMReady(c) PROVE TypeOK'
  BY <1>14 DEF WaitVMReady
<1>15. ASSUME NEW c \in Calls, AwaitMachine(c) PROVE TypeOK'
  BY <1>15 DEF AwaitMachine
<1>16. ASSUME NEW c \in Calls, ReplyStop(c) PROVE TypeOK'
  BY <1>16 DEF ReplyStop
<1>17. ASSUME NEW c \in Calls, AskAgent(c) PROVE TypeOK'
  BY <1>17 DEF AskAgent
<1>agent. ASSUME NEW c \in Calls, AgentReturns(c) PROVE TypeOK'
  BY <1>agent DEF AgentReturns
<1>18. ASSUME NEW c \in Calls, StopJailer(c) PROVE TypeOK'
  BY <1>18 DEF StopJailer
<1>19. CASE MonitorVMExit
  BY <1>19 DEF MonitorVMExit
<1>20. CASE CloseJailer
  BY <1>20 DEF CloseJailer
<1>21. CASE PublishVMStop
  BY <1>21 DEF PublishVMStop
<1>22. CASE CancelShim
  BY <1>22 DEF CancelShim
<1>23. CASE NewProc
  BY <1>23 DEF NewProc
<1>24. CASE DeleteProc
  BY <1>24 DEF DeleteProc
<1>25. CASE VmmExits
  BY <1>25 DEF VmmExits
<1>26. CASE ShimExits
  <2>1. \A c \in Calls :
           (IF pc[c] \in Replies \cup {"idle"} THEN pc[c] ELSE "closed") \in Pc
    OBVIOUS
  <2>2. pc' \in [Calls -> Pc]
    BY <1>26, <2>1 DEF ShimExits
  <2>3. up' \in BOOLEAN
    BY <1>26 DEF ShimExits
  <2>4. UNCHANGED <<loop, monitor, vmVars, taskVars, cleanVars, readyVars>>
    BY <1>26 DEF ShimExits
  <2>5. QED
    BY <2>2, <2>3, <2>4
<1>27. CASE UNCHANGED vars
  BY <1>27
<1>28. QED
  BY <1>1, <1>2, <1>3, <1>4, <1>5, <1>6, <1>7, <1>8, <1>9, <1>10, <1>11,
     <1>12, <1>13, <1>14, <1>15, <1>16, <1>17, <1>agent, <1>18, <1>19, <1>20,
     <1>21, <1>22, <1>23, <1>24, <1>25, <1>26, <1>27
     DEF Next, CallStep, GoroutineStep, BackgroundStep, CreateStep, StopStep,
         LoopStep, CleanupStep

\* vmStartOnce lets a second creator in at no step.
LEMMA OneCreatorInductive ==
    TypeOK /\ OneCreator /\ [Next]_vars => OneCreator'
<1> SUFFICES ASSUME TypeOK, OneCreator, [Next]_vars PROVE OneCreator'
  OBVIOUS
<1> USE DEF TypeOK, OneCreator, Ran, Unannounced, NoClients,
       CreatePc, StopPc, Replies, Pc, Goto, vars, vmVars, taskVars, cleanVars, readyVars
<1>1. ASSUME NEW c \in Calls, CreateVM(c) PROVE OneCreator'
  BY <1>1 DEF CreateVM
<1>2. ASSUME NEW c \in Calls, StopVM(c) PROVE OneCreator'
  BY <1>2 DEF StopVM
<1>3. ASSUME NEW c \in Calls, Shutdown(c) PROVE OneCreator'
  BY <1>3 DEF Shutdown
<1>4. ASSUME NEW c \in Calls, StartOnce(c) PROVE OneCreator'
  BY <1>4 DEF StartOnce
<1>5. ASSUME NEW c \in Calls, Build(c) PROVE OneCreator'
  BY <1>5 DEF Build
<1>6. ASSUME NEW c \in Calls, StartMachine(c) PROVE OneCreator'
  BY <1>6 DEF StartMachine
<1>7. ASSUME NEW c \in Calls, DialAgent(c) PROVE OneCreator'
  BY <1>7 DEF DialAgent
<1>8. ASSUME NEW c \in Calls, ArmExit(c) PROVE OneCreator'
  BY <1>8 DEF ArmExit
<1>9. ASSUME NEW c \in Calls, MountDrives(c) PROVE OneCreator'
  BY <1>9 DEF MountDrives
<1>10. ASSUME NEW c \in Calls, AbortCreate(c) PROVE OneCreator'
  BY <1>10 DEF AbortCreate
<1>11. ASSUME NEW c \in Calls, AnnounceVM(c) PROVE OneCreator'
  BY <1>11 DEF AnnounceVM
<1>12. ASSUME NEW c \in Calls, GoMonitor(c) PROVE OneCreator'
  BY <1>12 DEF GoMonitor
<1>13. ASSUME NEW c \in Calls, OpenGate(c) PROVE OneCreator'
  BY <1>13 DEF OpenGate
<1>14. ASSUME NEW c \in Calls, WaitVMReady(c) PROVE OneCreator'
  BY <1>14 DEF WaitVMReady
<1>15. ASSUME NEW c \in Calls, AwaitMachine(c) PROVE OneCreator'
  BY <1>15 DEF AwaitMachine
<1>16. ASSUME NEW c \in Calls, ReplyStop(c) PROVE OneCreator'
  BY <1>16 DEF ReplyStop
<1>17. ASSUME NEW c \in Calls, AskAgent(c) PROVE OneCreator'
  BY <1>17 DEF AskAgent
<1>agent. ASSUME NEW c \in Calls, AgentReturns(c) PROVE OneCreator'
  BY <1>agent DEF AgentReturns
<1>18. ASSUME NEW c \in Calls, StopJailer(c) PROVE OneCreator'
  BY <1>18 DEF StopJailer
<1>19. CASE MonitorVMExit
  BY <1>19 DEF MonitorVMExit
<1>20. CASE CloseJailer
  BY <1>20 DEF CloseJailer
<1>21. CASE PublishVMStop
  BY <1>21 DEF PublishVMStop
<1>22. CASE CancelShim
  BY <1>22 DEF CancelShim
<1>23. CASE NewProc
  BY <1>23 DEF NewProc
<1>24. CASE DeleteProc
  BY <1>24 DEF DeleteProc
<1>25. CASE VmmExits
  BY <1>25 DEF VmmExits
<1>26. CASE ShimExits
  BY <1>26 DEF ShimExits
<1>27. CASE UNCHANGED vars
  BY <1>27
<1>28. QED
  BY <1>1, <1>2, <1>3, <1>4, <1>5, <1>6, <1>7, <1>8, <1>9, <1>10, <1>11,
     <1>12, <1>13, <1>14, <1>15, <1>16, <1>17, <1>agent, <1>18, <1>19, <1>20,
     <1>21, <1>22, <1>23, <1>24, <1>25, <1>26, <1>27
     DEF Next, CallStep, GoroutineStep, BackgroundStep, CreateStep, StopStep,
         LoopStep, CleanupStep

\* The machine, the clients and exitAfter are set in this order and kept.
LEMMA ClientsInductive ==
    TypeOK /\ OneCreator /\ ClientsInv /\ [Next]_vars => ClientsInv'
<1> SUFFICES ASSUME TypeOK, OneCreator, ClientsInv, [Next]_vars PROVE ClientsInv'
  OBVIOUS
<1> USE DEF TypeOK, OneCreator, ClientsInv, Ran, Unannounced, NoClients,
       CreatePc, StopPc, Replies, Pc, Goto, vars, vmVars, taskVars, cleanVars, readyVars
<1>1. ASSUME NEW c \in Calls, CreateVM(c) PROVE ClientsInv'
  BY <1>1 DEF CreateVM
<1>2. ASSUME NEW c \in Calls, StopVM(c) PROVE ClientsInv'
  BY <1>2 DEF StopVM
<1>3. ASSUME NEW c \in Calls, Shutdown(c) PROVE ClientsInv'
  BY <1>3 DEF Shutdown
<1>4. ASSUME NEW c \in Calls, StartOnce(c) PROVE ClientsInv'
  BY <1>4 DEF StartOnce
<1>5. ASSUME NEW c \in Calls, Build(c) PROVE ClientsInv'
  BY <1>5 DEF Build
<1>6. ASSUME NEW c \in Calls, StartMachine(c) PROVE ClientsInv'
  BY <1>6 DEF StartMachine
<1>7. ASSUME NEW c \in Calls, DialAgent(c) PROVE ClientsInv'
  BY <1>7 DEF DialAgent
<1>8. ASSUME NEW c \in Calls, ArmExit(c) PROVE ClientsInv'
  BY <1>8 DEF ArmExit
<1>9. ASSUME NEW c \in Calls, MountDrives(c) PROVE ClientsInv'
  BY <1>9 DEF MountDrives
<1>10. ASSUME NEW c \in Calls, AbortCreate(c) PROVE ClientsInv'
  BY <1>10 DEF AbortCreate
<1>11. ASSUME NEW c \in Calls, AnnounceVM(c) PROVE ClientsInv'
  BY <1>11 DEF AnnounceVM
<1>12. ASSUME NEW c \in Calls, GoMonitor(c) PROVE ClientsInv'
  BY <1>12 DEF GoMonitor
<1>13. ASSUME NEW c \in Calls, OpenGate(c) PROVE ClientsInv'
  BY <1>13 DEF OpenGate
<1>14. ASSUME NEW c \in Calls, WaitVMReady(c) PROVE ClientsInv'
  BY <1>14 DEF WaitVMReady
<1>15. ASSUME NEW c \in Calls, AwaitMachine(c) PROVE ClientsInv'
  BY <1>15 DEF AwaitMachine
<1>16. ASSUME NEW c \in Calls, ReplyStop(c) PROVE ClientsInv'
  BY <1>16 DEF ReplyStop
<1>17. ASSUME NEW c \in Calls, AskAgent(c) PROVE ClientsInv'
  BY <1>17 DEF AskAgent
<1>agent. ASSUME NEW c \in Calls, AgentReturns(c) PROVE ClientsInv'
  BY <1>agent DEF AgentReturns
<1>18. ASSUME NEW c \in Calls, StopJailer(c) PROVE ClientsInv'
  BY <1>18 DEF StopJailer
<1>19. CASE MonitorVMExit
  BY <1>19 DEF MonitorVMExit
<1>20. CASE CloseJailer
  BY <1>20 DEF CloseJailer
<1>21. CASE PublishVMStop
  BY <1>21 DEF PublishVMStop
<1>22. CASE CancelShim
  BY <1>22 DEF CancelShim
<1>23. CASE NewProc
  BY <1>23 DEF NewProc
<1>24. CASE DeleteProc
  BY <1>24 DEF DeleteProc
<1>25. CASE VmmExits
  BY <1>25 DEF VmmExits
<1>26. CASE ShimExits
  BY <1>26 DEF ShimExits
<1>27. CASE UNCHANGED vars
  BY <1>27
<1>28. QED
  BY <1>1, <1>2, <1>3, <1>4, <1>5, <1>6, <1>7, <1>8, <1>9, <1>10, <1>11,
     <1>12, <1>13, <1>14, <1>15, <1>16, <1>17, <1>agent, <1>18, <1>19, <1>20,
     <1>21, <1>22, <1>23, <1>24, <1>25, <1>26, <1>27
     DEF Next, CallStep, GoroutineStep, BackgroundStep, CreateStep, StopStep,
         LoopStep, CleanupStep

\* Both ways into shutdown pass a test that implies the clients are set.
LEMMA ShutdownFindsVMInductive ==
    TypeOK /\ ClientsInv /\ ShutdownFindsVM /\ [Next]_vars => ShutdownFindsVM'
<1> SUFFICES ASSUME TypeOK, ClientsInv, ShutdownFindsVM, [Next]_vars PROVE ShutdownFindsVM'
  OBVIOUS
<1> USE DEF TypeOK, ClientsInv, ShutdownFindsVM, NoClients,
       CreatePc, StopPc, Replies, Pc, Goto, vars, vmVars, taskVars, cleanVars, readyVars
<1>1. ASSUME NEW c \in Calls, CreateVM(c) PROVE ShutdownFindsVM'
  BY <1>1 DEF CreateVM
<1>2. ASSUME NEW c \in Calls, StopVM(c) PROVE ShutdownFindsVM'
  BY <1>2 DEF StopVM
<1>3. ASSUME NEW c \in Calls, Shutdown(c) PROVE ShutdownFindsVM'
  BY <1>3 DEF Shutdown
<1>4. ASSUME NEW c \in Calls, StartOnce(c) PROVE ShutdownFindsVM'
  BY <1>4 DEF StartOnce
<1>5. ASSUME NEW c \in Calls, Build(c) PROVE ShutdownFindsVM'
  BY <1>5 DEF Build
<1>6. ASSUME NEW c \in Calls, StartMachine(c) PROVE ShutdownFindsVM'
  BY <1>6 DEF StartMachine
<1>7. ASSUME NEW c \in Calls, DialAgent(c) PROVE ShutdownFindsVM'
  BY <1>7 DEF DialAgent
<1>8. ASSUME NEW c \in Calls, ArmExit(c) PROVE ShutdownFindsVM'
  BY <1>8 DEF ArmExit
<1>9. ASSUME NEW c \in Calls, MountDrives(c) PROVE ShutdownFindsVM'
  BY <1>9 DEF MountDrives
<1>10. ASSUME NEW c \in Calls, AbortCreate(c) PROVE ShutdownFindsVM'
  BY <1>10 DEF AbortCreate
<1>11. ASSUME NEW c \in Calls, AnnounceVM(c) PROVE ShutdownFindsVM'
  BY <1>11 DEF AnnounceVM
<1>12. ASSUME NEW c \in Calls, GoMonitor(c) PROVE ShutdownFindsVM'
  BY <1>12 DEF GoMonitor
<1>13. ASSUME NEW c \in Calls, OpenGate(c) PROVE ShutdownFindsVM'
  BY <1>13 DEF OpenGate
<1>14. ASSUME NEW c \in Calls, WaitVMReady(c) PROVE ShutdownFindsVM'
  BY <1>14 DEF WaitVMReady
<1>15. ASSUME NEW c \in Calls, AwaitMachine(c) PROVE ShutdownFindsVM'
  BY <1>15 DEF AwaitMachine
<1>16. ASSUME NEW c \in Calls, ReplyStop(c) PROVE ShutdownFindsVM'
  BY <1>16 DEF ReplyStop
<1>17. ASSUME NEW c \in Calls, AskAgent(c) PROVE ShutdownFindsVM'
  BY <1>17 DEF AskAgent
<1>agent. ASSUME NEW c \in Calls, AgentReturns(c) PROVE ShutdownFindsVM'
  BY <1>agent DEF AgentReturns
<1>18. ASSUME NEW c \in Calls, StopJailer(c) PROVE ShutdownFindsVM'
  BY <1>18 DEF StopJailer
<1>19. CASE MonitorVMExit
  BY <1>19 DEF MonitorVMExit
<1>20. CASE CloseJailer
  BY <1>20 DEF CloseJailer
<1>21. CASE PublishVMStop
  BY <1>21 DEF PublishVMStop
<1>22. CASE CancelShim
  BY <1>22 DEF CancelShim
<1>23. CASE NewProc
  BY <1>23 DEF NewProc
<1>24. CASE DeleteProc
  BY <1>24 DEF DeleteProc
<1>25. CASE VmmExits
  BY <1>25 DEF VmmExits
<1>26. CASE ShimExits
  BY <1>26 DEF ShimExits
<1>27. CASE UNCHANGED vars
  BY <1>27
<1>28. QED
  BY <1>1, <1>2, <1>3, <1>4, <1>5, <1>6, <1>7, <1>8, <1>9, <1>10, <1>11,
     <1>12, <1>13, <1>14, <1>15, <1>16, <1>17, <1>agent, <1>18, <1>19, <1>20,
     <1>21, <1>22, <1>23, <1>24, <1>25, <1>26, <1>27
     DEF Next, CallStep, GoroutineStep, BackgroundStep, CreateStep, StopStep,
         LoopStep, CleanupStep

\* ShutdownIfEmpty closes the TaskManager in the step that finds it empty.
LEMMA AcceptedShutdownInductive ==
    TypeOK /\ ClientsInv /\ AcceptedShutdownIsEmpty /\ [Next]_vars => AcceptedShutdownIsEmpty'
<1> SUFFICES ASSUME TypeOK, ClientsInv, AcceptedShutdownIsEmpty, [Next]_vars PROVE AcceptedShutdownIsEmpty'
  OBVIOUS
<1> USE DEF TypeOK, ClientsInv, AcceptedShutdownIsEmpty,
       CreatePc, StopPc, Replies, Pc, Goto, vars, vmVars, taskVars, cleanVars, readyVars
<1>1. ASSUME NEW c \in Calls, CreateVM(c) PROVE AcceptedShutdownIsEmpty'
  BY <1>1 DEF CreateVM
<1>2. ASSUME NEW c \in Calls, StopVM(c) PROVE AcceptedShutdownIsEmpty'
  BY <1>2 DEF StopVM
<1>3. ASSUME NEW c \in Calls, Shutdown(c) PROVE AcceptedShutdownIsEmpty'
  BY <1>3 DEF Shutdown
<1>4. ASSUME NEW c \in Calls, StartOnce(c) PROVE AcceptedShutdownIsEmpty'
  BY <1>4 DEF StartOnce
<1>5. ASSUME NEW c \in Calls, Build(c) PROVE AcceptedShutdownIsEmpty'
  BY <1>5 DEF Build
<1>6. ASSUME NEW c \in Calls, StartMachine(c) PROVE AcceptedShutdownIsEmpty'
  BY <1>6 DEF StartMachine
<1>7. ASSUME NEW c \in Calls, DialAgent(c) PROVE AcceptedShutdownIsEmpty'
  BY <1>7 DEF DialAgent
<1>8. ASSUME NEW c \in Calls, ArmExit(c) PROVE AcceptedShutdownIsEmpty'
  BY <1>8 DEF ArmExit
<1>9. ASSUME NEW c \in Calls, MountDrives(c) PROVE AcceptedShutdownIsEmpty'
  BY <1>9 DEF MountDrives
<1>10. ASSUME NEW c \in Calls, AbortCreate(c) PROVE AcceptedShutdownIsEmpty'
  BY <1>10 DEF AbortCreate
<1>11. ASSUME NEW c \in Calls, AnnounceVM(c) PROVE AcceptedShutdownIsEmpty'
  BY <1>11 DEF AnnounceVM
<1>12. ASSUME NEW c \in Calls, GoMonitor(c) PROVE AcceptedShutdownIsEmpty'
  BY <1>12 DEF GoMonitor
<1>13. ASSUME NEW c \in Calls, OpenGate(c) PROVE AcceptedShutdownIsEmpty'
  BY <1>13 DEF OpenGate
<1>14. ASSUME NEW c \in Calls, WaitVMReady(c) PROVE AcceptedShutdownIsEmpty'
  BY <1>14 DEF WaitVMReady
<1>15. ASSUME NEW c \in Calls, AwaitMachine(c) PROVE AcceptedShutdownIsEmpty'
  BY <1>15 DEF AwaitMachine
<1>16. ASSUME NEW c \in Calls, ReplyStop(c) PROVE AcceptedShutdownIsEmpty'
  BY <1>16 DEF ReplyStop
<1>17. ASSUME NEW c \in Calls, AskAgent(c) PROVE AcceptedShutdownIsEmpty'
  BY <1>17 DEF AskAgent
<1>agent. ASSUME NEW c \in Calls, AgentReturns(c) PROVE AcceptedShutdownIsEmpty'
  BY <1>agent DEF AgentReturns
<1>18. ASSUME NEW c \in Calls, StopJailer(c) PROVE AcceptedShutdownIsEmpty'
  BY <1>18 DEF StopJailer
<1>19. CASE MonitorVMExit
  BY <1>19 DEF MonitorVMExit
<1>20. CASE CloseJailer
  BY <1>20 DEF CloseJailer
<1>21. CASE PublishVMStop
  BY <1>21 DEF PublishVMStop
<1>22. CASE CancelShim
  BY <1>22 DEF CancelShim
<1>23. CASE NewProc
  BY <1>23 DEF NewProc
<1>24. CASE DeleteProc
  BY <1>24 DEF DeleteProc
<1>25. CASE VmmExits
  BY <1>25 DEF VmmExits
<1>26. CASE ShimExits
  BY <1>26 DEF ShimExits
<1>27. CASE UNCHANGED vars
  BY <1>27
<1>28. QED
  BY <1>1, <1>2, <1>3, <1>4, <1>5, <1>6, <1>7, <1>8, <1>9, <1>10, <1>11,
     <1>12, <1>13, <1>14, <1>15, <1>16, <1>17, <1>agent, <1>18, <1>19, <1>20,
     <1>21, <1>22, <1>23, <1>24, <1>25, <1>26, <1>27
     DEF Next, CallStep, GoroutineStep, BackgroundStep, CreateStep, StopStep,
         LoopStep, CleanupStep

\* A shutdown replies after the VMM exited and the cleanup returned.
LEMMA CleanInductive ==
    TypeOK /\ ClientsInv /\ ShutdownFindsVM /\ CleanInv /\ [Next]_vars => CleanInv'
<1> SUFFICES ASSUME TypeOK, ClientsInv, ShutdownFindsVM, CleanInv, [Next]_vars PROVE CleanInv'
  OBVIOUS
<1> USE DEF TypeOK, ClientsInv, ShutdownFindsVM, CleanInv, NoClients, Published,
       CreatePc, StopPc, Replies, Pc, Goto, vars, vmVars, taskVars, cleanVars, readyVars
<1>1. ASSUME NEW c \in Calls, CreateVM(c) PROVE CleanInv'
  BY <1>1 DEF CreateVM
<1>2. ASSUME NEW c \in Calls, StopVM(c) PROVE CleanInv'
  BY <1>2 DEF StopVM
<1>3. ASSUME NEW c \in Calls, Shutdown(c) PROVE CleanInv'
  BY <1>3 DEF Shutdown
<1>4. ASSUME NEW c \in Calls, StartOnce(c) PROVE CleanInv'
  BY <1>4 DEF StartOnce
<1>5. ASSUME NEW c \in Calls, Build(c) PROVE CleanInv'
  BY <1>5 DEF Build
<1>6. ASSUME NEW c \in Calls, StartMachine(c) PROVE CleanInv'
  BY <1>6 DEF StartMachine
<1>7. ASSUME NEW c \in Calls, DialAgent(c) PROVE CleanInv'
  BY <1>7 DEF DialAgent
<1>8. ASSUME NEW c \in Calls, ArmExit(c) PROVE CleanInv'
  BY <1>8 DEF ArmExit
<1>9. ASSUME NEW c \in Calls, MountDrives(c) PROVE CleanInv'
  BY <1>9 DEF MountDrives
<1>10. ASSUME NEW c \in Calls, AbortCreate(c) PROVE CleanInv'
  BY <1>10 DEF AbortCreate
<1>11. ASSUME NEW c \in Calls, AnnounceVM(c) PROVE CleanInv'
  BY <1>11 DEF AnnounceVM
<1>12. ASSUME NEW c \in Calls, GoMonitor(c) PROVE CleanInv'
  BY <1>12 DEF GoMonitor
<1>13. ASSUME NEW c \in Calls, OpenGate(c) PROVE CleanInv'
  BY <1>13 DEF OpenGate
<1>14. ASSUME NEW c \in Calls, WaitVMReady(c) PROVE CleanInv'
  BY <1>14 DEF WaitVMReady
<1>15. ASSUME NEW c \in Calls, AwaitMachine(c) PROVE CleanInv'
  BY <1>15 DEF AwaitMachine
<1>16. ASSUME NEW c \in Calls, ReplyStop(c) PROVE CleanInv'
  BY <1>16 DEF ReplyStop
<1>17. ASSUME NEW c \in Calls, AskAgent(c) PROVE CleanInv'
  BY <1>17 DEF AskAgent
<1>agent. ASSUME NEW c \in Calls, AgentReturns(c) PROVE CleanInv'
  BY <1>agent DEF AgentReturns
<1>18. ASSUME NEW c \in Calls, StopJailer(c) PROVE CleanInv'
  BY <1>18 DEF StopJailer
<1>19. CASE MonitorVMExit
  BY <1>19 DEF MonitorVMExit
<1>20. CASE CloseJailer
  BY <1>20 DEF CloseJailer
<1>21. CASE PublishVMStop
  BY <1>21 DEF PublishVMStop
<1>22. CASE CancelShim
  BY <1>22 DEF CancelShim
<1>23. CASE NewProc
  BY <1>23 DEF NewProc
<1>24. CASE DeleteProc
  BY <1>24 DEF DeleteProc
<1>25. CASE VmmExits
  BY <1>25 DEF VmmExits
<1>26. CASE ShimExits
  BY <1>26 DEF ShimExits
<1>27. CASE UNCHANGED vars
  BY <1>27
<1>28. QED
  BY <1>1, <1>2, <1>3, <1>4, <1>5, <1>6, <1>7, <1>8, <1>9, <1>10, <1>11,
     <1>12, <1>13, <1>14, <1>15, <1>16, <1>17, <1>agent, <1>18, <1>19, <1>20,
     <1>21, <1>22, <1>23, <1>24, <1>25, <1>26, <1>27
     DEF Next, CallStep, GoroutineStep, BackgroundStep, CreateStep, StopStep,
         LoopStep, CleanupStep

\* The start event precedes the monitor, the monitor the stop event.
LEMMA OrderInductive ==
    TypeOK /\ OneCreator /\ OrderInv /\ [Next]_vars => OrderInv'
<1> SUFFICES ASSUME TypeOK, OneCreator, OrderInv, [Next]_vars PROVE OrderInv'
  OBVIOUS
<1> USE DEF TypeOK, OneCreator, OrderInv, Ran, Unannounced, NoClients, Cleaning,
       CreatePc, StopPc, Replies, Pc, Goto, vars, vmVars, taskVars, cleanVars, readyVars
<1>1. ASSUME NEW c \in Calls, CreateVM(c) PROVE OrderInv'
  BY <1>1 DEF CreateVM
<1>2. ASSUME NEW c \in Calls, StopVM(c) PROVE OrderInv'
  BY <1>2 DEF StopVM
<1>3. ASSUME NEW c \in Calls, Shutdown(c) PROVE OrderInv'
  BY <1>3 DEF Shutdown
<1>4. ASSUME NEW c \in Calls, StartOnce(c) PROVE OrderInv'
  BY <1>4 DEF StartOnce
<1>5. ASSUME NEW c \in Calls, Build(c) PROVE OrderInv'
  BY <1>5 DEF Build
<1>6. ASSUME NEW c \in Calls, StartMachine(c) PROVE OrderInv'
  BY <1>6 DEF StartMachine
<1>7. ASSUME NEW c \in Calls, DialAgent(c) PROVE OrderInv'
  BY <1>7 DEF DialAgent
<1>8. ASSUME NEW c \in Calls, ArmExit(c) PROVE OrderInv'
  BY <1>8 DEF ArmExit
<1>9. ASSUME NEW c \in Calls, MountDrives(c) PROVE OrderInv'
  BY <1>9 DEF MountDrives
<1>10. ASSUME NEW c \in Calls, AbortCreate(c) PROVE OrderInv'
  BY <1>10 DEF AbortCreate
<1>11. ASSUME NEW c \in Calls, AnnounceVM(c) PROVE OrderInv'
  <2>1. pc[c] = "announce" /\ pc' = [pc EXCEPT ![c] = "monitor"]
    BY <1>11 DEF AnnounceVM
  <2>2. ~isShutdown => events' = <<"start">> /\ monitor = "off" /\ cleanup = "idle"
    <3>1. ~isShutdown => events = <<>> /\ monitor = "off" /\ cleanup = "idle"
      BY <2>1
    <3>2. events' = Append(events, "start")
      BY <1>11 DEF AnnounceVM
    <3>3. QED
      BY <3>1, <3>2, AppendStart
  <2>3. \A d \in Calls : pc[d] \in Ran => d = c
    BY <2>1
  <2>4. ~isShutdown => ~vmReady /\ \A d \in Calls : pc[d] # "ready"
    BY <2>2
  <2>5. once # "idle"
    BY <2>1
  <2>6. UNCHANGED <<monitor, isShutdown, cleanup, once, vmReady>>
    BY <1>11 DEF AnnounceVM
  <2>7. \A d \in Calls : d # c => pc'[d] = pc[d]
    BY <2>1
  <2>8. pc'[c] = "monitor"
    BY <2>1
  <2>9. QED
    BY <2>2, <2>3, <2>4, <2>5, <2>6, <2>7, <2>8
<1>12. ASSUME NEW c \in Calls, GoMonitor(c) PROVE OrderInv'
  BY <1>12 DEF GoMonitor
<1>13. ASSUME NEW c \in Calls, OpenGate(c) PROVE OrderInv'
  BY <1>13 DEF OpenGate
<1>14. ASSUME NEW c \in Calls, WaitVMReady(c) PROVE OrderInv'
  BY <1>14 DEF WaitVMReady
<1>15. ASSUME NEW c \in Calls, AwaitMachine(c) PROVE OrderInv'
  BY <1>15 DEF AwaitMachine
<1>16. ASSUME NEW c \in Calls, ReplyStop(c) PROVE OrderInv'
  BY <1>16 DEF ReplyStop
<1>17. ASSUME NEW c \in Calls, AskAgent(c) PROVE OrderInv'
  BY <1>17 DEF AskAgent
<1>agent. ASSUME NEW c \in Calls, AgentReturns(c) PROVE OrderInv'
  BY <1>agent DEF AgentReturns
<1>18. ASSUME NEW c \in Calls, StopJailer(c) PROVE OrderInv'
  BY <1>18 DEF StopJailer
<1>19. CASE MonitorVMExit
  BY <1>19 DEF MonitorVMExit
<1>20. CASE CloseJailer
  BY <1>20 DEF CloseJailer
<1>21. CASE PublishVMStop
  <2>1. UNCHANGED <<pc, isShutdown, monitor, once, vmReady>>
    BY <1>21 DEF PublishVMStop
  <2>2. ~isShutdown => monitor # "off" /\ events = <<"start">>
    BY <1>21 DEF PublishVMStop
  <2>3. ~isShutdown => events' = <<"start", "stop">>
    <3>1. events' = Append(events, "stop")
      BY <1>21 DEF PublishVMStop
    <3>2. QED
      BY <2>2, <3>1, AppendStop
  <2>4. cleanup' = "cancel"
    BY <1>21 DEF PublishVMStop
  <2>5. QED
    BY <2>1, <2>2, <2>3, <2>4
<1>22. CASE CancelShim
  BY <1>22 DEF CancelShim
<1>23. CASE NewProc
  BY <1>23 DEF NewProc
<1>24. CASE DeleteProc
  BY <1>24 DEF DeleteProc
<1>25. CASE VmmExits
  BY <1>25 DEF VmmExits
<1>26. CASE ShimExits
  BY <1>26 DEF ShimExits
<1>27. CASE UNCHANGED vars
  BY <1>27
<1>28. QED
  BY <1>1, <1>2, <1>3, <1>4, <1>5, <1>6, <1>7, <1>8, <1>9, <1>10, <1>11,
     <1>12, <1>13, <1>14, <1>15, <1>16, <1>17, <1>agent, <1>18, <1>19, <1>20,
     <1>21, <1>22, <1>23, <1>24, <1>25, <1>26, <1>27
     DEF Next, CallStep, GoroutineStep, BackgroundStep, CreateStep, StopStep,
         LoopStep, CleanupStep

\* The initial state satisfies the strengthened invariant.
LEMMA InitIInv == Init => IInv
<1> SUFFICES ASSUME Init PROVE IInv
  OBVIOUS
<1> USE DEF Init
<1>1. TypeOK
  <2>1. pc \in [Calls -> Pc] /\ loop \in [Calls -> {"off", "agent", "jailer", "done"}]
    BY DEF Pc
  <2>2. events \in Seq({"start", "stop"})
    OBVIOUS
  <2>3. tasks \in 0 .. MaxTasks
    BY MaxTasksAssumption
  <2>4. QED
    BY <2>1, <2>2, <2>3 DEF TypeOK
<1>2. OneCreator
  BY DEF OneCreator, Ran, Unannounced, NoClients
<1>3. ClientsInv
  BY DEF ClientsInv, NoClients
<1>4. ShutdownFindsVM
  BY DEF ShutdownFindsVM
<1>5. AcceptedShutdownIsEmpty
  BY DEF AcceptedShutdownIsEmpty
<1>6. CleanInv
  BY DEF CleanInv
<1>7. OrderInv
  BY DEF OrderInv, Unannounced, NoClients
<1>8. QED
  BY <1>1, <1>2, <1>3, <1>4, <1>5, <1>6, <1>7 DEF IInv

\* The strengthened invariant holds in every reachable state of the shim.
THEOREM Invariance == Spec => []IInv
<1>1. IInv /\ [Next]_vars => IInv'
  BY TypeInductive, OneCreatorInductive, ClientsInductive, ShutdownFindsVMInductive,
     AcceptedShutdownInductive, CleanInductive, OrderInductive DEF IInv
<1>2. QED
  BY InitIInv, <1>1, PTL DEF Spec

\* Type correctness of the shim.
THEOREM TypeCorrect == Spec => []TypeOK
<1>1. IInv => TypeOK
  BY DEF IInv
<1>2. QED
  BY Invariance, <1>1, PTL

\* No shutdown meets a nil machine or a nil agent client (runtime/service.go,
\* shutdown and shutdownLoop).
THEOREM NoNilShutdown == Spec => []ShutdownFindsVM
<1>1. IInv => ShutdownFindsVM
  BY DEF IInv
<1>2. QED
  BY Invariance, <1>1, PTL

\* A VM that containerd's Shutdown accepted as empty stays empty.
THEOREM EmptyForGood == Spec => []AcceptedShutdownIsEmpty
<1>1. IInv => AcceptedShutdownIsEmpty
  BY DEF IInv
<1>2. QED
  BY Invariance, <1>1, PTL

\* A StopVM or Shutdown that was answered finds the VMM gone, the stop event
\* published and the shim cancelled.
THEOREM AnsweredMeansGone == Spec => []StoppedMeansGone
<1>1. IInv => StoppedMeansGone
  BY DEF IInv, CleanInv, StoppedMeansGone
<1>2. QED
  BY Invariance, <1>1, PTL

\* Without containerd's Shutdown the events are a start and then a stop.
THEOREM StartBeforeStop == Spec => []EventsInOrder
<1>1. IInv => EventsInOrder
  BY DEF IInv, OrderInv, EventsInOrder
<1>2. QED
  BY Invariance, <1>1, PTL
=============================================================================
