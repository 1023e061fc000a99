--------------------------- MODULE FcControlProofs ---------------------------
(***************************************************************************)
(* Proofs about FcControl, for any number of requests, VM IDs and restarts:*)
(* type correctness, that a VM ID has one shim, and, if no StopVM comes    *)
(* before the CreateVM of its VM has returned, that a StopVM which reports *)
(* success has waited for the shim that served it.                         *)
(***************************************************************************)
EXTENDS FcControl, TLAPS

-----------------------------------------------------------------------------
(* The inductive invariant.                                                *)

\* All descriptors of one VM ID's shim socket stem from one CreateVM.
OneOwner ==
    \A g, h \in shimFds : vm[g[2]] = vm[h[2]] => g[2] = h[2]

\* A running CreateVM has its listener, a living shim what it inherited.
Holding ==
    \A c \in Calls :
        /\ pc[c] \in Creating => <<"call", c>> \in shimFds
        /\ Alive(c) => <<"shim", c>> \in shimFds

\* err is set exactly on the error paths of CreateVM.
ErrInv ==
    \A c \in Calls :
        /\ pc[c] \in {"idle", "dir", "fc", "fork", "oom", "call", "record"} => ~err[c]
        /\ pc[c] \in {"kill", "rmdir"} => err[c]

\* How far a shim can be, given where its CreateVM is.
ShimInv ==
    \A c \in Calls :
        /\ shim[c] # "none" => pc[c] \in Creating \cup {"failed", "created", "closed"}
        /\ pc[c] \in {"oom", "call"} => shim[c] \notin {"serving", "stopping"}
        /\ pc[c] \in {"dir", "fc", "fork"} => shim[c] = "none"
        /\ pc[c] = "failed" \/ (pc[c] \in {"closeFc", "rmdir", "closeShim"} /\ err[c]) =>
               shim[c] \notin {"serving", "stopping"}
        /\ pc[c] \in {"record", "created"} \/ (pc[c] \in {"closeFc", "closeShim"} /\ ~err[c]) =>
               shim[c] # "none"

\* A descriptor of an fccontrol socket belongs to a CreateVM.
FcOwner == \A h \in fcFds : pc[h[2]] # "idle"

\* No record of another shim hides a living one whose creation went well.
Recorded ==
    \A c \in Calls :
        Alive(c) /\ (\/ pc[c] \in {"created", "closed"}
                     \/ pc[c] \in {"closeFc", "closeShim"} /\ ~err[c])
        => processes[vm[c]] \in {c, NoCall}

\* Who polls has the mutex and a record to poll.
Polling ==
    \A c \in Calls : pc[c] = "poll" => mu = c /\ processes[vm[c]] # NoCall

\* A StopVM is connected to the shim of a CreateVM that has returned.
Connected ==
    \A c \in Calls :
        pc[c] \in Stopping \cup {"stopped"} =>
            /\ target[c] \in Calls /\ vm[target[c]] = vm[c]
            /\ pc[target[c]] \notin Creating \cup {"idle"}

\* If its shim answered without an error, the VM had been created.
Served ==
    \A c \in Calls :
        (pc[c] \in {"lookup", "poll"} /\ ~err[c]) \/ pc[c] = "stopped" =>
            pc[target[c]] \in {"created", "closed"}

\* Who holds which descriptor: a listener is that of a CreateVM that will close
\* it, and what a shim inherited goes with its process.
FdInv ==
    \A c \in Calls :
        /\ <<"call", c>> \in shimFds => pc[c] \in Creating
        /\ <<"call", c>> \in fcFds =>
               pc[c] \in {"fork", "oom", "call", "kill", "record", "closeFc"}
        /\ <<"shim", c>> \in shimFds \cup fcFds => Alive(c)

\* A reaper gets on only after its shim.
ReaperInv ==
    \A c \in Calls : shim[c] # "reaped" => reaper[c] \in {"wait", "off"}

\* Who will remove the directory of a VM ID: a CreateVM that has not forked or
\* that fails, or the reaper of a shim.
Responsible(c) ==
    \/ pc[c] \in {"fc", "fork", "rmdir"}
    \/ pc[c] = "closeFc" /\ err[c]
    \/ reaper[c] # "off"

DirInv ==
    \A v \in Vms :
        dir[v] /\ restarts = 0 => \E c \in Calls : vm[c] = v /\ Responsible(c)

SocketInv == TypeOK /\ OneOwner /\ Holding
IInv == /\ SocketInv /\ ErrInv /\ ShimInv /\ FcOwner /\ Recorded
        /\ Polling /\ Connected /\ Served /\ StoppedMeansGone

\* The steps of a request, of its shim and of the shim's reaper.
RequestStep(c) ==
    CreateVM(c) \/ CreateStep(c) \/ CallShim(c) \/ StopVM(c) \/ StopStep(c)
    \/ ShimAnswers(c) \/ Expire(c) \/ ShimStops(c) \/ ShimStep(c)

-----------------------------------------------------------------------------
(* Every step preserves every part of the invariant.                       *)

\* Every step keeps the variables in their types.
LEMMA TypeStep ==
    ASSUME TypeOK, [Next]_vars
    PROVE  TypeOK'
<1> USE DEF TypeOK, Creating, Stopping, Replies, Living, Kinds, Goto, Fail,
       Succeed, vars, callVars, fdVars, shimVars, recordVars
<1>1. ASSUME NEW c \in Calls, RequestStep(c)
      PROVE  TypeOK'
  <2>1. CASE CreateVM(c)  BY <2>1 DEF CreateVM
  <2>2. CASE MakeDir(c)  BY <2>2 DEF MakeDir
  <2>3. CASE ListenFc(c)
    <3>1. <<"call", c>> \in Kinds \X Calls
      BY <2>3
    <3>2. fcFds' \subseteq Kinds \X Calls
      BY <2>3, <3>1 DEF ListenFc
    <3> QED
      BY <2>3, <3>2 DEF ListenFc
  <2>4. CASE Fork(c)
    <3>1. <<"file", c>> \in Kinds \X Calls /\ <<"shim", c>> \in Kinds \X Calls
      BY <2>4
    <3>2. shimFds' \subseteq Kinds \X Calls /\ fcFds' \subseteq Kinds \X Calls
      BY <2>4, <3>1 DEF Fork
    <3> QED
      BY <2>4, <3>2 DEF Fork
  <2>5. CASE SetShimOOMScore(c)  BY <2>5 DEF SetShimOOMScore
  <2>6. CASE CallShim(c)  BY <2>6 DEF CallShim
  <2>7. CASE Kill(c)  BY <2>7 DEF Kill
  <2>8. CASE AddShim(c)  BY <2>8 DEF AddShim
  <2>9. CASE CloseFc(c)  BY <2>9 DEF CloseFc
  <2>10. CASE RemoveDir(c)  BY <2>10 DEF RemoveDir
  <2>11. CASE CloseShim(c)  BY <2>11 DEF CloseShim
  <2>12. CASE StopVM(c)  BY <2>12 DEF StopVM
  <2>13. CASE ShimAnswers(c)  BY <2>13 DEF ShimAnswers
  <2>14. CASE LookUp(c)  BY <2>14 DEF LookUp
  <2>15. CASE Poll(c)  BY <2>15 DEF Poll
  <2>16. CASE Expire(c)  BY <2>16 DEF Expire
  <2>17. CASE ShimStops(c)  BY <2>17 DEF ShimStops
  <2>18. CASE ShimExits(c)  BY <2>18 DEF ShimExits
  <2>19. CASE Wait(c)  BY <2>19 DEF Wait
  <2>20. CASE Reap(c)  BY <2>20 DEF Reap
  <2>21. CASE CollectFiles(c)  BY <2>21 DEF CollectFiles
  <2> QED
    BY <1>1, <2>1, <2>2, <2>3, <2>4, <2>5, <2>6, <2>7, <2>8, <2>9, <2>10, <2>11,
       <2>12, <2>13, <2>14, <2>15, <2>16, <2>17, <2>18, <2>19, <2>20, <2>21
       DEF RequestStep, CreateStep, StopStep, ShimStep
<1>2. CASE Restart
  <2>1. pc' \in [Calls -> {"idle"} \cup Creating \cup Stopping \cup Replies]
    BY <1>2 DEF Restart
  <2>2. shimFds' \subseteq shimFds /\ fcFds' \subseteq fcFds
    BY <1>2 DEF Restart
  <2>3. restarts' \in 0 .. MaxRestarts
    BY <1>2, MaxRestartsAssumption DEF Restart
  <2> QED
    BY <1>2, <2>1, <2>2, <2>3 DEF Restart
<1>3. CASE UNCHANGED vars
  BY <1>3 DEF vars, callVars, fdVars, shimVars, recordVars
<1> QED
  BY <1>1, <1>2, <1>3 DEF Next, RequestStep

\* Every step keeps the addresses with one owner.
LEMMA SocketStep ==
    ASSUME TypeOK, OneOwner, Holding, [Next]_vars
    PROVE  OneOwner' /\ Holding'
<1> USE DEF TypeOK, OneOwner, Holding, Alive, InUse, Creating, Stopping,
       Replies, Living, Kinds, Goto, Fail, Succeed, vars, callVars, fdVars,
       shimVars, recordVars
<1>1. ASSUME NEW c \in Calls, RequestStep(c)
      PROVE  OneOwner' /\ Holding'
  <2>1. CASE CreateVM(c)  BY <2>1 DEF CreateVM
  <2>2. CASE MakeDir(c)  BY <2>2 DEF MakeDir
  <2>3. CASE ListenFc(c)  BY <2>3 DEF ListenFc
  <2>4. CASE Fork(c)
    <3>1. \A h \in shimFds' : h \in shimFds \/ h[2] = c
      BY <2>4 DEF Fork
    <3>2. <<"call", c>> \in shimFds /\ vm' = vm
      BY <2>4 DEF Fork
    <3>3. OneOwner'
      BY <3>1, <3>2, <2>4
    <3>4. Holding'
      <4>1. pc[c] = "fork" /\ shimFds \subseteq shimFds'
        BY <2>4 DEF Fork
      <4>2. \A d \in Calls \ {c} : pc'[d] = pc[d] /\ shim'[d] = shim[d]
        BY <2>4 DEF Fork
      <4>3. Alive(c)' => <<"shim", c>> \in shimFds'
        BY <2>4 DEF Fork
      <4> QED
        BY <3>2, <4>1, <4>2, <4>3
    <3> QED
      BY <3>3, <3>4
  <2>5. CASE SetShimOOMScore(c)  BY <2>5 DEF SetShimOOMScore
  <2>6. CASE CallShim(c)  BY <2>6 DEF CallShim
  <2>7. CASE Kill(c)  BY <2>7 DEF Kill
  <2>8. CASE AddShim(c)  BY <2>8 DEF AddShim
  <2>9. CASE CloseFc(c)  BY <2>9 DEF CloseFc
  <2>10. CASE RemoveDir(c)  BY <2>10 DEF RemoveDir
  <2>11. CASE CloseShim(c)  BY <2>11 DEF CloseShim
  <2>12. CASE StopVM(c)  BY <2>12 DEF StopVM
  <2>13. CASE ShimAnswers(c)  BY <2>13 DEF ShimAnswers
  <2>14. CASE LookUp(c)  BY <2>14 DEF LookUp
  <2>15. CASE Poll(c)  BY <2>15 DEF Poll
  <2>16. CASE Expire(c)  BY <2>16 DEF Expire
  <2>17. CASE ShimStops(c)  BY <2>17 DEF ShimStops
  <2>18. CASE ShimExits(c)  BY <2>18 DEF ShimExits
  <2>19. CASE Wait(c)  BY <2>19 DEF Wait
  <2>20. CASE Reap(c)  BY <2>20 DEF Reap
  <2>21. CASE CollectFiles(c)  BY <2>21 DEF CollectFiles
  <2> QED
    BY <1>1, <2>1, <2>2, <2>3, <2>4, <2>5, <2>6, <2>7, <2>8, <2>9, <2>10, <2>11,
       <2>12, <2>13, <2>14, <2>15, <2>16, <2>17, <2>18, <2>19, <2>20, <2>21
       DEF RequestStep, CreateStep, StopStep, ShimStep
<1>2. CASE Restart
  BY <1>2 DEF Restart
<1>3. CASE UNCHANGED vars
  BY <1>3 DEF vars, callVars, fdVars, shimVars, recordVars
<1> QED
  BY <1>1, <1>2, <1>3 DEF Next, RequestStep

\* err follows the control of CreateVM.
LEMMA ErrStep ==
    ASSUME TypeOK, ErrInv, [Next]_vars
    PROVE  ErrInv'
<1> USE DEF TypeOK, ErrInv, Creating, Stopping, Replies, Living, Kinds, Goto,
       Fail, Succeed, vars, callVars, fdVars, shimVars, recordVars
<1>1. ASSUME NEW c \in Calls, RequestStep(c)
      PROVE  ErrInv'
  <2>1. CASE CreateVM(c)  BY <2>1 DEF CreateVM
  <2>2. CASE MakeDir(c)  BY <2>2 DEF MakeDir
  <2>3. CASE ListenFc(c)  BY <2>3 DEF ListenFc
  <2>4. CASE Fork(c)  BY <2>4 DEF Fork
  <2>5. CASE SetShimOOMScore(c)  BY <2>5 DEF SetShimOOMScore
  <2>6. CASE CallShim(c)  BY <2>6 DEF CallShim
  <2>7. CASE Kill(c)  BY <2>7 DEF Kill
  <2>8. CASE AddShim(c)  BY <2>8 DEF AddShim
  <2>9. CASE CloseFc(c)  BY <2>9 DEF CloseFc
  <2>10. CASE RemoveDir(c)  BY <2>10 DEF RemoveDir
  <2>11. CASE CloseShim(c)  BY <2>11 DEF CloseShim
  <2>12. CASE StopVM(c)  BY <2>12 DEF StopVM
  <2>13. CASE ShimAnswers(c)  BY <2>13 DEF ShimAnswers
  <2>14. CASE LookUp(c)  BY <2>14 DEF LookUp
  <2>15. CASE Poll(c)  BY <2>15 DEF Poll
  <2>16. CASE Expire(c)  BY <2>16 DEF Expire
  <2>17. CASE ShimStops(c)  BY <2>17 DEF ShimStops
  <2>18. CASE ShimExits(c)  BY <2>18 DEF ShimExits
  <2>19. CASE Wait(c)  BY <2>19 DEF Wait
  <2>20. CASE Reap(c)  BY <2>20 DEF Reap
  <2>21. CASE CollectFiles(c)  BY <2>21 DEF CollectFiles
  <2> QED
    BY <1>1, <2>1, <2>2, <2>3, <2>4, <2>5, <2>6, <2>7, <2>8, <2>9, <2>10, <2>11,
       <2>12, <2>13, <2>14, <2>15, <2>16, <2>17, <2>18, <2>19, <2>20, <2>21
       DEF RequestStep, CreateStep, StopStep, ShimStep
<1>2. CASE Restart
  BY <1>2 DEF Restart
<1>3. CASE UNCHANGED vars
  BY <1>3 DEF vars, callVars, fdVars, shimVars, recordVars
<1> QED
  BY <1>1, <1>2, <1>3 DEF Next, RequestStep

\* The shims follow the control of their CreateVM.
LEMMA ShimLife ==
    ASSUME TypeOK, ErrInv, ShimInv, [Next]_vars
    PROVE  ShimInv'
<1> USE DEF TypeOK, ErrInv, ShimInv, Creating, Stopping, Replies, Living, Kinds,
       Goto, Fail, Succeed, vars, callVars, fdVars, shimVars, recordVars
<1>1. ASSUME NEW c \in Calls, RequestStep(c)
      PROVE  ShimInv'
  <2>1. CASE CreateVM(c)  BY <2>1 DEF CreateVM
  <2>2. CASE MakeDir(c)  BY <2>2 DEF MakeDir
  <2>3. CASE ListenFc(c)  BY <2>3 DEF ListenFc
  <2>4. CASE Fork(c)  BY <2>4 DEF Fork
  <2>5. CASE SetShimOOMScore(c)  BY <2>5 DEF SetShimOOMScore
  <2>6. CASE CallShim(c)  BY <2>6 DEF CallShim
  <2>7. CASE Kill(c)  BY <2>7 DEF Kill
  <2>8. CASE AddShim(c)  BY <2>8 DEF AddShim
  <2>9. CASE CloseFc(c)  BY <2>9 DEF CloseFc
  <2>10. CASE RemoveDir(c)  BY <2>10 DEF RemoveDir
  <2>11. CASE CloseShim(c)  BY <2>11 DEF CloseShim
  <2>12. CASE StopVM(c)  BY <2>12 DEF StopVM
  <2>13. CASE ShimAnswers(c)  BY <2>13 DEF ShimAnswers
  <2>14. CASE LookUp(c)  BY <2>14 DEF LookUp
  <2>15. CASE Poll(c)  BY <2>15 DEF Poll
  <2>16. CASE Expire(c)  BY <2>16 DEF Expire
  <2>17. CASE ShimStops(c)  BY <2>17 DEF ShimStops
  <2>18. CASE ShimExits(c)  BY <2>18 DEF ShimExits
  <2>19. CASE Wait(c)  BY <2>19 DEF Wait
  <2>20. CASE Reap(c)  BY <2>20 DEF Reap
  <2>21. CASE CollectFiles(c)  BY <2>21 DEF CollectFiles
  <2> QED
    BY <1>1, <2>1, <2>2, <2>3, <2>4, <2>5, <2>6, <2>7, <2>8, <2>9, <2>10, <2>11,
       <2>12, <2>13, <2>14, <2>15, <2>16, <2>17, <2>18, <2>19, <2>20, <2>21
       DEF RequestStep, CreateStep, StopStep, ShimStep
<1>2. CASE Restart
  BY <1>2 DEF Restart
<1>3. CASE UNCHANGED vars
  BY <1>3 DEF vars, callVars, fdVars, shimVars, recordVars
<1> QED
  BY <1>1, <1>2, <1>3 DEF Next, RequestStep

\* Descriptors of fccontrol sockets are made by a running CreateVM.
LEMMA FcStep ==
    ASSUME TypeOK, FcOwner, [Next]_vars
    PROVE  FcOwner'
<1> USE DEF TypeOK, FcOwner, Creating, Stopping, Replies, Living, Kinds, Goto,
       Fail, Succeed, vars, callVars, fdVars, shimVars, recordVars
<1>1. ASSUME NEW c \in Calls, RequestStep(c)
      PROVE  FcOwner'
  <2>1. CASE CreateVM(c)  BY <2>1 DEF CreateVM
  <2>2. CASE MakeDir(c)  BY <2>2 DEF MakeDir
  <2>3. CASE ListenFc(c)  BY <2>3 DEF ListenFc
  <2>4. CASE Fork(c)  BY <2>4 DEF Fork
  <2>5. CASE SetShimOOMScore(c)  BY <2>5 DEF SetShimOOMScore
  <2>6. CASE CallShim(c)  BY <2>6 DEF CallShim
  <2>7. CASE Kill(c)  BY <2>7 DEF Kill
  <2>8. CASE AddShim(c)  BY <2>8 DEF AddShim
  <2>9. CASE CloseFc(c)  BY <2>9 DEF CloseFc
  <2>10. CASE RemoveDir(c)  BY <2>10 DEF RemoveDir
  <2>11. CASE CloseShim(c)  BY <2>11 DEF CloseShim
  <2>12. CASE StopVM(c)  BY <2>12 DEF StopVM
  <2>13. CASE ShimAnswers(c)  BY <2>13 DEF ShimAnswers
  <2>14. CASE LookUp(c)  BY <2>14 DEF LookUp
  <2>15. CASE Poll(c)  BY <2>15 DEF Poll
  <2>16. CASE Expire(c)  BY <2>16 DEF Expire
  <2>17. CASE ShimStops(c)  BY <2>17 DEF ShimStops
  <2>18. CASE ShimExits(c)  BY <2>18 DEF ShimExits
  <2>19. CASE Wait(c)  BY <2>19 DEF Wait
  <2>20. CASE Reap(c)  BY <2>20 DEF Reap
  <2>21. CASE CollectFiles(c)  BY <2>21 DEF CollectFiles
  <2> QED
    BY <1>1, <2>1, <2>2, <2>3, <2>4, <2>5, <2>6, <2>7, <2>8, <2>9, <2>10, <2>11,
       <2>12, <2>13, <2>14, <2>15, <2>16, <2>17, <2>18, <2>19, <2>20, <2>21
       DEF RequestStep, CreateStep, StopStep, ShimStep
<1>2. CASE Restart
  BY <1>2 DEF Restart
<1>3. CASE UNCHANGED vars
  BY <1>3 DEF vars, callVars, fdVars, shimVars, recordVars
<1> QED
  BY <1>1, <1>2, <1>3 DEF Next, RequestStep

\* A record is overwritten only when its shim has left the address.
LEMMA RecordStep ==
    ASSUME TypeOK, OneOwner, Holding, ErrInv, ShimInv, Recorded, [Next]_vars
    PROVE  Recorded'
<1> USE DEF TypeOK, OneOwner, Holding, ErrInv, ShimInv, Recorded, Alive,
       Creating, Stopping, Replies, Living, Kinds, Goto, Fail, Succeed, vars,
       callVars, fdVars, shimVars, recordVars
<1>1. ASSUME NEW c \in Calls, RequestStep(c)
      PROVE  Recorded'
  <2>1. CASE CreateVM(c)  BY <2>1 DEF CreateVM
  <2>2. CASE MakeDir(c)  BY <2>2 DEF MakeDir
  <2>3. CASE ListenFc(c)  BY <2>3 DEF ListenFc
  <2>4. CASE Fork(c)  BY <2>4 DEF Fork
  <2>5. CASE SetShimOOMScore(c)  BY <2>5 DEF SetShimOOMScore
  <2>6. CASE CallShim(c)  BY <2>6 DEF CallShim
  <2>7. CASE Kill(c)  BY <2>7 DEF Kill
  <2>8. CASE AddShim(c)
    <3> SUFFICES ASSUME NEW d \in Calls, Alive(d), vm[d] = vm[c], d # c
                 PROVE  FALSE
      BY <2>8 DEF AddShim
    <3>1. <<"call", c>> \in shimFds /\ <<"shim", d>> \in shimFds
      BY <2>8 DEF AddShim
    <3> QED
      BY <3>1
  <2>9. CASE CloseFc(c)  BY <2>9 DEF CloseFc
  <2>10. CASE RemoveDir(c)  BY <2>10 DEF RemoveDir
  <2>11. CASE CloseShim(c)  BY <2>11 DEF CloseShim
  <2>12. CASE StopVM(c)  BY <2>12 DEF StopVM
  <2>13. CASE ShimAnswers(c)  BY <2>13 DEF ShimAnswers
  <2>14. CASE LookUp(c)  BY <2>14 DEF LookUp
  <2>15. CASE Poll(c)  BY <2>15 DEF Poll
  <2>16. CASE Expire(c)  BY <2>16 DEF Expire
  <2>17. CASE ShimStops(c)  BY <2>17 DEF ShimStops
  <2>18. CASE ShimExits(c)  BY <2>18 DEF ShimExits
  <2>19. CASE Wait(c)  BY <2>19 DEF Wait
  <2>20. CASE Reap(c)  BY <2>20 DEF Reap
  <2>21. CASE CollectFiles(c)  BY <2>21 DEF CollectFiles
  <2> QED
    BY <1>1, <2>1, <2>2, <2>3, <2>4, <2>5, <2>6, <2>7, <2>8, <2>9, <2>10, <2>11,
       <2>12, <2>13, <2>14, <2>15, <2>16, <2>17, <2>18, <2>19, <2>20, <2>21
       DEF RequestStep, CreateStep, StopStep, ShimStep
<1>2. CASE Restart
  BY <1>2 DEF Restart
<1>3. CASE UNCHANGED vars
  BY <1>3 DEF vars, callVars, fdVars, shimVars, recordVars
<1> QED
  BY <1>1, <1>2, <1>3 DEF Next, RequestStep

\* The mutex protects the record that is polled.
LEMMA PollStep ==
    ASSUME TypeOK, Polling, [Next]_vars
    PROVE  Polling'
<1> USE DEF TypeOK, Polling, Creating, Stopping, Replies, Living, Kinds, Goto,
       Fail, Succeed, vars, callVars, fdVars, shimVars, recordVars
<1>1. ASSUME NEW c \in Calls, RequestStep(c)
      PROVE  Polling'
  <2>1. CASE CreateVM(c)  BY <2>1 DEF CreateVM
  <2>2. CASE MakeDir(c)  BY <2>2 DEF MakeDir
  <2>3. CASE ListenFc(c)  BY <2>3 DEF ListenFc
  <2>4. CASE Fork(c)  BY <2>4 DEF Fork
  <2>5. CASE SetShimOOMScore(c)  BY <2>5 DEF SetShimOOMScore
  <2>6. CASE CallShim(c)  BY <2>6 DEF CallShim
  <2>7. CASE Kill(c)  BY <2>7 DEF Kill
  <2>8. CASE AddShim(c)
    BY <2>8, NoCallAssumption DEF AddShim
  <2>9. CASE CloseFc(c)  BY <2>9 DEF CloseFc
  <2>10. CASE RemoveDir(c)  BY <2>10 DEF RemoveDir
  <2>11. CASE CloseShim(c)  BY <2>11 DEF CloseShim
  <2>12. CASE StopVM(c)  BY <2>12 DEF StopVM
  <2>13. CASE ShimAnswers(c)  BY <2>13 DEF ShimAnswers
  <2>14. CASE LookUp(c)
    BY <2>14, NoCallAssumption DEF LookUp
  <2>15. CASE Poll(c)  BY <2>15 DEF Poll
  <2>16. CASE Expire(c)  BY <2>16 DEF Expire
  <2>17. CASE ShimStops(c)  BY <2>17 DEF ShimStops
  <2>18. CASE ShimExits(c)  BY <2>18 DEF ShimExits
  <2>19. CASE Wait(c)  BY <2>19 DEF Wait
  <2>20. CASE Reap(c)  BY <2>20 DEF Reap
  <2>21. CASE CollectFiles(c)  BY <2>21 DEF CollectFiles
  <2> QED
    BY <1>1, <2>1, <2>2, <2>3, <2>4, <2>5, <2>6, <2>7, <2>8, <2>9, <2>10, <2>11,
       <2>12, <2>13, <2>14, <2>15, <2>16, <2>17, <2>18, <2>19, <2>20, <2>21
       DEF RequestStep, CreateStep, StopStep, ShimStep
<1>2. CASE Restart
  BY <1>2 DEF Restart
<1>3. CASE UNCHANGED vars
  BY <1>3 DEF vars, callVars, fdVars, shimVars, recordVars
<1> QED
  BY <1>1, <1>2, <1>3 DEF Next, RequestStep

\* Without eager stops the CreateVM a StopVM is about has returned.
LEMMA ConnectStep ==
    ASSUME ~EagerStop, TypeOK, FcOwner, Connected, [Next]_vars
    PROVE  Connected'
<1> USE DEF TypeOK, FcOwner, Connected, Creating, Stopping, Replies, Living,
       Kinds, Goto, Fail, Succeed, vars, callVars, fdVars, shimVars, recordVars
<1>1. ASSUME NEW c \in Calls, RequestStep(c)
      PROVE  Connected'
  <2>1. CASE CreateVM(c)  BY <2>1 DEF CreateVM
  <2>2. CASE MakeDir(c)  BY <2>2 DEF MakeDir
  <2>3. CASE ListenFc(c)  BY <2>3 DEF ListenFc
  <2>4. CASE Fork(c)  BY <2>4 DEF Fork
  <2>5. CASE SetShimOOMScore(c)  BY <2>5 DEF SetShimOOMScore
  <2>6. CASE CallShim(c)  BY <2>6 DEF CallShim
  <2>7. CASE Kill(c)  BY <2>7 DEF Kill
  <2>8. CASE AddShim(c)  BY <2>8 DEF AddShim
  <2>9. CASE CloseFc(c)  BY <2>9 DEF CloseFc
  <2>10. CASE RemoveDir(c)  BY <2>10 DEF RemoveDir
  <2>11. CASE CloseShim(c)  BY <2>11 DEF CloseShim
  <2>12. CASE StopVM(c)  BY <2>12 DEF StopVM
  <2>13. CASE ShimAnswers(c)  BY <2>13 DEF ShimAnswers
  <2>14. CASE LookUp(c)  BY <2>14 DEF LookUp
  <2>15. CASE Poll(c)  BY <2>15 DEF Poll
  <2>16. CASE Expire(c)  BY <2>16 DEF Expire
  <2>17. CASE ShimStops(c)  BY <2>17 DEF ShimStops
  <2>18. CASE ShimExits(c)  BY <2>18 DEF ShimExits
  <2>19. CASE Wait(c)  BY <2>19 DEF Wait
  <2>20. CASE Reap(c)  BY <2>20 DEF Reap
  <2>21. CASE CollectFiles(c)  BY <2>21 DEF CollectFiles
  <2> QED
    BY <1>1, <2>1, <2>2, <2>3, <2>4, <2>5, <2>6, <2>7, <2>8, <2>9, <2>10, <2>11,
       <2>12, <2>13, <2>14, <2>15, <2>16, <2>17, <2>18, <2>19, <2>20, <2>21
       DEF RequestStep, CreateStep, StopStep, ShimStep
<1>2. CASE Restart
  BY <1>2 DEF Restart
<1>3. CASE UNCHANGED vars
  BY <1>3 DEF vars, callVars, fdVars, shimVars, recordVars
<1> QED
  BY <1>1, <1>2, <1>3 DEF Next, RequestStep

\* Only a shim whose CreateVM went well answers without an error.
LEMMA ServedStep ==
    ASSUME TypeOK, ErrInv, ShimInv, Connected, Served, [Next]_vars
    PROVE  Served'
<1> USE DEF TypeOK, ErrInv, ShimInv, Connected, Served, Creating, Stopping,
       Replies, Living, Kinds, Goto, Fail, Succeed, vars, callVars, fdVars,
       shimVars, recordVars
<1>1. ASSUME NEW c \in Calls, RequestStep(c)
      PROVE  Served'
  <2>1. CASE CreateVM(c)  BY <2>1 DEF CreateVM
  <2>2. CASE MakeDir(c)  BY <2>2 DEF MakeDir
  <2>3. CASE ListenFc(c)  BY <2>3 DEF ListenFc
  <2>4. CASE Fork(c)  BY <2>4 DEF Fork
  <2>5. CASE SetShimOOMScore(c)  BY <2>5 DEF SetShimOOMScore
  <2>6. CASE CallShim(c)  BY <2>6 DEF CallShim
  <2>7. CASE Kill(c)  BY <2>7 DEF Kill
  <2>8. CASE AddShim(c)  BY <2>8 DEF AddShim
  <2>9. CASE CloseFc(c)  BY <2>9 DEF CloseFc
  <2>10. CASE RemoveDir(c)  BY <2>10 DEF RemoveDir
  <2>11. CASE CloseShim(c)  BY <2>11 DEF CloseShim
  <2>12. CASE StopVM(c)  BY <2>12 DEF StopVM
  <2>13. CASE ShimAnswers(c)  BY <2>13 DEF ShimAnswers
  <2>14. CASE LookUp(c)  BY <2>14 DEF LookUp
  <2>15. CASE Poll(c)  BY <2>15 DEF Poll
  <2>16. CASE Expire(c)  BY <2>16 DEF Expire
  <2>17. CASE ShimStops(c)  BY <2>17 DEF ShimStops
  <2>18. CASE ShimExits(c)  BY <2>18 DEF ShimExits
  <2>19. CASE Wait(c)  BY <2>19 DEF Wait
  <2>20. CASE Reap(c)  BY <2>20 DEF Reap
  <2>21. CASE CollectFiles(c)  BY <2>21 DEF CollectFiles
  <2> QED
    BY <1>1, <2>1, <2>2, <2>3, <2>4, <2>5, <2>6, <2>7, <2>8, <2>9, <2>10, <2>11,
       <2>12, <2>13, <2>14, <2>15, <2>16, <2>17, <2>18, <2>19, <2>20, <2>21
       DEF RequestStep, CreateStep, StopStep, ShimStep
<1>2. CASE Restart
  BY <1>2 DEF Restart
<1>3. CASE UNCHANGED vars
  BY <1>3 DEF vars, callVars, fdVars, shimVars, recordVars
<1> QED
  BY <1>1, <1>2, <1>3 DEF Next, RequestStep

\* The wait that ends a successful StopVM was for the right shim.
LEMMA StoppedStep ==
    ASSUME TypeOK, ErrInv, ShimInv, Recorded, Polling, Connected, Served, StoppedMeansGone, [Next]_vars
    PROVE  StoppedMeansGone'
<1> USE DEF TypeOK, ShimInv, Recorded, Polling, Connected, Served,
       StoppedMeansGone, Alive, Creating, Stopping, Replies, Living, Kinds,
       Goto, Fail, Succeed, vars, callVars, fdVars, shimVars, recordVars
<1>1. ASSUME NEW c \in Calls, RequestStep(c)
      PROVE  StoppedMeansGone'
  <2>1. CASE CreateVM(c)  BY <2>1 DEF CreateVM
  <2>2. CASE MakeDir(c)  BY <2>2 DEF MakeDir
  <2>3. CASE ListenFc(c)  BY <2>3 DEF ListenFc
  <2>4. CASE Fork(c)  BY <2>4 DEF Fork
  <2>5. CASE SetShimOOMScore(c)  BY <2>5 DEF SetShimOOMScore
  <2>6. CASE CallShim(c)  BY <2>6 DEF CallShim
  <2>7. CASE Kill(c)  BY <2>7 DEF Kill
  <2>8. CASE AddShim(c)  BY <2>8 DEF AddShim
  <2>9. CASE CloseFc(c)  BY <2>9 DEF CloseFc
  <2>10. CASE RemoveDir(c)  BY <2>10 DEF RemoveDir
  <2>11. CASE CloseShim(c)  BY <2>11 DEF CloseShim
  <2>12. CASE StopVM(c)  BY <2>12 DEF StopVM
  <2>13. CASE ShimAnswers(c)  BY <2>13 DEF ShimAnswers
  <2>14. CASE LookUp(c)  BY <2>14 DEF LookUp
  <2>15. CASE Poll(c)  BY <2>15 DEF Poll
  <2>16. CASE Expire(c)  BY <2>16 DEF Expire
  <2>17. CASE ShimStops(c)  BY <2>17 DEF ShimStops
  <2>18. CASE ShimExits(c)  BY <2>18 DEF ShimExits
  <2>19. CASE Wait(c)  BY <2>19 DEF Wait
  <2>20. CASE Reap(c)  BY <2>20 DEF Reap
  <2>21. CASE CollectFiles(c)  BY <2>21 DEF CollectFiles
  <2> QED
    BY <1>1, <2>1, <2>2, <2>3, <2>4, <2>5, <2>6, <2>7, <2>8, <2>9, <2>10, <2>11,
       <2>12, <2>13, <2>14, <2>15, <2>16, <2>17, <2>18, <2>19, <2>20, <2>21
       DEF RequestStep, CreateStep, StopStep, ShimStep
<1>2. CASE Restart
  BY <1>2 DEF Restart
<1>3. CASE UNCHANGED vars
  BY <1>3 DEF vars, callVars, fdVars, shimVars, recordVars
<1> QED
  BY <1>1, <1>2, <1>3 DEF Next, RequestStep

\* Every descriptor has somebody who will close it.
LEMMA FdStep ==
    ASSUME TypeOK, FdInv, [Next]_vars
    PROVE  FdInv'
<1> USE DEF TypeOK, FdInv, Alive,
       Creating, Stopping, Replies, Living, Kinds, Goto, Fail, Succeed, vars,
       callVars, fdVars, shimVars, recordVars
<1>1. ASSUME NEW c \in Calls, RequestStep(c)
      PROVE  FdInv'
  <2>1. CASE CreateVM(c)
    <3>1. shimFds' \subseteq shimFds \cup {<<"call", c>>} /\ fcFds' = fcFds /\ shim' = shim
      BY <2>1 DEF CreateVM
    <3>2. pc[c] = "idle" /\ (shimFds' # shimFds => pc'[c] = "dir")
      BY <2>1 DEF CreateVM
    <3>3. \A d \in Calls \ {c} : pc'[d] = pc[d]
      BY <2>1 DEF CreateVM
    <3>4. \A d \in Calls : <<"shim", d>> \in shimFds' => <<"shim", d>> \in shimFds
      <4>1. \A d \in Calls : <<"shim", d>> # <<"call", c>>
        OBVIOUS
      <4> QED
        BY <3>1, <4>1
    <3>5. \A d \in Calls \ {c} : <<"call", d>> \in shimFds' => <<"call", d>> \in shimFds
      <4>1. \A d \in Calls \ {c} : <<"call", d>> # <<"call", c>>
        OBVIOUS
      <4> QED
        BY <3>1, <4>1
    <3>6. <<"call", c>> \notin shimFds /\ <<"call", c>> \notin fcFds
      BY <3>2
    <3> QED
      BY <3>1, <3>2, <3>3, <3>4, <3>5, <3>6
  <2>2. CASE MakeDir(c)  BY <2>2 DEF MakeDir
  <2>3. CASE ListenFc(c)
    <3>1. shimFds' = shimFds /\ shim' = shim /\ fcFds' \subseteq fcFds \cup {<<"call", c>>}
      BY <2>3 DEF ListenFc
    <3>2. \A d \in Calls : <<"shim", d>> \in fcFds' => <<"shim", d>> \in fcFds
      <4>1. \A d \in Calls : <<"shim", d>> # <<"call", c>>
        OBVIOUS
      <4> QED
        BY <3>1, <4>1
    <3>3. \A d \in Calls \ {c} : <<"call", d>> \in fcFds' => <<"call", d>> \in fcFds
      <4>1. \A d \in Calls \ {c} : <<"call", d>> # <<"call", c>>
        OBVIOUS
      <4> QED
        BY <3>1, <4>1
    <3>4. \A d \in Calls \ {c} : pc'[d] = pc[d]
      BY <2>3 DEF ListenFc
    <3>5. pc'[c] \in Creating /\ (<<"call", c>> \in fcFds' => pc'[c] = "fork")
      BY <2>3 DEF ListenFc
    <3> QED
      BY <3>1, <3>2, <3>3, <3>4, <3>5
  <2>4. CASE Fork(c)
    <3>1. \A d \in Calls : <<"call", d>> \in shimFds' => <<"call", d>> \in shimFds
      BY <2>4 DEF Fork
    <3>2. \A d \in Calls : <<"call", d>> \in fcFds' => <<"call", d>> \in fcFds
      BY <2>4 DEF Fork
    <3>3. \A d \in Calls :
             <<"shim", d>> \in shimFds' \cup fcFds' =>
                 \/ <<"shim", d>> \in shimFds \cup fcFds
                 \/ d = c /\ shim'[c] = "booting"
      BY <2>4 DEF Fork
    <3>4. \A d \in Calls : shim'[d] = shim[d] \/ shim'[d] = "booting"
      BY <2>4 DEF Fork
    <3>5. pc[c] = "fork" /\ pc' = [pc EXCEPT ![c] = pc'[c]] /\ pc'[c] \in {"oom", "closeFc"}
      BY <2>4 DEF Fork
    <3> QED
      BY <3>1, <3>2, <3>3, <3>4, <3>5
  <2>5. CASE SetShimOOMScore(c)  BY <2>5 DEF SetShimOOMScore
  <2>6. CASE CallShim(c)
    <3>1. pc[c] = "call" /\ pc'[c] \in {"record", "kill"}
      BY <2>6 DEF CallShim
    <3>2. \A d \in Calls \ {c} : pc'[d] = pc[d] /\ shim'[d] = shim[d]
      BY <2>6 DEF CallShim
    <3>3. \/ shim' = shim
          \/ shim[c] = "booting" /\ shim' = [shim EXCEPT ![c] = "serving"]
      BY <2>6 DEF CallShim
    <3>4. Alive(c) => Alive(c)'
      BY <3>3
    <3>5. fcFds' = fcFds /\ shimFds' = shimFds
      BY <2>6 DEF CallShim
    <3> QED
      BY <3>1, <3>2, <3>4, <3>5
  <2>7. CASE Kill(c)  BY <2>7 DEF Kill
  <2>8. CASE AddShim(c)  BY <2>8 DEF AddShim
  <2>9. CASE CloseFc(c)  BY <2>9 DEF CloseFc
  <2>10. CASE RemoveDir(c)  BY <2>10 DEF RemoveDir
  <2>11. CASE CloseShim(c)  BY <2>11 DEF CloseShim
  <2>12. CASE StopVM(c)  BY <2>12 DEF StopVM
  <2>13. CASE ShimAnswers(c)  BY <2>13 DEF ShimAnswers
  <2>14. CASE LookUp(c)  BY <2>14 DEF LookUp
  <2>15. CASE Poll(c)  BY <2>15 DEF Poll
  <2>16. CASE Expire(c)  BY <2>16 DEF Expire
  <2>17. CASE ShimStops(c)  BY <2>17 DEF ShimStops
  <2>18. CASE ShimExits(c)  BY <2>18 DEF ShimExits
  <2>19. CASE Wait(c)  BY <2>19 DEF Wait
  <2>20. CASE Reap(c)  BY <2>20 DEF Reap
  <2>21. CASE CollectFiles(c)  BY <2>21 DEF CollectFiles
  <2> QED
    BY <1>1, <2>1, <2>2, <2>3, <2>4, <2>5, <2>6, <2>7, <2>8, <2>9, <2>10, <2>11,
       <2>12, <2>13, <2>14, <2>15, <2>16, <2>17, <2>18, <2>19, <2>20, <2>21
       DEF RequestStep, CreateStep, StopStep, ShimStep
<1>2. CASE Restart
  BY <1>2 DEF Restart
<1>3. CASE UNCHANGED vars
  BY <1>3 DEF vars, callVars, fdVars, shimVars, recordVars
<1> QED
  BY <1>1, <1>2, <1>3 DEF Next, RequestStep

\* The reaper waits for its shim first.
LEMMA ReaperStep ==
    ASSUME TypeOK, ReaperInv, [Next]_vars
    PROVE  ReaperInv'
<1> USE DEF TypeOK, ReaperInv,
       Creating, Stopping, Replies, Living, Kinds, Goto, Fail, Succeed, vars,
       callVars, fdVars, shimVars, recordVars
<1>1. ASSUME NEW c \in Calls, RequestStep(c)
      PROVE  ReaperInv'
  <2>1. CASE CreateVM(c)  BY <2>1 DEF CreateVM
  <2>2. CASE MakeDir(c)  BY <2>2 DEF MakeDir
  <2>3. CASE ListenFc(c)  BY <2>3 DEF ListenFc
  <2>4. CASE Fork(c)  BY <2>4 DEF Fork
  <2>5. CASE SetShimOOMScore(c)  BY <2>5 DEF SetShimOOMScore
  <2>6. CASE CallShim(c)  BY <2>6 DEF CallShim
  <2>7. CASE Kill(c)  BY <2>7 DEF Kill
  <2>8. CASE AddShim(c)  BY <2>8 DEF AddShim
  <2>9. CASE CloseFc(c)  BY <2>9 DEF CloseFc
  <2>10. CASE RemoveDir(c)  BY <2>10 DEF RemoveDir
  <2>11. CASE CloseShim(c)  BY <2>11 DEF CloseShim
  <2>12. CASE StopVM(c)  BY <2>12 DEF StopVM
  <2>13. CASE ShimAnswers(c)  BY <2>13 DEF ShimAnswers
  <2>14. CASE LookUp(c)  BY <2>14 DEF LookUp
  <2>15. CASE Poll(c)  BY <2>15 DEF Poll
  <2>16. CASE Expire(c)  BY <2>16 DEF Expire
  <2>17. CASE ShimStops(c)  BY <2>17 DEF ShimStops
  <2>18. CASE ShimExits(c)  BY <2>18 DEF ShimExits
  <2>19. CASE Wait(c)  BY <2>19 DEF Wait
  <2>20. CASE Reap(c)  BY <2>20 DEF Reap
  <2>21. CASE CollectFiles(c)  BY <2>21 DEF CollectFiles
  <2> QED
    BY <1>1, <2>1, <2>2, <2>3, <2>4, <2>5, <2>6, <2>7, <2>8, <2>9, <2>10, <2>11,
       <2>12, <2>13, <2>14, <2>15, <2>16, <2>17, <2>18, <2>19, <2>20, <2>21
       DEF RequestStep, CreateStep, StopStep, ShimStep
<1>2. CASE Restart
  BY <1>2 DEF Restart
<1>3. CASE UNCHANGED vars
  BY <1>3 DEF vars, callVars, fdVars, shimVars, recordVars
<1> QED
  BY <1>1, <1>2, <1>3 DEF Next, RequestStep

\* A directory always has somebody who will remove it.
LEMMA DirStep ==
    ASSUME TypeOK, ReaperInv, DirInv, [Next]_vars
    PROVE  DirInv'
<1> USE DEF TypeOK, ReaperInv, DirInv, Responsible,
       Creating, Stopping, Replies, Living, Kinds, Goto, Fail, Succeed, vars,
       callVars, fdVars, shimVars, recordVars
<1>1. ASSUME NEW c \in Calls, RequestStep(c)
      PROVE  DirInv'
  <2>1. CASE CreateVM(c)  BY <2>1 DEF CreateVM
  <2>2. CASE MakeDir(c)  BY <2>2 DEF MakeDir
  <2>3. CASE ListenFc(c)  BY <2>3 DEF ListenFc
  <2>4. CASE Fork(c)  BY <2>4 DEF Fork
  <2>5. CASE SetShimOOMScore(c)  BY <2>5 DEF SetShimOOMScore
  <2>6. CASE CallShim(c)  BY <2>6 DEF CallShim
  <2>7. CASE Kill(c)  BY <2>7 DEF Kill
  <2>8. CASE AddShim(c)  BY <2>8 DEF AddShim
  <2>9. CASE CloseFc(c)  BY <2>9 DEF CloseFc
  <2>10. CASE RemoveDir(c)  BY <2>10 DEF RemoveDir
  <2>11. CASE CloseShim(c)  BY <2>11 DEF CloseShim
  <2>12. CASE StopVM(c)  BY <2>12 DEF StopVM
  <2>13. CASE ShimAnswers(c)  BY <2>13 DEF ShimAnswers
  <2>14. CASE LookUp(c)  BY <2>14 DEF LookUp
  <2>15. CASE Poll(c)  BY <2>15 DEF Poll
  <2>16. CASE Expire(c)  BY <2>16 DEF Expire
  <2>17. CASE ShimStops(c)  BY <2>17 DEF ShimStops
  <2>18. CASE ShimExits(c)  BY <2>18 DEF ShimExits
  <2>19. CASE Wait(c)  BY <2>19 DEF Wait
  <2>20. CASE Reap(c)  BY <2>20 DEF Reap
  <2>21. CASE CollectFiles(c)  BY <2>21 DEF CollectFiles
  <2> QED
    BY <1>1, <2>1, <2>2, <2>3, <2>4, <2>5, <2>6, <2>7, <2>8, <2>9, <2>10, <2>11,
       <2>12, <2>13, <2>14, <2>15, <2>16, <2>17, <2>18, <2>19, <2>20, <2>21
       DEF RequestStep, CreateStep, StopStep, ShimStep
<1>2. CASE Restart
  BY <1>2 DEF Restart
<1>3. CASE UNCHANGED vars
  BY <1>3 DEF vars, callVars, fdVars, shimVars, recordVars
<1> QED
  BY <1>1, <1>2, <1>3 DEF Next, RequestStep

-----------------------------------------------------------------------------
(* The theorems.                                                           *)

\* Every variable keeps its type.
THEOREM TypeCorrect == Spec => []TypeOK
<1>1. Init => TypeOK
  BY MaxRestartsAssumption DEF Init, TypeOK, Creating, Stopping, Replies, Living, Kinds
<1>2. TypeOK /\ [Next]_vars => TypeOK'
  BY TypeStep
<1> QED
  BY <1>1, <1>2, PTL DEF Spec

\* The kernel's refusal of an address in use, together with the inheritance of
\* the sockets, gives a VM ID one shim at most: through failed creations, shims
\* that were left behind and restarts of containerd.
THEOREM SingleShim == Spec => []OneShim
<1>1. Init => SocketInv
  BY MaxRestartsAssumption DEF Init, SocketInv, TypeOK, OneOwner, Holding, Alive,
     Creating, Stopping, Replies, Living, Kinds
<1>2. SocketInv /\ [Next]_vars => SocketInv'
  BY TypeStep, SocketStep DEF SocketInv
<1>3. SocketInv => OneShim
  BY DEF SocketInv, OneOwner, Holding, OneShim
<1> QED
  BY <1>1, <1>2, <1>3, PTL DEF Spec

\* A StopVM that reports success has waited for the shim that served it, if
\* clients do not stop a VM whose creation they have not seen return.
THEOREM StopWaits == ASSUME ~EagerStop PROVE Spec => []StoppedMeansGone
<1>1. Init => IInv
  <2> USE DEF Init, Creating, Stopping, Replies, Living, Kinds
  <2> SUFFICES ASSUME Init PROVE IInv
    OBVIOUS
  <2>1. SocketInv
    BY MaxRestartsAssumption DEF SocketInv, TypeOK, OneOwner, Holding, Alive
  <2> QED
    BY <2>1 DEF IInv, ErrInv, ShimInv, FcOwner, Recorded, Polling, Connected, Served,
       StoppedMeansGone, Alive
<1>2. IInv /\ [Next]_vars => IInv'
  BY TypeStep, SocketStep, ErrStep, ShimLife, FcStep, RecordStep, PollStep,
     ConnectStep, ServedStep, StoppedStep DEF IInv, SocketInv
<1>3. IInv => StoppedMeansGone
  BY DEF IInv
<1> QED
  BY <1>1, <1>2, <1>3, PTL DEF Spec

\* When nothing runs for a VM ID any more, whatever failed on the way, its
\* directory is gone and both of its addresses are free.
THEOREM GivenBack == Spec => []NothingLeft
<1> DEFINE Inv == TypeOK /\ FdInv /\ ReaperInv /\ DirInv
<1>1. Init => Inv
  BY MaxRestartsAssumption DEF Init, TypeOK, FdInv, ReaperInv, DirInv, Alive,
     Creating, Stopping, Replies, Living, Kinds
<1>2. Inv /\ [Next]_vars => Inv'
  BY TypeStep, FdStep, ReaperStep, DirStep
<1>3. Inv => NothingLeft
  <2> SUFFICES ASSUME Inv, NEW v \in Vms, Settled(v), restarts = 0
               PROVE  ~dir[v] /\ ~InUse(shimFds, v) /\ ~InUse(fcFds, v)
    BY DEF NothingLeft
  <2>1. ~dir[v]
    BY DEF DirInv, Responsible, Settled, Replies
  <2>2. ASSUME NEW h \in shimFds \cup fcFds, vm[h[2]] = v
        PROVE  FALSE
    <3>1. PICK k \in Kinds, c \in Calls : h = <<k, c>>
      BY <2>2 DEF TypeOK
    <3>2. h[2] = c /\ vm[c] = v
      BY <3>1, <2>2
    <3>3. CASE k = "call"
      BY <3>1, <3>2, <3>3, <2>2 DEF FdInv, Settled, Creating, Replies
    <3>4. CASE k = "shim"
      BY <3>1, <3>2, <3>4, <2>2 DEF FdInv, Settled, Alive, Living
    <3>5. CASE k = "file"
      BY <3>1, <3>2, <3>5, <2>2 DEF Settled
    <3> QED
      BY <3>3, <3>4, <3>5 DEF Kinds
  <2> QED
    BY <2>1, <2>2 DEF InUse
<1> QED
  BY <1>1, <1>2, <1>3, PTL DEF Spec
=============================================================================
