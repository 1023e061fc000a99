-------------------------- MODULE EventBridgeProofs --------------------------
(***************************************************************************)
(* Proofs about EventBridge, for any number of events: type correctness,   *)
(* that the start of a VM comes first, and that the bridge implements      *)
(* EventPipe: no event is lost in the middle, doubled or overtaken.        *)
(***************************************************************************)
EXTENDS EventBridge, TLAPS

-----------------------------------------------------------------------------
(* The inductive invariant.                                                *)

\* The attacher has popped an event that it has not forwarded yet.
InFlight == call = "event" \/ attach = "forward"

\* One call at a time: what it carries is the event popped last.
CallInv ==
    /\ call # "none" => attach = "get"
    /\ attach = "get" => call # "none"
    /\ call = "event" => answer = taken
    /\ attach = "forward" => hand = taken /\ taken > 0
    /\ attach = "none" => taken = 0
    /\ forwarders = "vmReady" => attach = "none"

\* The log of the shim has the events of the VM in their order ...
Ordered ==
    \A i, j \in 1..Len(hostLog) :
        j < i /\ hostLog[i] \in VMEvents /\ hostLog[j] \in VMEvents => hostLog[j] < hostLog[i]

\* ... with no gap ...
NoGap ==
    \A i \in 1..Len(hostLog) : hostLog[i] \in VMEvents /\ hostLog[i] > 1 =>
        \E j \in 1..Len(hostLog) : j < i /\ hostLog[j] = hostLog[i] - 1

\* ... and all that were popped but the one in flight.
Forwarded == IF InFlight THEN taken - 1 ELSE taken

Complete ==
    /\ \A i \in 1..Len(hostLog) : hostLog[i] \in VMEvents => hostLog[i] <= Forwarded
    /\ attach # "ended" =>
           \A e \in 1..Forwarded : \E i \in 1..Len(hostLog) : hostLog[i] = e

LogInv == Ordered /\ NoGap /\ Complete

\* While Republish runs, what it has read has been sent.
SentInv ==
    republish = "select" =>
        /\ \A i \in 1..Len(hostLog) : hostLog[i] \in VMEvents =>
               (hostLog[i] <= Len(sent) <=> i <= read)
        /\ sent # << >> =>
               \E i \in 1..read : hostLog[i] \in VMEvents /\ hostLog[i] = Len(sent)

\* The start is the first event of the log, and the others wait for it.
StartInv ==
    /\ attach # "none" => vmReady
    /\ vmReady => create \in {"announced", "silent"}
    /\ create \in {"creating", "failed"} => hostLog = << >> /\ cleanup = "no"
    /\ create = "announced" => Len(hostLog) > 0 /\ hostLog[1] = VMStart
    /\ create = "announced" /\ republish = "select" /\ read > 0 => VMStart \in seen
    /\ read = 0 => sent = << >>
    /\ StartFirst

IInv == TypeOK /\ CallInv /\ LogInv /\ SentInv /\ StartInv

-----------------------------------------------------------------------------
(* Every step preserves every part of the invariant.                       *)

\* What the log is after an event was appended to it.
Grows(e) ==
    /\ hostLog' \in Seq(0..(MaxEvents + 1))
    /\ Len(hostLog') = Len(hostLog) + 1
    /\ \A i \in 1..Len(hostLog) : hostLog'[i] = hostLog[i]
    /\ hostLog'[Len(hostLog) + 1] = e

LEMMA LogAppended ==
    ASSUME TypeOK, NEW e \in 0..(MaxEvents + 1), hostLog' = Append(hostLog, e)
    PROVE  Grows(e)
  BY DEF TypeOK, Grows

\* What was sent after an event of the VM was.
LEMMA SentAppended ==
    ASSUME TypeOK, NEW e \in VMEvents, sent' = Append(sent, e)
    PROVE  sent' \in Seq(VMEvents) /\ Len(sent') = Len(sent) + 1 /\ sent' # << >>
  BY DEF TypeOK

\* A step of Republish that sends something.
LEMMA RepublishFacts ==
    ASSUME TypeOK, RepublishEvent
    PROVE  /\ republish = "select" /\ read < Len(hostLog) /\ read' = read + 1
           /\ hostLog[read + 1] \in 0..(MaxEvents + 1) /\ hostLog' = hostLog
           /\ UNCHANGED <<vmVars, callVars, shimVars, attachVars, republish, forwarders>>
           /\ \/ /\ hostLog[read + 1] \in VMEvents
                 /\ sent' \in Seq(VMEvents) /\ Len(sent') = Len(sent) + 1 /\ sent' # << >>
                 /\ seen' = seen
              \/ /\ hostLog[read + 1] \notin VMEvents
                 /\ seen' = seen \cup {hostLog[read + 1]} /\ sent' = sent
<1>1. CASE hostLog[read + 1] \in VMEvents
  <2>1. sent' = Append(sent, hostLog[read + 1])
    BY <1>1 DEF RepublishEvent
  <2> QED
    BY <1>1, <2>1, SentAppended, MaxEventsAssumption DEF RepublishEvent, TypeOK
<1>2. CASE hostLog[read + 1] \notin VMEvents
  BY <1>2, MaxEventsAssumption DEF RepublishEvent, TypeOK
<1> QED
  BY <1>1, <1>2

\* Where the event VMStart or VMStop is, there is none of the VM.
LEMMA NoVMEvent == VMStart \notin VMEvents /\ VMStop \notin VMEvents
  BY MaxEventsAssumption DEF VMEvents, VMStart, VMStop

\* Every step keeps the variables in their types.
LEMMA TypeStep ==
    ASSUME TypeOK, CallInv, [Next]_vars
    PROVE  TypeOK'
<1> USE MaxEventsAssumption DEF TypeOK, CallInv, VMEvents, VMStart, VMStop,
       vars, vmVars, callVars, shimVars, attachVars, outVars
<1>1. CASE PublishInVM  BY <1>1 DEF PublishInVM
<1>2. CASE CancelAgent  BY <1>2 DEF CancelAgent
<1>3. CASE EndSubscription  BY <1>3 DEF EndSubscription
<1>4. CASE VMExits  BY <1>4 DEF VMExits
<1>5. CASE PopEvent  BY <1>5 DEF PopEvent
<1>6. CASE GetEventFails  BY <1>6 DEF GetEventFails
<1>7. CASE PublishVMStart
  <2>1. /\ UNCHANGED <<vmVars, callVars, vmReady, cleanup, alive, attachVars, outVars, forwarders>>
        /\ create' \in {"announced", "silent"}
    BY <1>7 DEF PublishVMStart
  <2>2. hostLog' = hostLog \/ Grows(VMStart)
    BY <1>7, LogAppended DEF PublishVMStart
  <2> QED
    BY <2>1, <2>2 DEF Grows
<1>8. CASE FailCreateVM  BY <1>8 DEF FailCreateVM
<1>9. CASE CloseVMReady  BY <1>9 DEF CloseVMReady
<1>10. CASE PublishVMStop
  <2>1. /\ UNCHANGED <<vmVars, callVars, create, vmReady, alive, attachVars, outVars, forwarders>>
        /\ create \in {"announced", "silent"} /\ cleanup' = "published"
    BY <1>10 DEF PublishVMStop
  <2>2. CASE hostLog' = hostLog
    BY <1>10, <2>1, <2>2 DEF PublishVMStop
  <2>3. CASE hostLog' = Append(hostLog, VMStop)
    <3>1. Grows(VMStop)
      BY <2>3, LogAppended
    <3>2. 1..Len(hostLog') = 1..Len(hostLog) \cup {Len(hostLog) + 1}
      BY <3>1 DEF Grows
    <3> QED
      BY <2>1, <3>1, <3>2 DEF Grows
  <2> QED
    BY <1>10, <2>2, <2>3 DEF PublishVMStop
<1>11. CASE ShimExits
  <2>1. alive' = FALSE /\ UNCHANGED <<vmVars, callVars, create, vmReady, cleanup, attachVars,
                                     hostLog, outVars, forwarders>>
    BY <1>11 DEF ShimExits
  <2>2. alive' \in BOOLEAN
    BY <2>1
  <2> QED
    BY <2>1, <2>2
<1>12. CASE StartAttach  BY <1>12 DEF StartAttach
<1>13. CASE CallGetEvent  BY <1>13 DEF CallGetEvent
<1>14. CASE GetEventReturns  BY <1>14 DEF GetEventReturns
<1>15. CASE GetEventErrs  BY <1>15 DEF GetEventErrs, EndAttach
<1>16. CASE ForwardEvent
  <2>1. /\ UNCHANGED <<vmVars, callVars, shimVars, hand, outVars>>
        /\ attach = "forward"
    BY <1>16 DEF ForwardEvent
  <2>2. CASE EndAttach /\ hostLog' = hostLog
    BY <2>1, <2>2 DEF EndAttach
  <2>3. CASE /\ attach' = "loop" /\ UNCHANGED forwarders
             /\ hostLog' = Append(hostLog, hand)
    <3>1. Grows(hand)
      BY <2>3, LogAppended
    <3>2. 1..Len(hostLog') = 1..Len(hostLog) \cup {Len(hostLog) + 1}
      BY <3>1 DEF Grows
    <3>3. attach' = "loop" /\ forwarders' = forwarders
      BY <2>3
    <3> QED
      BY <2>1, <3>1, <3>2, <3>3 DEF Grows
  <2> QED
    BY <1>16, <2>2, <2>3 DEF ForwardEvent, EndAttach
<1>17. CASE RepublishEvent
  <2>1. /\ UNCHANGED <<vmVars, callVars, shimVars, attachVars, hostLog, republish, forwarders>>
        /\ read' \in 0..Len(hostLog)
    BY <1>17, RepublishFacts
  <2>2. sent' \in Seq(VMEvents) /\ seen' \subseteq {VMStart, VMStop}
    <3>1. CASE hostLog[read + 1] \in VMEvents
      BY <1>17, <3>1, RepublishFacts
    <3>2. CASE hostLog[read + 1] \notin VMEvents
      <4>1. seen' = seen \cup {hostLog[read + 1]} /\ sent' = sent
        BY <1>17, <3>2, RepublishFacts
      <4>2. hostLog[read + 1] \in {VMStart, VMStop}
        BY <1>17, <3>2, RepublishFacts
      <4> QED
        BY <4>1, <4>2
    <3> QED
      BY <3>1, <3>2
  <2> QED
    BY <2>1, <2>2
<1>18. CASE RepublishErrs  BY <1>18 DEF RepublishErrs
<1>19. CASE ClosePublisher  BY <1>19 DEF ClosePublisher
<1>20. CASE UNCHANGED vars  BY <1>20
<1> QED
  BY <1>1, <1>2, <1>3, <1>4, <1>5, <1>6, <1>7, <1>8, <1>9, <1>10, <1>11,
     <1>12, <1>13, <1>14, <1>15, <1>16, <1>17, <1>18, <1>19, <1>20
  DEF Next, AgentNext, ShimNext, Stopped

\* A call is answered once.
LEMMA CallStep ==
    ASSUME TypeOK, CallInv, [Next]_vars
    PROVE  CallInv'
<1> USE MaxEventsAssumption DEF TypeOK, CallInv, VMEvents, VMStart, VMStop,
       vars, vmVars, callVars, shimVars, attachVars, outVars
<1>1. CASE PublishInVM  BY <1>1 DEF PublishInVM
<1>2. CASE CancelAgent  BY <1>2 DEF CancelAgent
<1>3. CASE EndSubscription  BY <1>3 DEF EndSubscription
<1>4. CASE VMExits  BY <1>4 DEF VMExits
<1>5. CASE PopEvent  BY <1>5 DEF PopEvent
<1>6. CASE GetEventFails  BY <1>6 DEF GetEventFails
<1>7. CASE PublishVMStart  BY <1>7 DEF PublishVMStart
<1>8. CASE FailCreateVM  BY <1>8 DEF FailCreateVM
<1>9. CASE CloseVMReady  BY <1>9 DEF CloseVMReady
<1>10. CASE PublishVMStop  BY <1>10 DEF PublishVMStop
<1>11. CASE ShimExits  BY <1>11 DEF ShimExits
<1>12. CASE StartAttach  BY <1>12 DEF StartAttach
<1>13. CASE CallGetEvent  BY <1>13 DEF CallGetEvent
<1>14. CASE GetEventReturns  BY <1>14 DEF GetEventReturns
<1>15. CASE GetEventErrs  BY <1>15 DEF GetEventErrs, EndAttach
<1>16. CASE ForwardEvent  BY <1>16 DEF ForwardEvent, EndAttach
<1>17. CASE RepublishEvent  BY <1>17 DEF RepublishEvent
<1>18. CASE RepublishErrs  BY <1>18 DEF RepublishErrs
<1>19. CASE ClosePublisher  BY <1>19 DEF ClosePublisher
<1>20. CASE UNCHANGED vars  BY <1>20
<1> QED
  BY <1>1, <1>2, <1>3, <1>4, <1>5, <1>6, <1>7, <1>8, <1>9, <1>10, <1>11,
     <1>12, <1>13, <1>14, <1>15, <1>16, <1>17, <1>18, <1>19, <1>20
  DEF Next, AgentNext, ShimNext, Stopped

\* An event greater than all before leaves the log ordered.
LEMMA OrderedGrows ==
    ASSUME TypeOK, Ordered, NEW e \in 0..(MaxEvents + 1), Grows(e),
           e \in VMEvents =>
               \A i \in 1..Len(hostLog) : hostLog[i] \in VMEvents => hostLog[i] < e
    PROVE  Ordered'
<1> SUFFICES ASSUME NEW i \in 1..Len(hostLog'), NEW j \in 1..Len(hostLog'), j < i,
                    hostLog'[i] \in VMEvents, hostLog'[j] \in VMEvents
             PROVE  hostLog'[j] < hostLog'[i]
  BY DEF Ordered, VMEvents
<1>1. j \in 1..Len(hostLog) /\ hostLog'[j] = hostLog[j]
  BY DEF Grows, TypeOK
<1>2. CASE i \in 1..Len(hostLog)
  BY <1>1, <1>2 DEF Grows, Ordered
<1>3. CASE i = Len(hostLog) + 1
  BY <1>1, <1>3 DEF Grows
<1> QED
  BY <1>2, <1>3 DEF Grows, TypeOK

\* An event whose predecessor is there leaves no gap.
LEMMA NoGapGrows ==
    ASSUME TypeOK, NoGap, NEW e \in 0..(MaxEvents + 1), Grows(e),
           e \in VMEvents /\ e > 1 => \E i \in 1..Len(hostLog) : hostLog[i] = e - 1
    PROVE  NoGap'
<1> SUFFICES ASSUME NEW i \in 1..Len(hostLog'), hostLog'[i] \in VMEvents, hostLog'[i] > 1
             PROVE  \E j \in 1..Len(hostLog') : j < i /\ hostLog'[j] = hostLog'[i] - 1
  BY DEF NoGap, VMEvents
<1>1. CASE i \in 1..Len(hostLog)
  <2>1. PICK j \in 1..Len(hostLog) : j < i /\ hostLog[j] = hostLog[i] - 1
    BY <1>1 DEF Grows, NoGap
  <2>2. j \in 1..Len(hostLog') /\ hostLog'[j] = hostLog[j] /\ hostLog'[i] = hostLog[i]
    BY <1>1 DEF Grows, TypeOK
  <2> QED
    BY <2>1, <2>2
<1>2. CASE i = Len(hostLog) + 1
  <2>1. PICK j \in 1..Len(hostLog) : hostLog[j] = e - 1
    BY <1>2 DEF Grows
  <2>2. j \in 1..Len(hostLog') /\ hostLog'[j] = hostLog[j] /\ j < i /\ hostLog'[i] = e
    BY <1>2 DEF Grows, TypeOK
  <2> QED
    BY <2>1, <2>2
<1> QED
  BY <1>1, <1>2 DEF Grows, TypeOK

\* What the log has stays in it.
LEMMA KeptInLog ==
    ASSUME TypeOK, NEW e \in 0..(MaxEvents + 1), Grows(e),
           NEW n, \E i \in 1..Len(hostLog) : hostLog[i] = n
    PROVE  \E i \in 1..Len(hostLog') : hostLog'[i] = n
<1>1. PICK i \in 1..Len(hostLog) : hostLog[i] = n
  OBVIOUS
<1>2. i \in 1..Len(hostLog') /\ hostLog'[i] = n
  BY <1>1 DEF Grows, TypeOK
<1> QED
  BY <1>2

\* The start and the stop leave the log complete.
LEMMA HostEventLogged ==
    ASSUME TypeOK, LogInv, NEW e \in 0..(MaxEvents + 1), Grows(e), e \notin VMEvents,
           UNCHANGED <<call, attach, taken>>
    PROVE  LogInv'
<1>1. Ordered' /\ NoGap'
  BY OrderedGrows, NoGapGrows DEF LogInv
<1>2. Forwarded' = Forwarded
  BY DEF Forwarded, InFlight
<1>3. ASSUME NEW i \in 1..Len(hostLog'), hostLog'[i] \in VMEvents
      PROVE  hostLog'[i] <= Forwarded
  <2>1. i \in 1..Len(hostLog)
    BY <1>3 DEF Grows, TypeOK
  <2> QED
    BY <1>3, <2>1 DEF Grows, LogInv, Complete
<1>4. ASSUME attach' # "ended", NEW n \in 1..Forwarded
      PROVE  \E i \in 1..Len(hostLog') : hostLog'[i] = n
  <2>1. \E i \in 1..Len(hostLog) : hostLog[i] = n
    BY <1>4 DEF LogInv, Complete
  <2> QED
    BY <2>1, KeptInLog
<1>5. Complete'
  BY <1>2, <1>3, <1>4 DEF Complete, VMEvents
<1> QED
  BY <1>1, <1>5 DEF LogInv

\* So does the event in flight.
LEMMA VMEventLogged ==
    ASSUME TypeOK, LogInv, CallInv, attach = "forward", Grows(hand), attach' = "loop",
           UNCHANGED <<call, taken>>
    PROVE  LogInv'
<1>1. hand = taken /\ taken \in Nat /\ taken > 0 /\ call = "none" /\ taken <= MaxEvents
  BY MaxEventsAssumption DEF CallInv, TypeOK
<1>2. Forwarded = taken - 1 /\ Forwarded' = taken
  BY <1>1 DEF Forwarded, InFlight
<1>3. \A i \in 1..Len(hostLog) : hostLog[i] \in VMEvents => hostLog[i] < hand
  BY <1>1, <1>2, MaxEventsAssumption DEF LogInv, Complete, VMEvents, TypeOK
<1>4. hand > 1 => \E i \in 1..Len(hostLog) : hostLog[i] = hand - 1
  BY <1>1, <1>2 DEF LogInv, Complete
<1>5. hand \in 0..(MaxEvents + 1)
  BY <1>1, MaxEventsAssumption
<1>6. Ordered'
  BY <1>3, <1>5, OrderedGrows DEF LogInv
<1>7. NoGap'
  BY <1>4, <1>5, NoGapGrows DEF LogInv
<1>8. ASSUME NEW i \in 1..Len(hostLog'), hostLog'[i] \in VMEvents
      PROVE  hostLog'[i] <= taken
  <2>1. CASE i \in 1..Len(hostLog)
    BY <1>1, <1>3, <1>8, <2>1 DEF Grows, VMEvents
  <2>2. CASE i = Len(hostLog) + 1
    BY <1>1, <2>2 DEF Grows
  <2> QED
    BY <2>1, <2>2 DEF Grows, TypeOK
<1>9. ASSUME NEW n \in 1..taken
      PROVE  \E i \in 1..Len(hostLog') : hostLog'[i] = n
  <2>1. CASE n = taken
    <3>1. Len(hostLog) + 1 \in 1..Len(hostLog')
      BY DEF Grows, TypeOK
    <3> QED
      BY <1>1, <2>1, <3>1 DEF Grows
  <2>2. CASE n # taken
    <3>1. \E i \in 1..Len(hostLog) : hostLog[i] = n
      BY <1>1, <1>2, <2>2 DEF LogInv, Complete
    <3> QED
      BY <1>5, <3>1, KeptInLog
  <2> QED
    BY <2>1, <2>2
<1>10. Complete'
  BY <1>2, <1>8, <1>9 DEF Complete, VMEvents
<1> QED
  BY <1>6, <1>7, <1>10 DEF LogInv

\* A step that leaves the log alone and does not take back what is forwarded.
LEMMA LogKept ==
    ASSUME TypeOK, LogInv, hostLog' = hostLog, Forwarded' = Forwarded,
           attach = "ended" => attach' = "ended"
    PROVE  LogInv'
  BY DEF LogInv, Ordered, NoGap, Complete, VMEvents

\* The log grows by the event in flight only.
LEMMA LogStep ==
    ASSUME TypeOK, CallInv, LogInv, [Next]_vars
    PROVE  LogInv'
<1> USE MaxEventsAssumption DEF CallInv, VMEvents, VMStart, VMStop,
        vars, vmVars, callVars, shimVars, attachVars, outVars
<1>1. CASE PublishVMStart
  <2>1. hostLog' = hostLog \/ Grows(VMStart)
    BY <1>1, LogAppended DEF PublishVMStart
  <2>2. UNCHANGED <<call, attach, taken>>
    BY <1>1 DEF PublishVMStart
  <2> QED
    BY <2>1, <2>2, NoVMEvent, HostEventLogged, LogKept DEF Forwarded, InFlight
<1>2. CASE PublishVMStop
  <2>1. hostLog' = hostLog \/ Grows(VMStop)
    BY <1>2, LogAppended DEF PublishVMStop
  <2>2. UNCHANGED <<call, attach, taken>>
    BY <1>2 DEF PublishVMStop
  <2> QED
    BY <2>1, <2>2, NoVMEvent, HostEventLogged, LogKept DEF Forwarded, InFlight
<1>3. CASE ForwardEvent
  <2>1. attach = "forward" /\ UNCHANGED <<call, taken>>
    BY <1>3 DEF ForwardEvent
  <2>2. CASE attach' = "loop" /\ hostLog' = Append(hostLog, hand)
    <3>1. Grows(hand)
      BY <2>2, LogAppended DEF TypeOK
    <3> QED
      BY <2>1, <2>2, <3>1, VMEventLogged
  <2>3. CASE attach' = "ended" /\ hostLog' = hostLog
    <3>1. Complete'
      BY <2>1, <2>3 DEF LogInv, Complete, Forwarded, InFlight, TypeOK
    <3> QED
      BY <2>3, <3>1 DEF LogInv, Ordered, NoGap
  <2> QED
    BY <1>3, <2>2, <2>3 DEF ForwardEvent, EndAttach
<1>4. CASE PopEvent
  <2>1. call = "waiting" /\ call' = "event" /\ taken' = taken + 1 /\ attach = "get"
        /\ UNCHANGED <<attach, hostLog>>
    BY <1>4 DEF PopEvent
  <2>2. Forwarded' = Forwarded
    BY <2>1 DEF Forwarded, InFlight, TypeOK
  <2> QED
    BY <2>1, <2>2, LogKept
<1>5. CASE GetEventErrs
  <2>1. attach' = "ended" /\ call' = "none" /\ UNCHANGED <<hostLog, taken>>
    BY <1>5 DEF GetEventErrs, EndAttach
  <2>2. Complete'
    BY <2>1 DEF LogInv, Complete, Forwarded, InFlight, TypeOK
  <2> QED
    BY <2>1, <2>2 DEF LogInv, Ordered, NoGap
<1>6. CASE GetEventReturns
  <2>1. call = "event" /\ attach' = "forward" /\ attach = "get" /\ UNCHANGED <<hostLog, taken>>
    BY <1>6 DEF GetEventReturns
  <2>2. Forwarded' = Forwarded
    BY <2>1 DEF Forwarded, InFlight
  <2> QED
    BY <2>1, <2>2, LogKept
<1>7. CASE PublishInVM \/ CancelAgent \/ EndSubscription \/ VMExits \/ UNCHANGED vars
           \/ FailCreateVM \/ CloseVMReady \/ ShimExits \/ RepublishEvent
           \/ RepublishErrs \/ ClosePublisher
  <2>1. UNCHANGED <<call, attach, hostLog, taken>>
    BY <1>7
    DEF PublishInVM, CancelAgent, EndSubscription, VMExits, FailCreateVM, CloseVMReady,
        ShimExits, RepublishEvent, RepublishErrs, ClosePublisher
  <2> QED
    BY <2>1, LogKept DEF Forwarded, InFlight
<1>8. CASE GetEventFails \/ StartAttach \/ CallGetEvent
  <2>1. /\ UNCHANGED <<hostLog, taken>>
        /\ attach # "forward" /\ attach' # "forward" /\ attach # "ended"
        /\ call # "event" /\ call' # "event"
    BY <1>8 DEF GetEventFails, StartAttach, CallGetEvent
  <2> QED
    BY <2>1, LogKept DEF Forwarded, InFlight
<1> QED
  BY <1>1, <1>2, <1>3, <1>4, <1>5, <1>6, <1>7, <1>8 DEF Next, AgentNext, ShimNext, Stopped

\* What Republish reads next is the event after the last one sent.
LEMMA NextEvent ==
    ASSUME TypeOK, LogInv, SentInv, republish = "select", read < Len(hostLog),
           hostLog[read + 1] \in VMEvents
    PROVE  hostLog[read + 1] = Len(sent) + 1 /\ hostLog[read + 1] <= produced
<1> DEFINE event == hostLog[read + 1]
<1>1. read + 1 \in 1..Len(hostLog)
  BY DEF TypeOK
<1>2. event \in Nat /\ event >= 1 /\ event <= taken /\ taken <= produced
  <2>1. event <= Forwarded
    BY <1>1 DEF LogInv, Complete
  <2>2. Forwarded = taken - 1 \/ Forwarded = taken
    BY DEF Forwarded
  <2> QED
    BY <2>1, <2>2, MaxEventsAssumption DEF TypeOK, VMEvents
<1>3. event > Len(sent)
  BY <1>1, <1>2 DEF SentInv, TypeOK
<1>4. event - 1 <= Len(sent)
  <2>1. CASE event = 1
    BY <2>1 DEF TypeOK
  <2>2. CASE event > 1
    <3>1. PICK j \in 1..Len(hostLog) : j < read + 1 /\ hostLog[j] = event - 1
      BY <1>1, <2>2 DEF LogInv, NoGap
    <3>2. hostLog[j] \in VMEvents /\ j <= read
      BY <3>1, <2>2, <1>2, MaxEventsAssumption DEF VMEvents, TypeOK
    <3> QED
      BY <3>1, <3>2 DEF SentInv
  <2> QED
    BY <1>2, <2>1, <2>2
<1> QED
  BY <1>2, <1>3, <1>4 DEF TypeOK

\* An event that comes after the last one sent does not disturb what was read.
LEMMA SentGrows ==
    ASSUME TypeOK, SentInv, NEW e \in 0..(MaxEvents + 1), Grows(e),
           republish = "select" /\ e \in VMEvents => e > Len(sent),
           UNCHANGED outVars
    PROVE  SentInv'
<1> SUFFICES ASSUME republish = "select"
             PROVE  /\ \A i \in 1..Len(hostLog') : hostLog'[i] \in VMEvents =>
                           (hostLog'[i] <= Len(sent) <=> i <= read)
                    /\ sent # << >> =>
                           \E i \in 1..read : hostLog'[i] \in VMEvents /\ hostLog'[i] = Len(sent)
  BY DEF SentInv, VMEvents, outVars
<1>1. ASSUME NEW i \in 1..Len(hostLog'), hostLog'[i] \in VMEvents
      PROVE  hostLog'[i] <= Len(sent) <=> i <= read
  <2>1. CASE i \in 1..Len(hostLog)
    BY <1>1, <2>1 DEF Grows, SentInv
  <2>2. CASE i = Len(hostLog) + 1
    BY <1>1, <2>2 DEF Grows, TypeOK
  <2> QED
    BY <2>1, <2>2 DEF Grows, TypeOK
<1>2. ASSUME sent # << >>
      PROVE  \E i \in 1..read : hostLog'[i] \in VMEvents /\ hostLog'[i] = Len(sent)
  <2>1. PICK i \in 1..read : hostLog[i] \in VMEvents /\ hostLog[i] = Len(sent)
    BY <1>2 DEF SentInv
  <2>2. hostLog'[i] = hostLog[i]
    BY DEF Grows, TypeOK
  <2> QED
    BY <2>1, <2>2
<1> QED
  BY <1>1, <1>2

\* What Republish reads is what it sends.
LEMMA SentStep ==
    ASSUME TypeOK, CallInv, LogInv, SentInv, [Next]_vars
    PROVE  SentInv'
<1> USE MaxEventsAssumption DEF VMEvents,
        vars, vmVars, callVars, shimVars, attachVars, outVars
<1>1. CASE UNCHANGED <<hostLog, outVars>>
  BY <1>1 DEF SentInv
<1>2. CASE RepublishErrs \/ ClosePublisher
  BY <1>2 DEF RepublishErrs, ClosePublisher, SentInv
<1>3. CASE PublishVMStart \/ PublishVMStop
  <2>1. UNCHANGED outVars /\ (hostLog' = hostLog \/ Grows(VMStart) \/ Grows(VMStop))
    BY <1>3, LogAppended DEF PublishVMStart, PublishVMStop, VMStart, VMStop
  <2>2. VMStart \in 0..(MaxEvents + 1) /\ VMStop \in 0..(MaxEvents + 1)
    BY DEF VMStart, VMStop
  <2> QED
    BY <1>1, <2>1, <2>2, NoVMEvent, SentGrows
<1>4. CASE ForwardEvent
  <2>1. attach = "forward" /\ UNCHANGED outVars
        /\ (hostLog' = hostLog \/ hostLog' = Append(hostLog, hand))
    BY <1>4 DEF ForwardEvent
  <2>2. hand \in 0..(MaxEvents + 1) /\ hand = taken /\ Forwarded = taken - 1
    BY <2>1 DEF CallInv, TypeOK, Forwarded, InFlight
  <2>3. CASE hostLog' = Append(hostLog, hand)
    <3>1. Grows(hand)
      BY <2>2, <2>3, LogAppended
    <3>2. republish = "select" => hand > Len(sent)
      <4>1. CASE sent = << >>
        BY <2>1, <2>2, <4>1 DEF CallInv
      <4>2. CASE sent # << >> /\ republish = "select"
        <5>1. PICK i \in 1..read : hostLog[i] \in VMEvents /\ hostLog[i] = Len(sent)
          BY <4>2 DEF SentInv
        <5>2. hostLog[i] <= taken - 1
          BY <5>1, <2>2 DEF LogInv, Complete, TypeOK
        <5> QED
          BY <2>2, <5>1, <5>2 DEF TypeOK
      <4> QED
        BY <4>1, <4>2
    <3> QED
      BY <2>1, <2>2, <3>1, <3>2, SentGrows
  <2> QED
    BY <1>1, <2>1, <2>3
<1>5. CASE RepublishEvent
  <2>1. republish = "select" /\ read < Len(hostLog) /\ read' = read + 1
        /\ UNCHANGED <<hostLog, republish>>
    BY <1>5, RepublishFacts
  <2>2. CASE hostLog[read + 1] \in VMEvents
    <3>1. Len(sent') = Len(sent) + 1
      BY <1>5, <2>2, RepublishFacts
    <3>2. hostLog[read + 1] = Len(sent')
      BY <2>1, <2>2, <3>1, NextEvent
    <3>3. ASSUME NEW i \in 1..Len(hostLog), hostLog[i] \in VMEvents
          PROVE  hostLog[i] <= Len(sent') <=> i <= read'
      <4>1. CASE i <= read
        BY <2>1, <3>1, <3>3, <4>1 DEF SentInv, TypeOK
      <4>2. CASE i = read + 1
        BY <2>1, <3>2, <4>2 DEF TypeOK
      <4>3. CASE i > read + 1
        <5>1. hostLog[read + 1] < hostLog[i]
          BY <2>1, <2>2, <3>3, <4>3 DEF LogInv, Ordered, TypeOK
        <5> QED
          BY <2>1, <3>2, <3>3, <4>3, <5>1 DEF TypeOK
      <4> QED
        BY <4>1, <4>2, <4>3 DEF TypeOK
    <3>4. read + 1 \in 1..read'
      BY <2>1 DEF TypeOK
    <3> QED
      BY <2>1, <2>2, <3>2, <3>3, <3>4 DEF SentInv
  <2>3. CASE hostLog[read + 1] \notin VMEvents
    <3>1. sent' = sent
      BY <1>5, <2>3, RepublishFacts
    <3>2. ASSUME NEW i \in 1..Len(hostLog), hostLog[i] \in VMEvents
          PROVE  hostLog[i] <= Len(sent) <=> i <= read + 1
      BY <2>1, <2>3, <3>2 DEF SentInv, TypeOK
    <3>3. 1..read \subseteq 1..(read + 1)
      BY DEF TypeOK
    <3> QED
      BY <2>1, <3>1, <3>2, <3>3 DEF SentInv
  <2> QED
    BY <2>2, <2>3
<1>6. CASE PublishInVM \/ CancelAgent \/ EndSubscription \/ VMExits \/ PopEvent
           \/ GetEventFails \/ FailCreateVM \/ CloseVMReady \/ ShimExits \/ StartAttach
           \/ CallGetEvent \/ GetEventReturns \/ GetEventErrs \/ UNCHANGED vars
  <2>1. UNCHANGED <<hostLog, outVars>>
    BY <1>6
    DEF PublishInVM, CancelAgent, EndSubscription, VMExits, PopEvent, GetEventFails,
        FailCreateVM, CloseVMReady, ShimExits, StartAttach, CallGetEvent,
        GetEventReturns, GetEventErrs
  <2> QED
    BY <1>1, <2>1
<1> QED
  BY <1>2, <1>3, <1>4, <1>5, <1>6 DEF Next, AgentNext, ShimNext, Stopped

\* A log that grows keeps its first event.
LEMMA StartGrows ==
    ASSUME TypeOK, StartInv, NEW e, Grows(e), UNCHANGED <<create, outVars, vmReady>>,
           create \in {"announced", "silent"}, attach' # "none" => vmReady
    PROVE  StartInv'
<1>1. create = "announced" => Len(hostLog') > 0 /\ hostLog'[1] = VMStart
  BY DEF Grows, StartInv, TypeOK
<1> QED
  BY <1>1 DEF StartInv, StartFirst, outVars, VMStart

\* Nothing overtakes the start.
LEMMA StartStep ==
    ASSUME TypeOK, CallInv, StartInv, [Next]_vars
    PROVE  StartInv'
<1> USE MaxEventsAssumption DEF vars, vmVars, callVars, shimVars, attachVars
<1>1. CASE PublishVMStart
  <2>1. hostLog = << >> /\ cleanup = "no" /\ read = 0 /\ sent = << >> /\ ~vmReady
        /\ attach = "none" /\ UNCHANGED <<vmReady, cleanup, attach, outVars>>
    BY <1>1 DEF PublishVMStart, StartInv, TypeOK
  <2>2. \/ create' = "silent"
        \/ create' = "announced" /\ hostLog' = Append(hostLog, VMStart)
    BY <1>1 DEF PublishVMStart
  <2>3. hostLog' = Append(hostLog, VMStart) => Len(hostLog') > 0 /\ hostLog'[1] = VMStart
    BY <2>1 DEF VMStart
  <2> QED
    BY <2>1, <2>2, <2>3 DEF StartInv, StartFirst, outVars, VMStart
<1>2. CASE PublishVMStop
  <2>1. /\ UNCHANGED <<create, outVars, vmReady, attach>>
        /\ create \in {"announced", "silent"}
        /\ hostLog' = hostLog \/ Grows(VMStop)
    BY <1>2, LogAppended DEF PublishVMStop, VMStop
  <2>2. CASE hostLog' = hostLog
    BY <2>1, <2>2 DEF StartInv, StartFirst, outVars, VMStart
  <2> QED
    BY <2>1, <2>2, StartGrows DEF StartInv
<1>3. CASE ForwardEvent
  <2>1. /\ UNCHANGED <<create, outVars, vmReady, cleanup>> /\ attach = "forward"
        /\ hostLog' = hostLog \/ Grows(hand)
    BY <1>3, LogAppended DEF ForwardEvent, TypeOK
  <2>2. vmReady /\ create \in {"announced", "silent"}
    BY <2>1 DEF StartInv
  <2>3. CASE hostLog' = hostLog
    BY <2>1, <2>2, <2>3 DEF StartInv, StartFirst, outVars, VMStart
  <2> QED
    BY <2>1, <2>2, <2>3, StartGrows
<1>4. CASE RepublishEvent
  <2>1. /\ UNCHANGED <<create, vmReady, cleanup, attach, hostLog, republish>>
        /\ republish = "select" /\ read < Len(hostLog) /\ read' = read + 1
        /\ seen \subseteq seen'
    BY <1>4, RepublishFacts
  <2>2. create = "announced" => VMStart \in seen'
    <3>1. CASE read = 0
      <4>1. create = "announced" => hostLog[read + 1] = VMStart
        BY <2>1, <3>1 DEF StartInv
      <4> QED
        BY <1>4, <4>1, NoVMEvent, RepublishFacts
    <3>2. CASE read > 0
      BY <2>1, <3>2 DEF StartInv
    <3> QED
      BY <3>1, <3>2 DEF TypeOK
  <2>3. create \in {"announced", "silent"}
    <3>1. hostLog # << >>
      BY <2>1 DEF TypeOK
    <3> QED
      BY <3>1 DEF StartInv, TypeOK
  <2>4. read' # 0
    BY <2>1 DEF TypeOK
  <2> QED
    BY <2>1, <2>2, <2>3, <2>4 DEF StartInv, StartFirst, VMStart
<1>5. CASE RepublishErrs \/ ClosePublisher
  <2>1. /\ UNCHANGED <<create, vmReady, cleanup, attach, hostLog, sent, seen>>
        /\ republish' # "select" /\ read' \in Nat /\ (read' = 0 => read = 0)
    BY <1>5 DEF RepublishErrs, ClosePublisher, TypeOK
  <2> QED
    BY <2>1 DEF StartInv, StartFirst, VMStart
<1>6. CASE CloseVMReady \/ StartAttach
  <2>1. /\ UNCHANGED <<create, cleanup, hostLog, outVars>> /\ vmReady'
        /\ create \in {"announced", "silent"}
    BY <1>6 DEF CloseVMReady, StartAttach, StartInv
  <2> QED
    BY <2>1 DEF StartInv, StartFirst, outVars, VMStart
<1>7. CASE FailCreateVM
  BY <1>7 DEF FailCreateVM, StartInv, StartFirst, outVars, VMStart
<1>8. CASE PublishInVM \/ CancelAgent \/ EndSubscription \/ VMExits \/ PopEvent
           \/ GetEventFails \/ ShimExits \/ CallGetEvent \/ GetEventReturns \/ GetEventErrs
           \/ UNCHANGED vars
  <2>1. /\ UNCHANGED <<create, vmReady, cleanup, hostLog, outVars>>
        /\ attach' # "none" => attach # "none"
    BY <1>8
    DEF PublishInVM, CancelAgent, EndSubscription, VMExits, PopEvent, GetEventFails,
        ShimExits, CallGetEvent, GetEventReturns, GetEventErrs, EndAttach
  <2> QED
    BY <2>1 DEF StartInv, StartFirst, outVars, VMStart
<1> QED
  BY <1>1, <1>2, <1>3, <1>4, <1>5, <1>6, <1>7, <1>8 DEF Next, AgentNext, ShimNext, Stopped

-----------------------------------------------------------------------------
(* The theorems.                                                           *)

\* The invariant is one.
LEMMA Invariance == Spec => []IInv
<1>1. Init => IInv
  <2> SUFFICES ASSUME Init PROVE IInv
    OBVIOUS
  <2> USE MaxEventsAssumption DEF Init
  <2>1. TypeOK
    <3>1. hostLog \in Seq(0..(MaxEvents + 1)) /\ Len(hostLog) = 0
      OBVIOUS
    <3>2. sent \in Seq(VMEvents)
      OBVIOUS
    <3>3. sub \in BOOLEAN /\ vmReady \in BOOLEAN /\ alive \in BOOLEAN
      OBVIOUS
    <3>4. produced \in 0..MaxEvents /\ taken \in 0..produced
      OBVIOUS
    <3>5. answer \in 0..MaxEvents /\ hand \in 0..MaxEvents /\ read \in 0..Len(hostLog)
      BY <3>1 DEF VMStart
    <3> QED
      BY <3>1, <3>2, <3>3, <3>4, <3>5 DEF TypeOK
  <2>2. CallInv /\ SentInv
    BY DEF CallInv, SentInv
  <2>3. LogInv
    BY DEF LogInv, Ordered, NoGap, Complete, Forwarded, InFlight
  <2>4. StartInv
    BY DEF StartInv, StartFirst
  <2> QED
    BY <2>1, <2>2, <2>3, <2>4 DEF IInv
<1>2. IInv /\ [Next]_vars => IInv'
  BY TypeStep, CallStep, LogStep, SentStep, StartStep DEF IInv
<1> QED
  BY <1>1, <1>2, PTL DEF Spec

\* The variables keep their types: an answer that is no error is an event.
THEOREM TypeCorrect == Spec => []TypeOK
<1>1. IInv => TypeOK
  BY DEF IInv
<1> QED
  BY <1>1, Invariance, PTL

\* Nothing that happens in a VM reaches containerd before its start.
THEOREM StartComesFirst == Spec => []StartFirst
<1>1. IInv => StartFirst
  BY DEF IInv, StartInv
<1> QED
  BY <1>1, Invariance, PTL

\* A step of the bridge is one of the pipe, or none.
LEMMA StepSimulation ==
    ASSUME IInv, [Next]_vars
    PROVE  [Pipe!Next]_<<produced, sent, republish = "select">>
<1> USE MaxEventsAssumption
    DEF IInv, Pipe!Next, Pipe!Accept, Pipe!Deliver, Pipe!Break, vars, vmVars, outVars
<1>1. CASE PublishInVM
  BY <1>1 DEF PublishInVM
<1>2. CASE RepublishEvent
  <2> DEFINE event == hostLog[read + 1]
  <2>1. /\ republish = "select" /\ UNCHANGED <<republish, produced>>
        /\ read \in Nat /\ read + 1 \in 1..Len(hostLog)
    BY <1>2 DEF RepublishEvent, TypeOK
  <2>2. CASE event \in VMEvents
    <3>1. sent' = Append(sent, event)
      BY <1>2, <2>2 DEF RepublishEvent
    <3>2. event = Len(sent) + 1 /\ event <= produced
      BY <1>2, <2>2, NextEvent DEF RepublishEvent
    <3> QED
      BY <2>1, <3>1, <3>2 DEF TypeOK
  <2>3. CASE event \notin VMEvents
    BY <1>2, <2>1, <2>3 DEF RepublishEvent
  <2> QED
    BY <2>2, <2>3
<1>3. CASE RepublishErrs
  BY <1>3 DEF RepublishErrs
<1>4. CASE ClosePublisher
  BY <1>4 DEF ClosePublisher
<1>5. CASE /\ AgentNext \/ ShimNext
           /\ ~(PublishInVM \/ RepublishEvent \/ RepublishErrs \/ ClosePublisher)
  BY <1>5
  DEF AgentNext, ShimNext, CancelAgent, EndSubscription, VMExits, PopEvent, GetEventFails,
      PublishVMStart, FailCreateVM, CloseVMReady, PublishVMStop, ShimExits, StartAttach,
      CallGetEvent, GetEventReturns, GetEventErrs, ForwardEvent
<1>6. CASE UNCHANGED vars \/ Stopped
  BY <1>6 DEF Stopped
<1> QED
  BY <1>1, <1>2, <1>3, <1>4, <1>5, <1>6 DEF Next

\* The bridge implements the pipe: for every number of events, containerd gets
\* a prefix of what happened in the VM.
THEOREM BridgeIsAPipe == Spec => PipeSpec
<1>1. Init => Pipe!Init
  BY DEF Init, Pipe!Init
<1>2. IInv /\ [Next]_vars => [Pipe!Next]_<<produced, sent, republish = "select">>
  BY StepSimulation
<1> QED
  BY <1>1, <1>2, Invariance, PTL DEF Spec, PipeSpec, Pipe!Spec
=============================================================================
