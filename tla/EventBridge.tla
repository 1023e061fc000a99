----------------------------- MODULE EventBridge -----------------------------
(***************************************************************************)
(* The way of an event from a VM to containerd (eventbridge.go, the event  *)
(* forwarders of runtime/service.go, agent/main.go): the getter service    *)
(* subscribes to the exchange of the agent and answers one GetEvent with   *)
(* one event; Attach calls it over vsock in a loop and forwards what it    *)
(* gets to the exchange of the shim; Republish publishes what comes there, *)
(* the start and the stop of the VM among it, to containerd.               *)
(*                                                                         *)
(* An exchange (containerd) has an unbounded queue per subscriber, which   *)
(* is a log and the position of its reader here.  ttrpc derives the        *)
(* context of a request from the one its server serves with.               *)
(***************************************************************************)
EXTENDS Naturals, Sequences

CONSTANT MaxEvents  \* bound: the number of events the VM publishes

ASSUME MaxEventsAssumption == MaxEvents \in Nat

VARIABLES
    agent,      \* main of the agent: "up", "cancelled" (its shimCtx is) or "gone"
    produced,   \* the events 1 to produced were published in the VM
    taken,      \* of these, the number GetEvent has popped
    sub,        \* the exchange still serves the subscription of the getter
    call,       \* the GetEvent call of Attach
    answer,     \* the event the answer to it carries
    create,     \* CreateVM of the shim
    vmReady,    \* vmReady is closed
    cleanup,    \* cleanup of the shim
    alive,      \* the shim runs
    attach,     \* the goroutine of Attach
    hand,       \* the envelope that goroutine has
    hostLog,    \* the events of the exchange of the shim
    republish,  \* the goroutine of Republish
    read,       \* the number of events of hostLog it has received
    forwarders, \* the goroutine of startEventForwarders
    sent,       \* the events of the VM that reached containerd, in this order
    seen        \* the events of the shim that reached containerd

vmVars == <<agent, produced, taken, sub>>
callVars == <<call, answer>>
shimVars == <<create, vmReady, cleanup, alive>>
attachVars == <<attach, hand>>
outVars == <<republish, read, sent, seen>>
vars == <<vmVars, callVars, shimVars, attachVars, hostLog, outVars, forwarders>>

VMEvents == 1..MaxEvents
VMStart == 0
VMStop == MaxEvents + 1

Init ==
    /\ agent = "up" /\ produced = 0 /\ taken = 0 /\ sub = TRUE
    /\ call = "none" /\ answer = VMStart
    /\ create = "creating" /\ vmReady = FALSE /\ cleanup = "no" /\ alive = TRUE
    /\ attach = "none" /\ hand = VMStart
    /\ hostLog = << >>
    /\ republish = "select" /\ read = 0 /\ sent = << >> /\ seen = {}
    /\ forwarders = "vmReady"

-----------------------------------------------------------------------------
(* The agent in the VM.                                                    *)

\* runc publishes an event on the exchange of the agent.
PublishInVM ==
    /\ agent # "gone" /\ produced < MaxEvents
    /\ produced' = produced + 1
    /\ UNCHANGED <<agent, taken, sub, callVars, shimVars, attachVars, hostLog, outVars, forwarders>>

\* Shutdown of the task service, or a signal: shimCancel.
CancelAgent ==
    /\ agent = "up"
    /\ agent' = "cancelled"
    /\ UNCHANGED <<produced, taken, sub, callVars, shimVars, attachVars, hostLog, outVars, forwarders>>

\* The exchange notices it: errChan gives nil from now on.
EndSubscription ==
    /\ agent = "cancelled" /\ sub
    /\ sub' = FALSE
    /\ UNCHANGED <<agent, produced, taken, callVars, shimVars, attachVars, hostLog, outVars, forwarders>>

\* main returns after the server was shut down, or the VM is killed: its
\* connections are gone, with what was on its way in them.
VMExits ==
    /\ agent # "gone"
    /\ agent' = "gone"
    /\ UNCHANGED <<produced, taken, sub, callVars, shimVars, attachVars, hostLog, outVars, forwarders>>

\* The select of GetEvent has an event.
PopEvent ==
    /\ agent # "gone" /\ call = "waiting"
    /\ sub /\ taken < produced
    /\ taken' = taken + 1
    /\ call' = "event" /\ answer' = taken + 1
    /\ UNCHANGED <<agent, produced, sub, shimVars, attachVars, hostLog, outVars, forwarders>>

\* Mutant of GetEventFails: the nil of errChan is returned with no event.
ConfusingGetEventFails ==
    /\ agent = "cancelled" /\ call = "waiting"
    /\ IF sub THEN call' = "error" /\ UNCHANGED answer ELSE call' = "event" /\ answer' = VMStart
    /\ UNCHANGED <<vmVars, shimVars, attachVars, hostLog, outVars, forwarders>>

\* errChan or ctx.Done() won: the answer is ctx.Err(), which is not nil as the
\* context of the request is cancelled with that of the agent.
GetEventFails ==
    /\ agent = "cancelled" /\ call = "waiting"
    /\ call' = "error"
    /\ UNCHANGED <<vmVars, answer, shimVars, attachVars, hostLog, outVars, forwarders>>

-----------------------------------------------------------------------------
(* CreateVM and cleanup of the shim.                                       *)

\* publishVMStart, whose error is only logged.
PublishVMStart ==
    /\ alive /\ create = "creating"
    /\ \/ create' = "announced" /\ hostLog' = Append(hostLog, VMStart)
       \/ create' = "silent" /\ UNCHANGED hostLog
    /\ UNCHANGED <<vmVars, callVars, vmReady, cleanup, alive, attachVars, outVars, forwarders>>

\* createVM fails: shimCancel, and vmReady stays open.
FailCreateVM ==
    /\ alive /\ create = "creating"
    /\ create' = "failed"
    /\ UNCHANGED <<vmVars, callVars, vmReady, cleanup, alive, attachVars, hostLog, outVars, forwarders>>

\* Mutant of CloseVMReady: the VM is ready before its start is published.
EagerCloseVMReady ==
    /\ alive /\ create # "failed" /\ ~vmReady
    /\ vmReady' = TRUE
    /\ UNCHANGED <<vmVars, callVars, create, cleanup, alive, attachVars, hostLog, outVars, forwarders>>

\* close(s.vmReady).
CloseVMReady ==
    /\ alive /\ create \in {"announced", "silent"} /\ ~vmReady
    /\ vmReady' = TRUE
    /\ UNCHANGED <<vmVars, callVars, create, cleanup, alive, attachVars, hostLog, outVars, forwarders>>

\* monitorVMExit, or shutdown, runs cleanup: publishVMStop, which may fail.
PublishVMStop ==
    /\ alive /\ create \in {"announced", "silent"} /\ agent = "gone" /\ cleanup = "no"
    /\ cleanup' = "published"
    /\ hostLog' = Append(hostLog, VMStop) \/ UNCHANGED hostLog
    /\ UNCHANGED <<vmVars, callVars, create, vmReady, alive, attachVars, outVars, forwarders>>

\* shimCancel ends cleanup: the shim of containerd waits a while for the
\* publisher to be closed and exits in any case.
ShimExits ==
    /\ alive /\ (cleanup = "published" \/ create = "failed")
    /\ alive' = FALSE
    /\ UNCHANGED <<vmVars, callVars, create, vmReady, cleanup, attachVars, hostLog, outVars, forwarders>>

-----------------------------------------------------------------------------
(* Attach.  Its context is never cancelled.                                *)

\* Mutant of StartAttach: the errors of Republish are waited for first.
LateStartAttach ==
    /\ alive /\ forwarders = "vmReady" /\ vmReady /\ republish = "failed"
    /\ forwarders' = "attach" /\ attach' = "loop"
    /\ UNCHANGED <<vmVars, callVars, shimVars, hand, hostLog, outVars>>

\* startEventForwarders, when the VM is ready.
StartAttach ==
    /\ alive /\ forwarders = "vmReady" /\ vmReady
    /\ forwarders' = "attach" /\ attach' = "loop"
    /\ UNCHANGED <<vmVars, callVars, shimVars, hand, hostLog, outVars>>

\* GetEvent of the client is called.
CallGetEvent ==
    /\ alive /\ attach = "loop"
    /\ attach' = "get" /\ call' = "waiting"
    /\ UNCHANGED <<vmVars, answer, shimVars, hand, hostLog, outVars, forwarders>>

\* An answer arrives.
GetEventReturns ==
    /\ alive /\ attach = "get" /\ agent # "gone" /\ call = "event"
    /\ attach' = "forward" /\ hand' = answer /\ call' = "none"
    /\ UNCHANGED <<vmVars, answer, shimVars, hostLog, outVars, forwarders>>

\* The loop ends with an error, which startEventForwarders waits for.
EndAttach == attach' = "ended" /\ forwarders' = "republish"

\* GetEvent returns an error: that of the agent, or of a lost connection.
GetEventErrs ==
    /\ alive /\ attach = "get" /\ (agent = "gone" \/ call = "error")
    /\ EndAttach
    /\ call' = "none"
    /\ UNCHANGED <<vmVars, answer, shimVars, hand, hostLog, outVars>>

\* Mutant of ForwardEvent: the error is logged and the loop goes on.
LenientForwardEvent ==
    /\ alive /\ attach = "forward"
    /\ attach' = "loop"
    /\ hostLog' = Append(hostLog, hand) \/ UNCHANGED hostLog
    /\ UNCHANGED <<vmVars, callVars, shimVars, hand, outVars, forwarders>>

\* Forward to the exchange of the shim, which may refuse the envelope.
ForwardEvent ==
    /\ alive /\ attach = "forward"
    /\ \/ attach' = "loop" /\ hostLog' = Append(hostLog, hand) /\ UNCHANGED forwarders
       \/ EndAttach /\ UNCHANGED hostLog
    /\ UNCHANGED <<vmVars, callVars, shimVars, hand, outVars>>

-----------------------------------------------------------------------------
(* Republish.  Its context is never cancelled.                             *)

\* An event is received, decoded and published to containerd.
RepublishEvent ==
    /\ alive /\ republish = "select" /\ read < Len(hostLog)
    /\ read' = read + 1
    /\ LET event == hostLog[read + 1]
       IN  IF event \in VMEvents
           THEN sent' = Append(sent, event) /\ UNCHANGED seen
           ELSE seen' = seen \cup {event} /\ UNCHANGED sent
    /\ UNCHANGED <<vmVars, callVars, shimVars, attachVars, hostLog, republish, forwarders>>

\* The event cannot be decoded or published: it is lost, and the goroutine
\* waits until startEventForwarders takes its error.
RepublishErrs ==
    /\ alive /\ republish = "select" /\ read < Len(hostLog)
    /\ read' = read + 1
    /\ republish' = "failed"
    /\ UNCHANGED <<vmVars, callVars, shimVars, attachVars, hostLog, sent, seen, forwarders>>

\* remotePublisher.Close(), after both have ended.
ClosePublisher ==
    /\ alive /\ forwarders = "republish" /\ republish = "failed"
    /\ forwarders' = "closed" /\ republish' = "ended"
    /\ UNCHANGED <<vmVars, callVars, shimVars, attachVars, hostLog, read, sent, seen>>

-----------------------------------------------------------------------------
\* Everything may end: the shim exits.
Stopped == ~alive /\ UNCHANGED vars

AgentNext ==
    \/ PublishInVM \/ CancelAgent \/ EndSubscription \/ VMExits
    \/ PopEvent \/ GetEventFails

ShimNext ==
    \/ PublishVMStart \/ FailCreateVM \/ CloseVMReady \/ PublishVMStop \/ ShimExits
    \/ StartAttach \/ CallGetEvent \/ GetEventReturns \/ GetEventErrs \/ ForwardEvent
    \/ RepublishEvent \/ RepublishErrs \/ ClosePublisher

Next == AgentNext \/ ShimNext \/ Stopped

\* The goroutines run, and calls are answered.  Nobody has to publish, to
\* cancel or to fail.
Fairness ==
    /\ WF_vars(PopEvent \/ GetEventFails)
    /\ WF_vars(StartAttach)
    /\ WF_vars(CallGetEvent \/ GetEventReturns \/ GetEventErrs \/ ForwardEvent)
    /\ WF_vars(RepublishEvent \/ RepublishErrs)

Spec == Init /\ [][Next]_vars /\ Fairness

-----------------------------------------------------------------------------
(* Properties.                                                             *)

\* The variables have their types, and an answer of GetEvent that is no error
\* carries an event: the confusing nil of the exchange never leaves GetEvent.
TypeOK ==
    /\ agent \in {"up", "cancelled", "gone"}
    /\ produced \in 0..MaxEvents /\ taken \in 0..produced
    /\ sub \in BOOLEAN /\ vmReady \in BOOLEAN /\ alive \in BOOLEAN
    /\ call \in {"none", "waiting", "event", "error"}
    /\ answer \in 0..MaxEvents /\ (call = "event" => answer \in VMEvents)
    /\ create \in {"creating", "announced", "silent", "failed"}
    /\ cleanup \in {"no", "published"}
    /\ attach \in {"none", "loop", "get", "forward", "ended"}
    /\ hand \in 0..MaxEvents
    /\ hostLog \in Seq(0..(MaxEvents + 1))
    /\ republish \in {"select", "failed", "ended"}
    /\ read \in 0..Len(hostLog)
    /\ forwarders \in {"vmReady", "attach", "republish", "closed"}
    /\ sent \in Seq(VMEvents)
    /\ seen \subseteq {VMStart, VMStop}

\* containerd hears of the start of a VM before anything that happens in it,
\* unless the start could not be published: the events wait in the agent until
\* vmReady is closed, and CreateVM publishes the start first.
StartFirst == sent # << >> => VMStart \in seen \/ create = "silent"

\* What the bridge is for: the events of the VM arrive in their order, each
\* once, with no gap, however answers, errors and the two exits interleave.
Pipe == INSTANCE EventPipe WITH
            accepted <- produced,
            delivered <- sent,
            open <- republish = "select"
PipeSpec == Pipe!Spec

\* What ends the bridge for good.
Broken ==
    \/ agent # "up" \/ ~alive
    \/ attach = "ended" \/ republish # "select"

\* An event published in a ready VM reaches containerd if nothing breaks: no
\* goroutine of the bridge waits for what never comes.
AllArrive == \A e \in VMEvents : vmReady /\ e <= produced ~> e <= Len(sent) \/ Broken
=============================================================================
