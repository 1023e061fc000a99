------------------------------ MODULE EventPipe ------------------------------
(***************************************************************************)
(* What the event bridge of a shim promises containerd about the events of *)
(* its VM: they arrive in the order they were published, each once, until  *)
(* the bridge breaks, and from then on none arrives: there is no gap.      *)
(***************************************************************************)
EXTENDS Naturals, Sequences

CONSTANT MaxEvents  \* bound: the number of events the VM publishes

VARIABLES
    accepted,   \* the events the VM has published: 1 to accepted
    delivered,  \* the events containerd has got, in this order
    open        \* the bridge is not broken

Init == accepted = 0 /\ delivered = << >> /\ open = TRUE

\* An event is published in the VM: nobody there knows of the bridge.
Accept ==
    /\ accepted < MaxEvents
    /\ accepted' = accepted + 1
    /\ UNCHANGED <<delivered, open>>

\* The first event that has not arrived arrives.
Deliver ==
    /\ open /\ Len(delivered) < accepted
    /\ delivered' = Append(delivered, Len(delivered) + 1)
    /\ UNCHANGED <<accepted, open>>

\* Any error breaks the bridge for good.
Break ==
    /\ open' = FALSE
    /\ UNCHANGED <<accepted, delivered>>

Next == Accept \/ Deliver \/ Break

Spec == Init /\ [][Next]_<<accepted, delivered, open>>
=============================================================================
