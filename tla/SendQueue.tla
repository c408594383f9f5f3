------------------------------ MODULE SendQueue ------------------------------
(***************************************************************************)
(* What the transmit side of the runtime promises to its interfaces,       *)
(* without rings, ready bits or wakers: every interface owns a bounded     *)
(* FIFO of packets, and while the network is open the packets of an        *)
(* interface reach the bridge in the order they were accepted, none lost   *)
(* and none repeated.  An announcement of a packet may fail: the interface *)
(* is then stalled until some later announcement, its own or another's,    *)
(* reaches the network.  NetworkChannel implements this specification.     *)
(***************************************************************************)
EXTENDS Naturals, Sequences

CONSTANTS Interface,    \* the interfaces that send
          Packet,       \* the packets they may send
          Capacity      \* packets an interface may have in flight

VARIABLES queue,        \* queue[i]: accepted by interface i, not yet on the bridge
          stalled,      \* interfaces whose last announcement failed
          sent,         \* sent[i]: what the bridge has been given, in order
          open          \* FALSE once the network thread has left its loop

vars == <<queue, stalled, sent, open>>

Init == /\ queue = [i \in Interface |-> <<>>]
        /\ stalled = {}
        /\ sent = [i \in Interface |-> <<>>]
        /\ open = TRUE

(* The interface hands over a packet and is told it was accepted. *)
Accept(i) == /\ Len(queue[i]) < Capacity
             /\ \E p \in Packet : queue' = [queue EXCEPT ![i] = Append(@, p)]
             /\ UNCHANGED <<stalled, sent, open>>

(* The oldest packet of the interface reaches the bridge. *)
Transmit(i) == /\ open
               /\ queue[i] # <<>>
               /\ sent' = [sent EXCEPT ![i] = Append(@, Head(queue[i]))]
               /\ queue' = [queue EXCEPT ![i] = Tail(@)]
               /\ UNCHANGED <<stalled, open>>

(* The bridge reported end of file and the network stops. *)
Shutdown == /\ open
            /\ open' = FALSE
            /\ UNCHANGED <<queue, stalled, sent>>

(* The interface announces a packet and the announcement fails. *)
Stall(i) == /\ stalled' = stalled \cup {i}
            /\ UNCHANGED <<queue, sent, open>>

(* An announcement reaches the network, which looks at these interfaces. *)
Resume(S) == /\ stalled' = stalled \ S
             /\ UNCHANGED <<queue, sent, open>>

Next == \/ \E i \in Interface : Accept(i) \/ Transmit(i) \/ Stall(i)
        \/ \E S \in SUBSET stalled : Resume(S)
        \/ Shutdown

(* A packet of an interface that is not stalled, in the queue of an open     *)
(* network, does not wait for ever.                                          *)
Fairness == \A i \in Interface : WF_vars(i \notin stalled /\ Transmit(i))

SafeSpec == Init /\ [][Next]_vars
Spec == SafeSpec /\ Fairness
=============================================================================
