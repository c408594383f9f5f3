--------------------------- MODULE NetworkChannel ---------------------------
(***************************************************************************)
(* The transmit path from the interface threads to the network thread      *)
(* (src/lib/src/runtime/channel.rs, src/lib/src/runtime/network.rs,        *)
(* src/lib/src/ready_by_bits.rs).                                          *)
(*                                                                         *)
(* Every interface owns a bounded ring.  Its thread pushes a packet, sets  *)
(* its bit in one word of a shared array of atomic words, and wakes the    *)
(* network thread's mio poll: three separate atomic steps.  The wake is a  *)
(* system call that may fail: the caller logs the error, and the packet    *)
(* and the bit stay where they are with nobody told.                       *)
(*                                                                         *)
(* The network thread sleeps in poll; one poll returns every pending       *)
(* event, the bridge's and the waker's, in any order.  For the waker's     *)
(* event it swaps the words for zero ONE AT A TIME and then empties the    *)
(* rings whose bits it captured, from the lowest id to the highest.        *)
(*                                                                         *)
(* The bridge is external.  It matters here because its event shares the   *)
(* loop: while frames keep arriving the send side waits, and its end of    *)
(* file ends the loop after the batch of events at hand.                   *)
(***************************************************************************)
EXTENDS Naturals, Sequences

CONSTANTS
    Interface,      \* ids of the senders registered with the network
    WordBits,       \* bits of one atomic word (64)
    NumWords,       \* words of the ready array (4)
    Capacity,       \* SEND_QUEUE_SIZE (4096)
    MaxPackets,     \* bound: packets each interface tries to send
    MaxFrames       \* bound: frames the bridge receives

(* The word that holds the bit of interface i. *)
WordOf(i) == i \div WordBits

ASSUME InterfaceAssumption ==
    /\ Interface \subseteq Nat
    /\ \A i \in Interface : WordOf(i) \in 0 .. NumWords - 1
ASSUME SizeAssumption ==
    /\ WordBits \in Nat \ {0}
    /\ NumWords \in Nat \ {0}
    /\ Capacity \in Nat \ {0}
    /\ MaxPackets \in Nat
    /\ MaxFrames \in Nat

VARIABLES
    ring,       \* ring[i]: send_sender / senders[i], the packets pushed and not popped
    readyBit,   \* readyBit[i]: the bit of i in ready_bits
    waker,      \* the mio waker has fired since the last poll
    missed,     \* history: ids whose bit is set, whose wake failed, and since
                \* when nobody's wake has succeeded
    sender,     \* sender[i]: where thread i stands in try_send
    tried,      \* tried[i]: packets i has tried to send; names the next one
    sent,       \* sent[i]: packets of i handed to bridge.send, in order
    pc,         \* where the network thread stands
    events,     \* events of the current batch not yet handled
    word,       \* the next word to swap
    captured,   \* ids in the ReadyByBits iterator, the one being drained included
    closed,     \* the local variable of run
    frames,     \* frames waiting at the bridge
    arrived,    \* frames that have arrived at the bridge
    eof,        \* the bridge's peer has gone
    bridgeEdge  \* the bridge has become readable since the last poll

senderVars == <<ring, readyBit, sender, tried, sent>>
wakeVars == <<waker, missed>>
threadVars == <<pc, events, word, captured, closed>>
bridgeVars == <<frames, arrived, eof, bridgeEdge>>
vars == <<senderVars, wakeVars, threadVars, bridgeVars>>

Packet == 1 .. MaxPackets
Event == {"network", "bridge"}

Init ==
    /\ ring = [i \in Interface |-> <<>>]
    /\ readyBit = [i \in Interface |-> FALSE]
    /\ waker = FALSE
    /\ missed = {}
    /\ sender = [i \in Interface |-> "idle"]
    /\ tried = [i \in Interface |-> 0]
    /\ sent = [i \in Interface |-> <<>>]
    /\ pc = "poll"
    /\ events = {}
    /\ word = 0
    /\ captured = {}
    /\ closed = FALSE
    /\ frames = 0
    /\ arrived = 0
    /\ eof = FALSE
    /\ bridgeEdge = FALSE

-----------------------------------------------------------------------------
(* The interface threads: NetworkSender::try_send *)

(* try_push succeeds. *)
Push(i) ==
    /\ sender[i] = "idle"
    /\ tried[i] < MaxPackets
    /\ Len(ring[i]) < Capacity
    /\ ring' = [ring EXCEPT ![i] = Append(@, tried[i] + 1)]
    /\ tried' = [tried EXCEPT ![i] = @ + 1]
    /\ sender' = [sender EXCEPT ![i] = "mark"]
    /\ UNCHANGED <<readyBit, wakeVars, sent, threadVars, bridgeVars>>

(* The ring is full: SendError, and neither the bit nor the waker is touched. *)
PushFull(i) ==
    /\ sender[i] = "idle"
    /\ tried[i] < MaxPackets
    /\ Len(ring[i]) = Capacity
    /\ tried' = [tried EXCEPT ![i] = @ + 1]
    /\ UNCHANGED <<ring, readyBit, wakeVars, sender, sent, threadVars, bridgeVars>>

(* Mutant of MarkReady: the call to wake is forgotten. *)
MarkReadySilently(i) ==
    /\ sender[i] = "mark"
    /\ readyBit' = [readyBit EXCEPT ![i] = TRUE]
    /\ sender' = [sender EXCEPT ![i] = "idle"]
    /\ UNCHANGED <<ring, wakeVars, tried, sent, threadVars, bridgeVars>>

(* fetch_or of the interface's bit. *)
MarkReady(i) ==
    /\ sender[i] = "mark"
    /\ readyBit' = [readyBit EXCEPT ![i] = TRUE]
    /\ sender' = [sender EXCEPT ![i] = "wake"]
    /\ UNCHANGED <<ring, wakeVars, tried, sent, threadVars, bridgeVars>>

(* waker.wake(). *)
Wake(i) ==
    /\ sender[i] = "wake"
    /\ waker' = TRUE
    /\ missed' = {}
    /\ sender' = [sender EXCEPT ![i] = "idle"]
    /\ UNCHANGED <<ring, readyBit, tried, sent, threadVars, bridgeVars>>

(* wake fails: InterfaceContext::send logs the WakeError and reports the      *)
(* packet as sent.  Nothing is undone and nothing is retried.                *)
WakeFails(i) ==
    /\ sender[i] = "wake"
    /\ missed' = missed \cup {j \in {i} : readyBit[j]}
    /\ sender' = [sender EXCEPT ![i] = "idle"]
    /\ UNCHANGED <<ring, readyBit, waker, tried, sent, threadVars, bridgeVars>>

-----------------------------------------------------------------------------
(* The bridge (external) *)

BridgeReceives ==
    /\ arrived < MaxFrames
    /\ ~eof
    /\ frames' = frames + 1
    /\ arrived' = arrived + 1
    /\ bridgeEdge' = TRUE
    /\ UNCHANGED <<senderVars, wakeVars, threadVars, eof>>

BridgeCloses ==
    /\ ~eof
    /\ eof' = TRUE
    /\ bridgeEdge' = TRUE
    /\ UNCHANGED <<senderVars, wakeVars, threadVars, frames, arrived>>

-----------------------------------------------------------------------------
(* The network thread: Network::run *)

(* poll blocks until something is pending and takes all of it. *)
Poll ==
    /\ pc = "poll"
    /\ waker \/ bridgeEdge
    /\ events' = {e \in Event : \/ e = "network" /\ waker
                                \/ e = "bridge" /\ bridgeEdge}
    /\ waker' = FALSE
    /\ bridgeEdge' = FALSE
    /\ pc' = "dispatch"
    /\ UNCHANGED <<senderVars, missed, word, captured, closed, frames, arrived, eof>>

(* The next event of the batch; mio gives no order. *)
Dispatch ==
    /\ pc = "dispatch"
    /\ \E e \in events :
          /\ events' = events \ {e}
          /\ pc' = IF e = "network" THEN "swap" ELSE "bridge"
    /\ word' = 0
    /\ UNCHANGED <<senderVars, wakeVars, captured, closed, bridgeVars>>

(* The batch is done: `while !closed`. *)
EndBatch ==
    /\ pc = "dispatch"
    /\ events = {}
    /\ pc' = IF closed THEN "stopped" ELSE "poll"
    /\ UNCHANGED <<senderVars, wakeVars, events, word, captured, closed, bridgeVars>>

(* read_bridge takes one frame; what on_recv does with it is not modelled here. *)
ReadFrame ==
    /\ pc = "bridge"
    /\ frames > 0
    /\ frames' = frames - 1
    /\ UNCHANGED <<senderVars, wakeVars, threadVars, arrived, eof, bridgeEdge>>

(* read_bridge returns: FALSE on WouldBlock, TRUE on a read of length 0. *)
ReadBridgeReturns ==
    /\ pc = "bridge"
    /\ frames = 0
    /\ closed' = eof
    /\ pc' = "dispatch"
    /\ UNCHANGED <<senderVars, wakeVars, events, word, captured, bridgeVars>>

(* Mutant of SwapWord: every word is cleared where one is captured. *)
SwapClearsAllWords ==
    /\ pc = "swap"
    /\ captured' = captured \cup {i \in Interface : WordOf(i) = word /\ readyBit[i]}
    /\ readyBit' = [i \in Interface |-> FALSE]
    /\ missed' = {}
    /\ word' = word + 1
    /\ pc' = IF word + 1 = NumWords THEN "drain" ELSE "swap"
    /\ UNCHANGED <<ring, waker, sender, tried, sent, events, closed, bridgeVars>>

(* capture_and_reset_ready_atomic: the swap of one word. *)
SwapWord ==
    /\ pc = "swap"
    /\ LET hits == {i \in Interface : WordOf(i) = word /\ readyBit[i]}
       IN  /\ captured' = captured \cup hits
           /\ readyBit' = [i \in Interface |-> readyBit[i] /\ i \notin hits]
           /\ missed' = missed \ hits
    /\ word' = word + 1
    /\ pc' = IF word + 1 = NumWords THEN "drain" ELSE "swap"
    /\ UNCHANGED <<ring, waker, sender, tried, sent, events, closed, bridgeVars>>

(* The sender ReadyByBits yields next. *)
IsNextReady(i) == i \in captured /\ \A j \in captured : i <= j

(* try_pop returns a packet, which goes to the bridge. *)
SendPacket ==
    /\ pc = "drain"
    /\ \E i \in captured :
          /\ IsNextReady(i)
          /\ ring[i] # <<>>
          /\ sent' = [sent EXCEPT ![i] = Append(@, Head(ring[i]))]
          /\ ring' = [ring EXCEPT ![i] = Tail(@)]
    /\ UNCHANGED <<readyBit, wakeVars, sender, tried, threadVars, bridgeVars>>

(* Mutant of SenderEmpty: the first empty ring ends the iteration. *)
SenderEmptyAbandons ==
    /\ pc = "drain"
    /\ \E i \in captured : IsNextReady(i) /\ ring[i] = <<>>
    /\ captured' = {}
    /\ UNCHANGED <<senderVars, wakeVars, pc, events, word, closed, bridgeVars>>

(* try_pop returns None: the iterator moves on. *)
SenderEmpty ==
    /\ pc = "drain"
    /\ \E i \in captured :
          /\ IsNextReady(i)
          /\ ring[i] = <<>>
          /\ captured' = captured \ {i}
    /\ UNCHANGED <<senderVars, wakeVars, pc, events, word, closed, bridgeVars>>

(* The iterator is exhausted and read_send_receiver returns. *)
EndDrain ==
    /\ pc = "drain"
    /\ captured = {}
    /\ pc' = "dispatch"
    /\ UNCHANGED <<senderVars, wakeVars, events, word, captured, closed, bridgeVars>>

SenderStep(i) == MarkReady(i) \/ Wake(i) \/ WakeFails(i)

NetworkStep ==
    \/ Poll \/ Dispatch \/ EndBatch
    \/ ReadFrame \/ ReadBridgeReturns
    \/ SwapWord \/ SendPacket \/ SenderEmpty \/ EndDrain

Next ==
    \/ \E i \in Interface : Push(i) \/ PushFull(i) \/ SenderStep(i)
    \/ BridgeReceives \/ BridgeCloses
    \/ NetworkStep

(* Threads that can run are run; nothing obliges an interface to send, the   *)
(* bridge to receive or to close, nor a wake to succeed.                     *)
Fairness ==
    /\ \A i \in Interface : WF_vars(SenderStep(i))
    /\ WF_vars(NetworkStep)

SafeSpec == Init /\ [][Next]_vars
Spec == SafeSpec /\ Fairness

-----------------------------------------------------------------------------
(* Properties *)

(* The shapes of the state: no ring is beyond its capacity, and the bridge    *)
(* never holds more frames than have arrived.                                *)
SenderTypeOK ==
    /\ ring \in [Interface -> Seq(Packet)]
    /\ \A i \in Interface : Len(ring[i]) <= Capacity
    /\ readyBit \in [Interface -> BOOLEAN]
    /\ sender \in [Interface -> {"idle", "mark", "wake"}]
    /\ tried \in [Interface -> 0 .. MaxPackets]
    /\ sent \in [Interface -> Seq(Packet)]

ThreadTypeOK ==
    /\ pc \in {"poll", "dispatch", "bridge", "swap", "drain", "stopped"}
    /\ events \subseteq Event
    /\ word \in 0 .. NumWords
    /\ captured \subseteq Interface
    /\ closed \in BOOLEAN

BridgeTypeOK ==
    /\ frames \in 0 .. MaxFrames
    /\ arrived \in 0 .. MaxFrames
    /\ frames <= arrived
    /\ eof \in BOOLEAN
    /\ bridgeEdge \in BOOLEAN

WakeTypeOK ==
    /\ waker \in BOOLEAN
    /\ missed \subseteq Interface

TypeOK == SenderTypeOK /\ WakeTypeOK /\ ThreadTypeOK /\ BridgeTypeOK

(* When the network thread is about to sleep in poll with no wake-up         *)
(* pending, a packet can only be in a ring whose sender is still inside      *)
(* try_send, and so has yet to call wake, or is one whose own wake failed    *)
(* with no successful wake of any interface after it.  Push, mark and wake   *)
(* being separate steps, and the words being swapped one by one while bits   *)
(* are set, this is what "set the bit before the wake, swap the bits before  *)
(* the pops" buys, and that bit left set by a failed wake is what lets the   *)
(* next wake of anybody carry the packet along.                              *)
NoLostWakeup ==
    (pc = "poll" /\ ~waker) =>
        \A i \in Interface :
            ring[i] # <<>> => sender[i] \in {"mark", "wake"} \/ i \in missed

(* A packet in a ring is always somebody's responsibility: its sender has    *)
(* yet to set the bit, or the bit is set, or the iterator holds the id.      *)
RingIsCovered ==
    \A i \in Interface :
        ring[i] # <<>> => sender[i] = "mark" \/ readyBit[i] \/ i \in captured

(* A bit that is set is always going to be swapped, unless its wake failed:   *)
(* its sender has yet to wake the thread, or a wake is pending, or the event *)
(* is in the batch, or the swap under way has not reached the word.          *)
BitIsCovered ==
    \A i \in Interface :
        readyBit[i] => \/ sender[i] = "wake"
                       \/ waker
                       \/ "network" \in events
                       \/ pc = "swap" /\ word <= WordOf(i)
                       \/ i \in missed

(* Only a bit that is set still waits for a wake that failed. *)
MissedIsMarked == \A i \in missed : readyBit[i]

(* The iterator and the batch are empty outside the states that use them. *)
BatchShape ==
    /\ captured # {} => pc \in {"swap", "drain"}
    /\ pc \in {"poll", "stopped"} => events = {}
    /\ pc = "swap" => word < NumWords

(* The inductive invariant behind NoLostWakeup. *)
IInv == TypeOK /\ RingIsCovered /\ BitIsCovered /\ MissedIsMarked /\ BatchShape

(* The packets of an interface reach the bridge in the order the ring        *)
(* accepted them, none lost or repeated, and while the network runs each is  *)
(* sent eventually unless its wake failed and no wake succeeds later: the    *)
(* abstract queue, with its fairness.                                        *)
Service == INSTANCE SendQueue WITH queue <- ring, stalled <- missed,
                                   open <- pc # "stopped"
ImplementsService == Service!Spec
ImplementsServiceSafely == Service!SafeSpec
=============================================================================
