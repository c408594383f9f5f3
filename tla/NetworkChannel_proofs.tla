------------------------ MODULE NetworkChannel_proofs ------------------------
(***************************************************************************)
(* For any set of interfaces, any number of words, any ring capacity and   *)
(* any bounds: the invariant that no packet is left behind a sleeping      *)
(* network thread, and that the transmit path implements the abstract      *)
(* queue of SendQueue.                                                     *)
(***************************************************************************)
EXTENDS NetworkChannel, SequenceTheorems, TLAPS

(* Every behaviour starts in a state that satisfies the invariant.         *)
LEMMA InitEstablishesIInv == Init => IInv
<1> SUFFICES ASSUME Init PROVE IInv
    OBVIOUS
<1>1. SenderTypeOK
    <2>1. <<>> \in Seq(Packet) /\ Len(<<>>) = 0
        OBVIOUS
    <2> QED
        BY <2>1, SizeAssumption DEF Init, SenderTypeOK
<1>2. ThreadTypeOK
    <2>1. 0 \in 0 .. NumWords
        BY SizeAssumption
    <2> QED
        BY <2>1 DEF Init, ThreadTypeOK
<1>3. WakeTypeOK /\ BridgeTypeOK
    <2>1. 0 \in 0 .. MaxFrames
        BY SizeAssumption
    <2>2. frames \in 0 .. MaxFrames /\ arrived \in 0 .. MaxFrames /\ frames <= arrived
        BY <2>1 DEF Init
    <2>3. eof \in BOOLEAN /\ bridgeEdge \in BOOLEAN /\ WakeTypeOK
        BY DEF Init, WakeTypeOK
    <2> QED
        BY <2>2, <2>3 DEF BridgeTypeOK
<1>4. RingIsCovered /\ BitIsCovered /\ MissedIsMarked /\ BatchShape
    BY DEF Init, RingIsCovered, BitIsCovered, MissedIsMarked, BatchShape
<1> QED
    BY <1>1, <1>2, <1>3, <1>4 DEF IInv, TypeOK

(* The senders' part of the state keeps its type: the steps of a sender,   *)
(* the swap and the pop are the only ones that touch it.                   *)
LEMMA SenderTypePreserved == SenderTypeOK /\ ThreadTypeOK /\ [Next]_vars => SenderTypeOK'
<1> SUFFICES ASSUME SenderTypeOK, ThreadTypeOK, [Next]_vars PROVE SenderTypeOK'
    OBVIOUS
<1> USE SizeAssumption DEF SenderTypeOK
<1>1. ASSUME NEW i \in Interface, Push(i) PROVE SenderTypeOK'
    <2>1. tried[i] + 1 \in Packet /\ tried[i] + 1 \in 0 .. MaxPackets
        BY <1>1 DEF Push, Packet
    <2>2. ring' \in [Interface -> Seq(Packet)]
        BY <1>1, <2>1 DEF Push
    <2>3. \A j \in Interface : Len(ring'[j]) <= Capacity
        BY <1>1, <2>1 DEF Push
    <2>4. /\ tried' \in [Interface -> 0 .. MaxPackets]
          /\ sender' \in [Interface -> {"idle", "mark", "wake"}]
        BY <1>1, <2>1 DEF Push
    <2> QED
        BY <1>1, <2>2, <2>3, <2>4 DEF Push
<1>2. ASSUME NEW i \in Interface, PushFull(i) PROVE SenderTypeOK'
    BY <1>2 DEF PushFull
<1>3. ASSUME NEW i \in Interface, MarkReady(i) PROVE SenderTypeOK'
    BY <1>3 DEF MarkReady
<1>4. ASSUME NEW i \in Interface, Wake(i) \/ WakeFails(i) PROVE SenderTypeOK'
    BY <1>4 DEF Wake, WakeFails
<1>5. CASE SwapWord
    BY <1>5 DEF SwapWord
<1>6. CASE SendPacket
    <2> PICK i \in captured :
            /\ ring[i] # <<>>
            /\ sent' = [sent EXCEPT ![i] = Append(@, Head(ring[i]))]
            /\ ring' = [ring EXCEPT ![i] = Tail(@)]
        BY <1>6 DEF SendPacket
    <2>1. i \in Interface
        BY DEF ThreadTypeOK
    <2>2. /\ Head(ring[i]) \in Packet
          /\ Tail(ring[i]) \in Seq(Packet)
          /\ Len(Tail(ring[i])) = Len(ring[i]) - 1
        BY <2>1, HeadTailProperties
    <2>3. Len(ring[i]) \in Nat /\ Len(ring[i]) <= Capacity
        BY <2>1, LenProperties
    <2>4. sent' \in [Interface -> Seq(Packet)]
        BY <2>1, <2>2
    <2>5. ring' \in [Interface -> Seq(Packet)]
        BY <2>1, <2>2
    <2>6. \A j \in Interface : Len(ring'[j]) <= Capacity
        BY <2>1, <2>2, <2>3
    <2> QED
        BY <1>6, <2>4, <2>5, <2>6 DEF SendPacket
<1>7. CASE UNCHANGED senderVars
    BY <1>7 DEF senderVars
<1> QED
    BY <1>1, <1>2, <1>3, <1>4, <1>5, <1>6, <1>7
    DEF Next, SenderStep, NetworkStep, vars, BridgeReceives, BridgeCloses, Poll,
        Dispatch, EndBatch, ReadFrame, ReadBridgeReturns, SenderEmpty, EndDrain

(* The network thread's part of the state, and the shape of its batch,     *)
(* survive every step.                                                     *)
LEMMA ThreadTypePreserved ==
    IInv /\ [Next]_vars => ThreadTypeOK' /\ BatchShape'
<1> SUFFICES ASSUME IInv, [Next]_vars
             PROVE  ThreadTypeOK' /\ BatchShape'
    OBVIOUS
<1> USE SizeAssumption DEF IInv, TypeOK, ThreadTypeOK, BatchShape, Event
<1>1. CASE UNCHANGED threadVars
    BY <1>1 DEF threadVars
<1>2. CASE \E i \in Interface : Push(i) \/ PushFull(i) \/ SenderStep(i)
    BY <1>1, <1>2 DEF Push, PushFull, SenderStep, MarkReady, Wake, WakeFails
<1>3. CASE BridgeReceives \/ BridgeCloses \/ ReadFrame \/ SendPacket \/ UNCHANGED vars
    BY <1>1, <1>3 DEF BridgeReceives, BridgeCloses, ReadFrame, SendPacket, vars
<1>4. CASE Poll
    BY <1>4, Zenon DEF Poll, BridgeTypeOK
<1>5. CASE Dispatch
    BY <1>5 DEF Dispatch
<1>6. CASE EndBatch
    BY <1>6 DEF EndBatch
<1>7. CASE ReadBridgeReturns
    BY <1>7 DEF ReadBridgeReturns, BridgeTypeOK
<1>8. CASE SwapWord
    BY <1>8 DEF SwapWord
<1>9. CASE SenderEmpty
    BY <1>9 DEF SenderEmpty
<1>10. CASE EndDrain
    BY <1>10 DEF EndDrain
<1> QED
    BY <1>2, <1>3, <1>4, <1>5, <1>6, <1>7, <1>8, <1>9, <1>10 DEF Next, NetworkStep

(* The bridge's part of the state keeps its type.                          *)
LEMMA BridgeTypePreserved == BridgeTypeOK /\ [Next]_vars => BridgeTypeOK'
<1> SUFFICES ASSUME BridgeTypeOK, [Next]_vars PROVE BridgeTypeOK'
    OBVIOUS
<1> USE SizeAssumption DEF BridgeTypeOK
<1>1. CASE UNCHANGED bridgeVars
    BY <1>1 DEF bridgeVars
<1>2. CASE BridgeReceives
    BY <1>2 DEF BridgeReceives
<1>3. CASE BridgeCloses
    BY <1>3 DEF BridgeCloses
<1>4. CASE Poll
    BY <1>4 DEF Poll
<1>5. CASE ReadFrame
    BY <1>5 DEF ReadFrame
<1> QED
    BY <1>1, <1>2, <1>3, <1>4, <1>5
    DEF Next, SenderStep, NetworkStep, vars, Push, PushFull, MarkReady, Wake, WakeFails, Dispatch,
        EndBatch, ReadBridgeReturns, SwapWord, SendPacket, SenderEmpty, EndDrain

(* The wake and its history keep their type, and an id waits for a failed  *)
(* wake only while its bit is set: the swap that clears the bit forgets it. *)
LEMMA WakePreserved == IInv /\ [Next]_vars => WakeTypeOK' /\ MissedIsMarked'
<1> SUFFICES ASSUME IInv, [Next]_vars PROVE WakeTypeOK' /\ MissedIsMarked'
    OBVIOUS
<1> USE DEF IInv, TypeOK, SenderTypeOK, WakeTypeOK, MissedIsMarked
<1>1. CASE UNCHANGED <<readyBit, waker, missed>>
    BY <1>1
<1>2. ASSUME NEW i \in Interface, MarkReady(i) PROVE WakeTypeOK' /\ MissedIsMarked'
    BY <1>2 DEF MarkReady, wakeVars
<1>3. ASSUME NEW i \in Interface, Wake(i) PROVE WakeTypeOK' /\ MissedIsMarked'
    BY <1>3 DEF Wake
<1>4. ASSUME NEW i \in Interface, WakeFails(i) PROVE WakeTypeOK' /\ MissedIsMarked'
    BY <1>4 DEF WakeFails
<1>5. CASE Poll
    BY <1>5 DEF Poll, senderVars
<1>6. CASE SwapWord
    BY <1>6 DEF SwapWord
<1> QED
    BY <1>1, <1>2, <1>3, <1>4, <1>5, <1>6
    DEF Next, SenderStep, NetworkStep, vars, senderVars, wakeVars, Push, PushFull,
        BridgeReceives, BridgeCloses, Dispatch, EndBatch, ReadFrame, ReadBridgeReturns,
        SendPacket, SenderEmpty, EndDrain

(* Each packet in a ring stays covered.  Push leaves its thread at "mark",  *)
(* the mark sets the bit before the thread moves on, the swap moves the     *)
(* bit to the iterator, and the iterator lets go of an id only when its     *)
(* ring is empty.                                                           *)
LEMMA RingCoverPreserved == IInv /\ [Next]_vars => RingIsCovered'
<1> SUFFICES ASSUME IInv, [Next]_vars, NEW j \in Interface, ring'[j] # <<>>
             PROVE  sender'[j] = "mark" \/ readyBit'[j] \/ j \in captured'
    BY DEF RingIsCovered
<1> USE DEF IInv, TypeOK, SenderTypeOK
<1>1. ring[j] # <<>> => sender[j] = "mark" \/ readyBit[j] \/ j \in captured
    BY DEF RingIsCovered
<1>2. ASSUME NEW i \in Interface, Push(i)
      PROVE  sender'[j] = "mark" \/ readyBit'[j] \/ j \in captured'
    BY <1>1, <1>2 DEF Push, threadVars
<1>3. ASSUME NEW i \in Interface, PushFull(i) \/ Wake(i) \/ WakeFails(i)
      PROVE  sender'[j] = "mark" \/ readyBit'[j] \/ j \in captured'
    BY <1>1, <1>3 DEF PushFull, Wake, WakeFails, threadVars
<1>4. ASSUME NEW i \in Interface, MarkReady(i)
      PROVE  sender'[j] = "mark" \/ readyBit'[j] \/ j \in captured'
    BY <1>1, <1>4 DEF MarkReady, threadVars
<1>5. CASE SwapWord
    BY <1>1, <1>5 DEF SwapWord
<1>6. CASE SendPacket
    <2>1. ring[j] # <<>>
        <3> PICK i \in captured :
                /\ ring[i] # <<>>
                /\ ring' = [ring EXCEPT ![i] = Tail(@)]
            BY <1>6 DEF SendPacket
        <3> QED
            OBVIOUS
    <2> QED
        BY <1>1, <1>6, <2>1 DEF SendPacket, threadVars
<1>7. CASE SenderEmpty
    BY <1>1, <1>7 DEF SenderEmpty, senderVars
<1>8. CASE UNCHANGED <<senderVars, captured>>
    BY <1>1, <1>8 DEF senderVars
<1> QED
    BY <1>2, <1>3, <1>4, <1>5, <1>6, <1>7, <1>8
    DEF Next, SenderStep, NetworkStep, vars, threadVars, BridgeReceives, BridgeCloses,
        Poll, Dispatch, EndBatch, ReadFrame, ReadBridgeReturns, EndDrain

(* Each set bit stays covered.  A poll turns the pending wake into an event *)
(* of the batch, its dispatch starts the swap at word 0, and the swap       *)
(* clears every bit of a word before it moves past it.  A failed wake puts  *)
(* its id among the missed, and a wake that succeeds covers every bit.      *)
LEMMA BitCoverPreserved == IInv /\ [Next]_vars => BitIsCovered'
<1> DEFINE Covered(j) == \/ sender[j] = "wake"
                         \/ waker
                         \/ "network" \in events
                         \/ pc = "swap" /\ word <= WordOf(j)
                         \/ j \in missed
<1> SUFFICES ASSUME IInv, [Next]_vars, NEW j \in Interface, readyBit'[j]
             PROVE  Covered(j)'
    BY DEF BitIsCovered
<1> USE InterfaceAssumption, SizeAssumption DEF IInv, TypeOK, SenderTypeOK, ThreadTypeOK
<1>1. readyBit[j] => Covered(j)
    BY DEF BitIsCovered
<1>2. ASSUME NEW i \in Interface, Push(i) \/ PushFull(i) PROVE Covered(j)'
    BY <1>1, <1>2 DEF Push, PushFull, threadVars, wakeVars
<1>3. ASSUME NEW i \in Interface, MarkReady(i) PROVE Covered(j)'
    BY <1>1, <1>3 DEF MarkReady, threadVars, wakeVars
<1>4. ASSUME NEW i \in Interface, Wake(i) PROVE Covered(j)'
    BY <1>4 DEF Wake
<1>10. ASSUME NEW i \in Interface, WakeFails(i) PROVE Covered(j)'
    BY <1>1, <1>10 DEF WakeFails, threadVars
<1>5. CASE Poll
    <2>1. readyBit[j] => sender[j] = "wake" \/ waker \/ j \in missed
        BY <1>1, <1>5 DEF Poll, BatchShape
    <2> QED
        BY <1>5, <2>1 DEF Poll, senderVars, Event
<1>6. CASE Dispatch
    <2>1. PICK e \in events : /\ events' = events \ {e}
                              /\ pc' = IF e = "network" THEN "swap" ELSE "bridge"
        BY <1>6 DEF Dispatch
    <2>2. WordOf(j) \in Nat /\ word' = 0
        BY <1>6 DEF Dispatch
    <2>3. pc # "swap" /\ readyBit' = readyBit /\ sender' = sender /\ UNCHANGED wakeVars
        BY <1>6 DEF Dispatch, senderVars
    <2> QED
        BY <1>1, <2>1, <2>2, <2>3 DEF wakeVars
<1>7. CASE SwapWord
    <2>1. readyBit[j] /\ WordOf(j) # word
        BY <1>7 DEF SwapWord
    <2>2. pc = "swap" /\ word <= WordOf(j) => pc' = "swap" /\ word' <= WordOf(j)
        <3> SUFFICES ASSUME word <= WordOf(j)
                     PROVE  pc' = "swap" /\ word' <= WordOf(j)
            OBVIOUS
        <3>1. WordOf(j) \in 0 .. NumWords - 1 /\ word \in Nat /\ NumWords \in Nat
            OBVIOUS
        <3>2. word + 1 <= WordOf(j) /\ word + 1 # NumWords
            BY <2>1, <3>1
        <3> QED
            BY <1>7, <3>2 DEF SwapWord
    <2> QED
        BY <1>1, <1>7, <2>1, <2>2 DEF SwapWord
<1>8. CASE EndBatch \/ ReadBridgeReturns \/ SendPacket \/ SenderEmpty \/ EndDrain
    <2>1. pc # "swap" /\ readyBit' = readyBit /\ sender' = sender
        BY <1>8 DEF EndBatch, ReadBridgeReturns, SendPacket, SenderEmpty, EndDrain, senderVars
    <2>2. UNCHANGED wakeVars /\ events' = events
        BY <1>8 DEF EndBatch, ReadBridgeReturns, SendPacket, SenderEmpty, EndDrain, threadVars
    <2> QED
        BY <1>1, <2>1, <2>2 DEF wakeVars
<1>9. CASE UNCHANGED <<senderVars, wakeVars, threadVars>>
    BY <1>1, <1>9 DEF senderVars, wakeVars, threadVars
<1> QED
    BY <1>2, <1>3, <1>4, <1>5, <1>6, <1>7, <1>8, <1>9, <1>10
    DEF Next, SenderStep, NetworkStep, vars, BridgeReceives, BridgeCloses, ReadFrame

(* The invariant is inductive.                                             *)
LEMMA IInvPreserved == IInv /\ [Next]_vars => IInv'
BY SenderTypePreserved, ThreadTypePreserved, WakePreserved, BridgeTypePreserved,
   RingCoverPreserved, BitCoverPreserved
   DEF IInv, TypeOK

(* Every reachable state of the transmit path satisfies the invariant,     *)
(* whatever the interfaces, the words and the sizes: type correctness, and *)
(* that each packet in a ring and each bit set is somebody's to serve, or  *)
(* waits for the next wake because its own failed.                         *)
THEOREM InvariantHolds == SafeSpec => []IInv
<1>1. Init => IInv
    BY InitEstablishesIInv
<1>2. IInv /\ [Next]_vars => IInv'
    BY IInvPreserved
<1> QED
    BY <1>1, <1>2, PTL DEF SafeSpec

(* The state of the transmit path keeps its type.                          *)
THEOREM TypeCorrect == SafeSpec => []TypeOK
<1>1. IInv => TypeOK
    BY DEF IInv
<1> QED
    BY <1>1, InvariantHolds, PTL

(* The network thread never sleeps on a packet it was told about: when it  *)
(* is about to poll with no wake pending, every packet in a ring belongs   *)
(* to a try_send that has not woken it yet or whose wake failed, and that  *)
(* only until the next wake of any interface.                              *)
THEOREM WakeupIsNeverLost == SafeSpec => []NoLostWakeup
<1>1. IInv => NoLostWakeup
    BY DEF IInv, RingIsCovered, BitIsCovered, BatchShape, NoLostWakeup
<1> QED
    BY <1>1, InvariantHolds, PTL

(* A pop whose result goes to the bridge is a Transmit of that interface,  *)
(* a push an Accept, a failed wake a Stall, a wake that succeeds and the   *)
(* swap of a word a Resume; every other step leaves the abstract queue as  *)
(* it is, except the end of the run, which is its Shutdown.                *)
THEOREM RefinesSendQueue == SafeSpec => ImplementsServiceSafely
<1>1. Init => Service!Init
    BY DEF Init, Service!Init
<1>2. IInv /\ [Next]_vars => [Service!Next]_(Service!vars)
    <2> SUFFICES ASSUME IInv, [Next]_vars
                 PROVE  [Service!Next]_(Service!vars)
        OBVIOUS
    <2> USE DEF Service!vars
    <2>1. ASSUME NEW i \in Interface, Push(i) PROVE Service!Next
        <3>1. tried[i] + 1 \in Packet
            BY <2>1, SizeAssumption DEF Push, IInv, TypeOK, SenderTypeOK, Packet
        <3>2. Service!Accept(i)
            BY <2>1, <3>1 DEF Push, threadVars, wakeVars, Service!Accept
        <3> QED
            BY <3>2 DEF Service!Next
    <2>2. CASE SendPacket
        <3> PICK i \in captured :
                /\ ring[i] # <<>>
                /\ sent' = [sent EXCEPT ![i] = Append(@, Head(ring[i]))]
                /\ ring' = [ring EXCEPT ![i] = Tail(@)]
            BY <2>2 DEF SendPacket
        <3>1. Service!Transmit(i)
            BY <2>2 DEF SendPacket, threadVars, wakeVars, Service!Transmit
        <3> QED
            BY <3>1 DEF IInv, TypeOK, ThreadTypeOK, Service!Next
    <2>3. CASE EndBatch
        BY <2>3 DEF EndBatch, senderVars, wakeVars, Service!Next, Service!Shutdown
    <2>4. CASE UNCHANGED <<ring, missed, sent>> /\ pc # "stopped" /\ pc' # "stopped"
        BY <2>4
    <2>5. CASE UNCHANGED <<ring, missed, sent, pc>>
        BY <2>5
    <2>6. ASSUME NEW i \in Interface, PushFull(i) \/ MarkReady(i)
          PROVE  UNCHANGED <<ring, missed, sent, pc>>
        BY <2>6 DEF PushFull, MarkReady, threadVars, wakeVars
    <2>7. CASE BridgeReceives \/ BridgeCloses \/ ReadFrame \/ UNCHANGED vars
        BY <2>5, <2>7
        DEF BridgeReceives, BridgeCloses, ReadFrame, vars, senderVars, threadVars, wakeVars
    <2>8. CASE Poll \/ Dispatch \/ ReadBridgeReturns \/ SenderEmpty \/ EndDrain
        BY <2>4, <2>8
        DEF Poll, Dispatch, ReadBridgeReturns, SenderEmpty, EndDrain, senderVars, wakeVars
    <2>9. ASSUME NEW S \in SUBSET missed, missed' = missed \ S, UNCHANGED <<ring, sent>>,
                 pc # "stopped" <=> pc' # "stopped"
          PROVE  Service!Next
        BY <2>9 DEF Service!Next, Service!Resume
    <2>10. ASSUME NEW i \in Interface, Wake(i) PROVE Service!Next
        <3>1. /\ missed \in SUBSET missed /\ missed' = missed \ missed
              /\ UNCHANGED <<ring, sent, pc>>
            BY <2>10 DEF Wake, threadVars
        <3> QED
            BY <2>9, <3>1
    <2>11. ASSUME NEW i \in Interface, WakeFails(i) PROVE [Service!Next]_(Service!vars)
        <3>1. /\ missed' = missed \cup {i} \/ missed' = missed
              /\ UNCHANGED <<ring, sent, pc>>
            BY <2>11 DEF WakeFails, threadVars
        <3> QED
            BY <3>1 DEF Service!Next, Service!Stall
    <2>12. CASE SwapWord
        <3> DEFINE hits == {i \in Interface : WordOf(i) = word /\ readyBit[i]}
        <3>1. /\ missed \cap hits \in SUBSET missed
              /\ missed' = missed \ (missed \cap hits)
              /\ UNCHANGED <<ring, sent>>
              /\ pc # "stopped" /\ pc' # "stopped"
            BY <2>12 DEF SwapWord
        <3> QED
            BY <2>9, <3>1
    <2> QED
        BY <2>1, <2>2, <2>3, <2>5, <2>6, <2>7, <2>8, <2>10, <2>11, <2>12
        DEF Next, SenderStep, NetworkStep
<1> QED
    BY <1>1, <1>2, InvariantHolds, PTL
    DEF SafeSpec, Service!SafeSpec, ImplementsServiceSafely
=============================================================================
