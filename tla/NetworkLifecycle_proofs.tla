----------------------- MODULE NetworkLifecycle_proofs -----------------------
(***************************************************************************)
(* For any addresses, slots and rings: a frame for a living interface gets *)
(* to its worker and finds it awake, unless an older interface of the same *)
(* address was joined.                                                     *)
(***************************************************************************)
EXTENDS NetworkLifecycle, SequenceTheorems, TLAPS

-----------------------------------------------------------------------------
(* The inductive invariant *)

HasEntry(n) == macs[n] \in DOMAIN interfaces /\ interfaces[macs[n]] = n
ClosedInRing(n) == \E i \in 1 .. Len(outbound[n]) : outbound[n][i] = "closed"

(* From the moment its worker has found the ring empty, a frame that comes *)
(* is announced by the token, or about to be.                              *)
FramesAreAnnounced ==
    \A n \in Added :
        worker[n] \in {"timers", "parked"} /\ inbound[n] > 0 => n \in token \/ unparking = n

(* An entry leads to the youngest interface of its address.                *)
EntriesAreOfTheYoungest ==
    \A mac \in DOMAIN interfaces :
        /\ macs[interfaces[mac]] = mac
        /\ \A n \in Added : macs[n] = mac => n <= interfaces[mac]

(* A worker says Closed once, at its end, and only an ended one is joined. *)
ClosedIsTheLastWord ==
    /\ \A n \in Slot : \A i \in 1 .. Len(outbound[n]) :
          outbound[n][i] = "closed" => worker[n] \in Ended /\ i = Len(outbound[n])
    /\ \A n \in joined : worker[n] \in Ended
    /\ \A n \in Slot \ Added : worker[n] = "none"

(* An interface whose Closed has not been read yet, sent or to be sent, has *)
(* its entry; or some interface of its address, not younger, was joined.   *)
UnreadKeepsItsEntry ==
    \A n \in Added :
        worker[n] \notin Ended \/ ClosedInRing(n) =>
            HasEntry(n) \/ \E k \in joined : k <= n /\ macs[k] = macs[n]

IInv ==
    /\ TypeOK
    /\ FramesAreAnnounced
    /\ EntriesAreOfTheYoungest
    /\ ClosedIsTheLastWord
    /\ UnreadKeepsItsEntry

USE DEF vars, programVars, workerVars, networkVars

-----------------------------------------------------------------------------
(* The slots, and what becomes of the entries *)

LEMMA AddedIsSlots ==
    ASSUME TypeOK
    PROVE  /\ Len(macs) \in Nat /\ Slots \in Nat /\ Len(macs) <= Slots
           /\ Added = 1 .. Len(macs) /\ Added \subseteq Slot /\ 0 \notin Added
           /\ \A n \in Added : macs[n] \in Mac
<1>1. macs \in Seq(Mac) /\ Len(macs) <= Slots
    BY DEF TypeOK
<1>2. Len(macs) \in Nat /\ DOMAIN macs = 1 .. Len(macs) /\ \A n \in 1 .. Len(macs) : macs[n] \in Mac
    BY <1>1, LenProperties, ElementOfSeq
<1>3. Slots \in Nat
    BY LifecycleAssumption DEF LifecycleAssumption
<1> QED
    BY <1>1, <1>2, <1>3 DEF Added, Slot

LEMMA Bounds ==
    /\ RecvCapacity \in Nat /\ SendCapacity \in Nat
    /\ MaxPackets \in Nat /\ MaxFrames \in Nat
BY LifecycleAssumption DEF LifecycleAssumption

(* add_interface takes the next slot and a free address, and touches no    *)
(* other entry.                                                            *)
LEMMA AddTakesTheNextSlot ==
    ASSUME TypeOK, NEW mac \in Mac, Add(mac), NEW n, n = Len(macs) + 1
    PROVE  /\ n \in Slot /\ n \notin Added /\ Added' = Added \cup {n}
           /\ macs' \in Seq(Mac) /\ Len(macs') = n
           /\ macs'[n] = mac /\ \A k \in Added : macs'[k] = macs[k] /\ k < n
           /\ mac \notin DOMAIN interfaces
           /\ DOMAIN interfaces' = DOMAIN interfaces \cup {mac} /\ interfaces'[mac] = n
           /\ \A m \in DOMAIN interfaces : interfaces'[m] = interfaces[m]
           /\ worker' = [worker EXCEPT ![n] = "control"]
<1>1. macs \in Seq(Mac) /\ macs' = Append(macs, mac) /\ Len(macs) < Slots
    BY DEF Add, TypeOK
<1>2. /\ macs' \in Seq(Mac) /\ Len(macs') = Len(macs) + 1
      /\ \A k \in 1 .. Len(macs) : macs'[k] = macs[k]
      /\ macs'[Len(macs) + 1] = mac
    BY <1>1, AppendProperties
<1>3. DOMAIN macs' = 1 .. Len(macs')
    BY <1>2, LenProperties
<1>4. mac \notin DOMAIN interfaces
      /\ interfaces' = [m \in DOMAIN interfaces \cup {mac} |->
                          IF m = mac THEN Len(macs') ELSE interfaces[m]]
      /\ worker' = [worker EXCEPT ![Len(macs')] = "control"]
    BY DEF Add, AddressIsFree
<1>5. /\ n \in Slot /\ n \notin Added /\ Added' = Added \cup {n}
      /\ \A k \in Added : macs'[k] = macs[k] /\ k < n
    BY <1>1, <1>2, <1>3, AddedIsSlots DEF Added, Slot
<1> QED
    BY <1>2, <1>4, <1>5

(* Join and Closed only take entries away.                                 *)
LEMMA JoinTakesEntriesAway ==
    ASSUME NEW n, Join(n)
    PROVE  /\ DOMAIN interfaces' = {m \in DOMAIN interfaces : interfaces[m] # n}
           /\ \A m \in DOMAIN interfaces' : interfaces'[m] = interfaces[m]
BY DEF Join, RestrictValues, Restrict

LEMMA ClosedTakesTheEntryAway ==
    ASSUME NEW n, TakeClosed(n)
    PROVE  /\ DOMAIN interfaces' = DOMAIN interfaces \ {macs[n]}
           /\ \A m \in DOMAIN interfaces' : interfaces'[m] = interfaces[m]
BY DEF TakeClosed, WithoutAddress, Restrict

-----------------------------------------------------------------------------
(* The shapes of the state *)

Ring == Seq({"packet", "closed"})

RingsFit ==
    /\ DOMAIN outbound = Slot
    /\ \A n \in Slot : outbound[n] \in Ring /\ Len(outbound[n]) <= SendCapacity

LEMMA RingAfter ==
    ASSUME RingsFit, NEW n \in Slot, NEW s \in Ring, Len(s) <= SendCapacity,
           outbound' = [outbound EXCEPT ![n] = s]
    PROVE  RingsFit' /\ outbound'[n] = s /\ \A k \in Slot : k # n => outbound'[k] = outbound[k]
BY DEF RingsFit

LEMMA RingAfterSend ==
    ASSUME RingsFit, NEW n \in Slot, NEW what \in {"packet", "closed"},
           Len(outbound[n]) < SendCapacity,
           outbound' = [outbound EXCEPT ![n] = Append(@, what)]
    PROVE  RingsFit'
<1>1. outbound[n] \in Ring /\ SendCapacity \in Nat
    BY Bounds DEF RingsFit
<1>2. Append(outbound[n], what) \in Ring
      /\ Len(Append(outbound[n], what)) = Len(outbound[n]) + 1 /\ Len(outbound[n]) \in Nat
    BY <1>1, AppendProperties, LenProperties DEF Ring
<1> DEFINE s == Append(outbound[n], what)
<1>3. s \in Ring /\ Len(s) <= SendCapacity
    BY <1>1, <1>2
<1>4. outbound' = [outbound EXCEPT ![n] = s]
    BY DEF RingsFit
<1> HIDE DEF s
<1> QED
    BY <1>3, <1>4, RingAfter

LEMMA RingAfterTake ==
    ASSUME RingsFit, NEW n \in Slot, outbound[n] # <<>>,
           outbound' = [outbound EXCEPT ![n] = Tail(@)]
    PROVE  RingsFit'
<1>1. outbound[n] \in Ring /\ Len(outbound[n]) <= SendCapacity /\ SendCapacity \in Nat
    BY Bounds DEF RingsFit
<1>2. Tail(outbound[n]) \in Ring /\ Len(Tail(outbound[n])) = Len(outbound[n]) - 1
      /\ Len(outbound[n]) \in Nat
    BY <1>1, HeadTailProperties, LenProperties DEF Ring
<1> DEFINE s == Tail(outbound[n])
<1>3. s \in Ring /\ Len(s) <= SendCapacity
    BY <1>1, <1>2
<1>4. outbound' = [outbound EXCEPT ![n] = s]
    BY DEF RingsFit
<1> HIDE DEF s
<1> QED
    BY <1>3, <1>4, RingAfter

(* Everything that TypeOK says but of the rings to the network.            *)
Shapes ==
    /\ app \in {"idle", "running", "joining"}
    /\ macs \in Seq(Mac) /\ Len(macs) <= Slots
    /\ DOMAIN interfaces \subseteq Mac
    /\ \A m \in DOMAIN interfaces : interfaces[m] \in Added
    /\ stopped \subseteq Added /\ joined \subseteq Added
    /\ worker \in [Slot -> WorkerPlace]
    /\ token \subseteq Added
    /\ inbound \in [Slot -> 0 .. RecvCapacity]
    /\ targets \subseteq Added
    /\ unparking \in Added \cup {0}
    /\ packets \in 0 .. MaxPackets
    /\ frames \in 0 .. MaxFrames

LEMMA TypeIsShapesAndRings == (TypeOK <=> Shapes /\ RingsFit) /\ (TypeOK' <=> Shapes' /\ RingsFit')
BY DEF TypeOK, Shapes, RingsFit, Ring, Entries

LEMMA RingsStep ==
    ASSUME TypeOK, Next
    PROVE  RingsFit'
<1>t. RingsFit /\ Added \subseteq Slot
    BY TypeIsShapesAndRings, AddedIsSlots
<1>1. CASE UNCHANGED outbound
    BY <1>1, <1>t DEF RingsFit
<1>2. ASSUME NEW n \in Added, SendPacket(n)
      PROVE  RingsFit'
    <2>1. CASE Len(outbound[n]) = SendCapacity
        BY <1>1, <1>2, <2>1 DEF SendPacket
    <2>2. CASE Len(outbound[n]) # SendCapacity
        <3>1. Len(outbound[n]) < SendCapacity
            BY <1>t, <2>2, Bounds, LenProperties DEF RingsFit, Ring
        <3>2. outbound' = [outbound EXCEPT ![n] = Append(@, "packet")]
            BY <1>2, <2>2 DEF SendPacket
        <3> QED
            BY <1>t, <3>1, <3>2, RingAfterSend
    <2> QED
        BY <2>1, <2>2
<1>3. ASSUME NEW n \in Added, SendClosed(n)
      PROVE  RingsFit'
    BY <1>t, <1>3, RingAfterSend DEF SendClosed
<1>4. ASSUME NEW n \in Added, TakePacket(n) \/ TakeClosed(n)
      PROVE  RingsFit'
    BY <1>t, <1>4, RingAfterTake DEF TakePacket, TakeClosed
<1>5. ASSUME NEW n \in Added,
             \/ Stop(n) \/ EndControl(n) \/ RecvFrame(n) \/ RecvEmpty(n) \/ Park(n)
             \/ Unparked(n) \/ ParkTimesOut(n) \/ ClosePanics(n) \/ Deliver(n) \/ Join(n)
      PROVE  RingsFit'
    BY <1>1, <1>5
       DEF Stop, EndControl, RecvFrame, RecvEmpty, Park, Unparked, ParkTimesOut,
           ClosePanics, Deliver, Join
<1>6. CASE \/ \E mac \in Mac : Add(mac)
           \/ \E destination \in Mac \cup {Broadcast} : ReadFrame(destination)
           \/ Unpark \/ RunReturns \/ Run \/ JoinInterfaces \/ JoinReturns
    BY <1>1, <1>6 DEF Add, ReadFrame, Unpark, RunReturns, Run, JoinInterfaces, JoinReturns
<1> QED
    BY <1>2, <1>3, <1>4, <1>5, <1>6 DEF Next, WorkerStep, NetworkStep, Take, JoinStep

LEMMA ShapesStep ==
    ASSUME TypeOK, Next
    PROVE  Shapes'
<1>t. TypeOK /\ Shapes /\ Added \subseteq Slot
    BY TypeIsShapesAndRings, AddedIsSlots
<1>1. ASSUME NEW mac \in Mac, Add(mac)
      PROVE  Shapes'
    <2>0. PICK n : n = Len(macs) + 1
        OBVIOUS
    <2>s. macs' \in Seq(Mac) /\ Len(macs') = n
        BY <1>t, <1>1, <2>0, AppendProperties DEF Add, Shapes
    <2>1. /\ n \in Slot /\ Added' = Added \cup {n}
          /\ DOMAIN interfaces' = DOMAIN interfaces \cup {mac} /\ interfaces'[mac] = n
          /\ \A m \in DOMAIN interfaces : interfaces'[m] = interfaces[m]
          /\ worker' = [worker EXCEPT ![n] = "control"]
        BY <1>t, <1>1, <2>0, AddTakesTheNextSlot
    <2>2. UNCHANGED <<app, joined, stopped, packets, token, inbound, networkVars>>
          /\ n <= Slots
        BY <1>1, <2>1, AddedIsSlots DEF Add, Slot
    <2>3. worker' \in [Slot -> WorkerPlace]
        BY <1>t, <2>1 DEF Shapes, WorkerPlace
    <2> QED
        BY <1>t, <1>1, <2>s, <2>1, <2>2, <2>3 DEF Shapes
<1>2. ASSUME NEW n \in Added, Join(n)
      PROVE  Shapes'
    <2>1. UNCHANGED <<app, macs, stopped, worker, packets, token, inbound, networkVars>>
          /\ joined' = joined \cup {n} /\ Added' = Added
        BY <1>2 DEF Join, Added
    <2> QED
        BY <1>t, <1>2, <2>1, JoinTakesEntriesAway DEF Shapes
<1>3. ASSUME NEW n \in Added, TakeClosed(n)
      PROVE  Shapes'
    <2>1. UNCHANGED <<app, macs, joined, stopped, worker, packets, token, inbound, networkVars>>
          /\ Added' = Added
        BY <1>3 DEF TakeClosed, Added
    <2> QED
        BY <1>t, <1>3, <2>1, ClosedTakesTheEntryAway DEF Shapes
<1>u. ASSUME UNCHANGED <<interfaces, macs>>
      PROVE  Added' = Added
    BY <1>u DEF Added
<1>4. ASSUME NEW n \in Added, WorkerStep(n)
      PROVE  Shapes'
    <2>1. /\ UNCHANGED <<programVars, stopped, packets, networkVars>>
          /\ \/ worker' = worker
             \/ \E to \in WorkerPlace : worker' = [worker EXCEPT ![n] = to]
          /\ token' \subseteq token
          /\ inbound' = inbound \/ (inbound[n] > 0 /\ inbound' = [inbound EXCEPT ![n] = @ - 1])
        BY <1>4
           DEF WorkerStep, EndControl, RecvFrame, RecvEmpty, Park, Unparked, ParkTimesOut,
               SendClosed, ClosePanics, Goes, WorkerPlace, Ended
    <2>2. worker' \in [Slot -> WorkerPlace]
        BY <1>t, <2>1 DEF Shapes
    <2>3. inbound' \in [Slot -> 0 .. RecvCapacity]
        BY <1>t, <2>1, Bounds DEF Shapes
    <2> QED
        BY <1>t, <1>u, <2>1, <2>2, <2>3 DEF Shapes
<1>5. ASSUME NEW n \in Added, Stop(n) \/ SendPacket(n)
      PROVE  Shapes'
    <2>1. /\ UNCHANGED <<programVars, worker, token, inbound, networkVars>>
          /\ stopped' \in {stopped, stopped \cup {n}}
          /\ packets' = packets \/ (packets < MaxPackets /\ packets' = packets + 1)
        BY <1>5 DEF Stop, SendPacket
    <2>2. packets' \in 0 .. MaxPackets
        BY <1>t, <2>1, Bounds DEF Shapes
    <2> QED
        BY <1>t, <1>u, <2>1, <2>2 DEF Shapes
<1>6. ASSUME NEW n \in Added, Deliver(n)
      PROVE  Shapes'
    <2>1. /\ UNCHANGED <<programVars, stopped, worker, packets, token, frames>>
          /\ targets' = targets \ {n} /\ unparking' \in {unparking, n}
          /\ inbound' = inbound
             \/ (inbound[n] < RecvCapacity /\ inbound' = [inbound EXCEPT ![n] = @ + 1])
        BY <1>6 DEF Deliver, HasRoom, AfterPush
    <2>2. inbound' \in [Slot -> 0 .. RecvCapacity]
        BY <1>t, <2>1, Bounds DEF Shapes
    <2> QED
        BY <1>t, <1>u, <2>1, <2>2 DEF Shapes
<1>7. ASSUME NEW destination, ReadFrame(destination)
      PROVE  Shapes'
    <2>1. /\ UNCHANGED <<programVars, stopped, worker, packets, token, inbound, unparking>>
          /\ frames < MaxFrames /\ frames' = frames + 1
          /\ targets' \subseteq Entries
        BY <1>7 DEF ReadFrame, Entries
    <2>2. Entries \subseteq Added
        BY <1>t DEF Shapes, Entries
    <2>3. frames' \in 0 .. MaxFrames
        BY <1>t, <2>1, Bounds DEF Shapes
    <2> QED
        BY <1>t, <1>u, <2>1, <2>2, <2>3 DEF Shapes
<1>8. CASE Unpark
    BY <1>t, <1>8, <1>u DEF Shapes, Unpark
<1>9. ASSUME NEW n \in Added, TakePacket(n)
      PROVE  Shapes'
    BY <1>t, <1>9, <1>u DEF Shapes, TakePacket
<1>10. CASE RunReturns \/ Run \/ JoinInterfaces \/ JoinReturns
    BY <1>t, <1>10, <1>u DEF Shapes, RunReturns, Run, JoinInterfaces, JoinReturns
<1> QED
    BY <1>1, <1>2, <1>3, <1>4, <1>5, <1>6, <1>7, <1>8, <1>9, <1>10
       DEF Next, NetworkStep, Take, JoinStep

-----------------------------------------------------------------------------
(* The parts of the invariant *)

(* A frame is pushed only between pops, and its unpark follows; the token  *)
(* is taken on the way to the pops, never after them.                      *)
LEMMA FramesStep ==
    ASSUME IInv, Next
    PROVE  FramesAreAnnounced'
<1>t. TypeOK /\ Shapes /\ FramesAreAnnounced /\ Added \subseteq Slot /\ 0 \notin Added
    BY TypeIsShapesAndRings, AddedIsSlots DEF IInv
<1>1. CASE UNCHANGED <<macs, worker, inbound, token, unparking>>
    BY <1>t, <1>1 DEF FramesAreAnnounced, Added
<1>2. ASSUME NEW mac \in Mac, Add(mac)
      PROVE  FramesAreAnnounced'
    <2>1. PICK n : n = Len(macs) + 1
        OBVIOUS
    <2>2. n \in Slot /\ n \notin Added /\ Added' = Added \cup {n}
          /\ worker' = [worker EXCEPT ![n] = "control"]
        BY <1>t, <1>2, <2>1, AddTakesTheNextSlot
    <2>3. UNCHANGED <<inbound, token, unparking>>
        BY <1>2 DEF Add
    <2> QED
        BY <1>t, <2>2, <2>3 DEF FramesAreAnnounced, Shapes
<1>u. macs' = macs => Added' = Added
    BY DEF Added
<1>3. ASSUME NEW n \in Added, WorkerStep(n)
      PROVE  FramesAreAnnounced'
    <2>1. UNCHANGED <<macs, unparking>>
          /\ \A k \in Added \ {n} : worker'[k] = worker[k] /\ inbound'[k] = inbound[k]
                                   /\ (k \in token <=> k \in token')
        BY <1>t, <1>3
           DEF WorkerStep, EndControl, RecvFrame, RecvEmpty, Park, Unparked, ParkTimesOut,
               SendClosed, ClosePanics, Goes, Shapes
    <2>2. worker'[n] \in {"timers", "parked"} =>
             /\ inbound'[n] = inbound[n]
             /\ token' = token
             /\ worker[n] \in {"timers", "parked"} \/ inbound[n] = 0
        <3>1. CASE EndControl(n) \/ RecvFrame(n) \/ SendClosed(n) \/ ClosePanics(n)
            BY <1>t, <3>1
               DEF EndControl, RecvFrame, SendClosed, ClosePanics, Goes, Shapes, Ended
        <3>2. CASE RecvEmpty(n) \/ Park(n) \/ Unparked(n) \/ ParkTimesOut(n)
            BY <1>t, <3>2 DEF RecvEmpty, Park, Unparked, ParkTimesOut, Goes, Shapes
        <3> QED
            BY <1>3, <3>1, <3>2 DEF WorkerStep
    <2>3. inbound[n] \in Nat
        BY <1>t, Bounds DEF Shapes
    <2> QED
        BY <1>t, <1>u, <2>1, <2>2, <2>3 DEF FramesAreAnnounced
<1>4. ASSUME NEW n \in Added, Deliver(n)
      PROVE  FramesAreAnnounced'
    <2>1. /\ UNCHANGED <<macs, worker, token>> /\ unparking = 0
          /\ \/ UNCHANGED <<inbound, unparking>>
             \/ inbound' = [inbound EXCEPT ![n] = @ + 1] /\ unparking' = n
        BY <1>4 DEF Deliver, AfterPush
    <2>2. \A k \in Added \ {n} : inbound'[k] = inbound[k]
        BY <1>t, <2>1 DEF Shapes
    <2>3. CASE UNCHANGED <<inbound, unparking>>
        BY <1>1, <2>1, <2>3
    <2>4. CASE unparking' = n
        BY <1>t, <1>u, <2>1, <2>2, <2>4 DEF FramesAreAnnounced
    <2> QED
        BY <2>1, <2>3, <2>4
<1>5. CASE Unpark
    BY <1>t, <1>u, <1>5 DEF Unpark, FramesAreAnnounced
<1>6. ASSUME NEW n \in Added,
             Stop(n) \/ SendPacket(n) \/ TakePacket(n) \/ TakeClosed(n) \/ Join(n)
      PROVE  FramesAreAnnounced'
    BY <1>1, <1>6 DEF Stop, SendPacket, TakePacket, TakeClosed, Join
<1>7. CASE \/ \E destination \in Mac \cup {Broadcast} : ReadFrame(destination)
           \/ RunReturns \/ Run \/ JoinInterfaces \/ JoinReturns
    BY <1>1, <1>7 DEF ReadFrame, RunReturns, Run, JoinInterfaces, JoinReturns
<1> QED
    BY <1>2, <1>3, <1>4, <1>5, <1>6, <1>7 DEF Next, NetworkStep, Take, JoinStep

(* What the other steps do to the entries, the workers and what they said. *)
LEMMA StepsInBrief ==
    ASSUME TypeOK, Next
    PROVE  \/ \E mac \in Mac : Add(mac)
           \/ \E n \in Added : Join(n) \/ TakeClosed(n)
           \/ \E n \in Added : TakePacket(n)
           \/ \E n \in Added : SendPacket(n)
           \/ \E n \in Added : SendClosed(n)
           \/ /\ UNCHANGED <<interfaces, macs, outbound, joined>>
              /\ \/ worker' = worker
                 \/ \E n \in Added : /\ worker[n] \notin Ended
                                     /\ \E to : worker' = [worker EXCEPT ![n] = to]
<1>1. ASSUME NEW n \in Added, WorkerStep(n)
      PROVE  \/ SendClosed(n)
             \/ /\ UNCHANGED <<interfaces, macs, outbound, joined>>
                /\ \/ worker' = worker
                   \/ /\ worker[n] \notin Ended
                      /\ \E to : worker' = [worker EXCEPT ![n] = to]
    BY <1>1
       DEF WorkerStep, EndControl, RecvFrame, RecvEmpty, Park, Unparked, ParkTimesOut,
           ClosePanics, Goes, Ended
<1>2. ASSUME \/ \E n \in Added : Stop(n) \/ Deliver(n)
             \/ \E destination \in Mac \cup {Broadcast} : ReadFrame(destination)
             \/ Unpark \/ RunReturns \/ Run \/ JoinInterfaces \/ JoinReturns
      PROVE  UNCHANGED <<interfaces, macs, outbound, joined, worker>>
    BY <1>2
       DEF Stop, Deliver, ReadFrame, Unpark, RunReturns, Run, JoinInterfaces, JoinReturns
<1> QED
    BY <1>1, <1>2 DEF Next, NetworkStep, Take, JoinStep

(* An address is given out again only when it leads nowhere, and then to   *)
(* the youngest interface there is.                                        *)
LEMMA EntriesStep ==
    ASSUME IInv, Next
    PROVE  EntriesAreOfTheYoungest'
<1>t. TypeOK /\ Shapes /\ EntriesAreOfTheYoungest /\ Added \subseteq Slot
    BY TypeIsShapesAndRings, AddedIsSlots DEF IInv
<1>u. macs' = macs => Added' = Added
    BY DEF Added
<1>1. ASSUME NEW mac \in Mac, Add(mac)
      PROVE  EntriesAreOfTheYoungest'
    <2>1. PICK n : n = Len(macs) + 1
        OBVIOUS
    <2>2. /\ n \in Slot /\ n \notin Added /\ Added' = Added \cup {n}
          /\ macs'[n] = mac /\ \A k \in Added : macs'[k] = macs[k] /\ k < n
          /\ mac \notin DOMAIN interfaces
          /\ DOMAIN interfaces' = DOMAIN interfaces \cup {mac} /\ interfaces'[mac] = n
          /\ \A m \in DOMAIN interfaces : interfaces'[m] = interfaces[m]
        BY <1>t, <1>1, <2>1, AddTakesTheNextSlot
    <2>3. n \in Nat /\ \A k \in Added : k \in Nat
        BY <1>t, <2>2, AddedIsSlots DEF Slot
    <2> QED
        <3> SUFFICES ASSUME NEW m \in DOMAIN interfaces'
                     PROVE  /\ macs'[interfaces'[m]] = m
                            /\ \A k \in Added' : macs'[k] = m => k <= interfaces'[m]
            BY DEF EntriesAreOfTheYoungest
        <3>1. CASE m = mac
            BY <2>2, <2>3, <3>1
        <3>2. CASE m # mac
            <4>1. m \in DOMAIN interfaces /\ interfaces'[m] = interfaces[m]
                  /\ interfaces[m] \in Added
                BY <1>t, <2>2, <3>2 DEF Shapes
            <4>2. macs[interfaces[m]] = m /\ \A k \in Added : macs[k] = m => k <= interfaces[m]
                BY <1>t, <4>1 DEF EntriesAreOfTheYoungest
            <4> QED
                BY <2>2, <3>2, <4>1, <4>2
        <3> QED
            BY <3>1, <3>2
<1>2. ASSUME NEW n \in Added, Join(n) \/ TakeClosed(n)
      PROVE  EntriesAreOfTheYoungest'
    <2>1. /\ DOMAIN interfaces' \subseteq DOMAIN interfaces
          /\ \A m \in DOMAIN interfaces' : interfaces'[m] = interfaces[m]
        BY <1>2, JoinTakesEntriesAway, ClosedTakesTheEntryAway
    <2>2. macs' = macs
        BY <1>2 DEF Join, TakeClosed
    <2> QED
        BY <1>t, <1>u, <2>1, <2>2 DEF EntriesAreOfTheYoungest
<1>3. CASE UNCHANGED <<interfaces, macs>>
    BY <1>t, <1>u, <1>3 DEF EntriesAreOfTheYoungest
<1> QED
    BY <1>t, <1>1, <1>2, <1>3, StepsInBrief DEF TakePacket, SendPacket, SendClosed

(* A worker that has ended sends nothing more, and comes to no other end.  *)
LEMMA ClosedStep ==
    ASSUME IInv, Next
    PROVE  ClosedIsTheLastWord'
<1>t. TypeOK /\ Shapes /\ RingsFit /\ ClosedIsTheLastWord /\ Added \subseteq Slot
    BY TypeIsShapesAndRings, AddedIsSlots DEF IInv
<1>e. "none" \notin Ended
    BY DEF Ended
<1>1. ASSUME NEW mac \in Mac, Add(mac)
      PROVE  ClosedIsTheLastWord'
    <2>1. PICK n : n = Len(macs) + 1
        OBVIOUS
    <2>2. /\ n \in Slot /\ n \notin Added /\ Added' = Added \cup {n}
          /\ worker' = [worker EXCEPT ![n] = "control"]
        BY <1>t, <1>1, <2>1, AddTakesTheNextSlot
    <2>3. UNCHANGED <<outbound, joined>> /\ joined \subseteq Added
        BY <1>t, <1>1 DEF Add, Shapes
    <2>4. worker[n] \notin Ended
        BY <1>t, <1>e, <2>2 DEF ClosedIsTheLastWord
    <2>5. \A k \in Slot : k # n => worker'[k] = worker[k]
        BY <1>t, <2>2 DEF Shapes
    <2>6. \A k \in joined' : k \in Slot /\ k # n
        BY <1>t, <2>2, <2>3
    <2> QED
        BY <1>t, <2>2, <2>3, <2>4, <2>5, <2>6 DEF ClosedIsTheLastWord
<1>2. ASSUME NEW n \in Added, Join(n)
      PROVE  ClosedIsTheLastWord'
    <2>1. UNCHANGED <<macs, outbound, worker>> /\ joined' = joined \cup {n}
          /\ worker[n] \in Ended /\ Added' = Added
        BY <1>2 DEF Join, Added
    <2> QED
        BY <1>t, <2>1 DEF ClosedIsTheLastWord
<1>3. ASSUME NEW n \in Added, TakePacket(n) \/ TakeClosed(n)
      PROVE  ClosedIsTheLastWord'
    <2>1. UNCHANGED <<macs, worker, joined>> /\ outbound[n] # <<>> /\ Added' = Added
          /\ outbound' = [outbound EXCEPT ![n] = Tail(@)]
        BY <1>3 DEF TakePacket, TakeClosed, Added
    <2>2. /\ Len(outbound[n]) \in Nat /\ Len(Tail(outbound[n])) = Len(outbound[n]) - 1
          /\ \A i \in 1 .. Len(outbound[n]) - 1 : Tail(outbound[n])[i] = outbound[n][i + 1]
        <3>1. outbound[n] \in Ring
            BY <1>t DEF RingsFit
        <3> QED
            BY <2>1, <3>1, HeadTailProperties, LenProperties DEF Ring
    <2>3. outbound'[n] = Tail(outbound[n])
          /\ \A k \in Slot \ {n} : outbound'[k] = outbound[k]
        BY <1>t, <2>1 DEF RingsFit
    <2>4. ASSUME NEW i \in 1 .. Len(outbound'[n]), outbound'[n][i] = "closed"
          PROVE  worker'[n] \in Ended /\ i = Len(outbound'[n])
        <3>1. i + 1 \in 1 .. Len(outbound[n]) /\ outbound[n][i + 1] = "closed"
            BY <2>2, <2>3, <2>4
        <3>2. worker[n] \in Ended /\ i + 1 = Len(outbound[n])
            BY <1>t, <3>1 DEF ClosedIsTheLastWord
        <3>3. Len(outbound'[n]) = Len(outbound[n]) - 1
            BY <2>2, <2>3
        <3>4. i \in Nat
            BY <2>2, <3>3
        <3>5. i = Len(outbound'[n])
            BY <2>2, <3>2, <3>3, <3>4
        <3> QED
            BY <2>1, <3>2, <3>5
    <2> QED
        BY <1>t, <2>1, <2>3, <2>4 DEF ClosedIsTheLastWord
<1>4. ASSUME NEW n \in Added, NEW what \in {"packet", "closed"}, worker[n] \notin Ended,
             outbound' = [outbound EXCEPT ![n] = Append(@, what)],
             UNCHANGED <<macs, joined>>,
             \/ what = "packet" /\ worker' = worker
             \/ what = "closed" /\ \E end \in Ended : worker' = [worker EXCEPT ![n] = end]
      PROVE  ClosedIsTheLastWord'
    <2>1. Added' = Added /\ n \in Slot
        BY <1>t, <1>4 DEF Added
    <2>2. /\ Len(outbound[n]) \in Nat /\ Len(Append(outbound[n], what)) = Len(outbound[n]) + 1
          /\ \A i \in 1 .. Len(outbound[n]) : Append(outbound[n], what)[i] = outbound[n][i]
          /\ Append(outbound[n], what)[Len(outbound[n]) + 1] = what
        <3>1. outbound[n] \in Ring
            BY <1>t, <2>1 DEF RingsFit
        <3> QED
            BY <3>1, AppendProperties, LenProperties DEF Ring
    <2>3. outbound'[n] = Append(outbound[n], what)
          /\ \A k \in Slot \ {n} : outbound'[k] = outbound[k]
        BY <1>t, <1>4, <2>1 DEF RingsFit
    <2>4. \A i \in 1 .. Len(outbound[n]) : outbound[n][i] # "closed"
        BY <1>t, <1>e, <1>4, <2>1 DEF ClosedIsTheLastWord
    <2>5. \A k \in Slot : k # n => worker'[k] = worker[k]
        BY <1>t, <1>4 DEF Shapes
    <2>6. what = "closed" => worker'[n] \in Ended
        BY <1>t, <1>4, <2>1 DEF Shapes
    <2>7. \A i \in 1 .. Len(outbound'[n]) :
             outbound'[n][i] = "closed" => worker'[n] \in Ended /\ i = Len(outbound'[n])
        BY <2>2, <2>3, <2>4, <2>6
    <2>8. n \notin joined
        BY <1>t, <1>4 DEF ClosedIsTheLastWord
    <2>9. joined' = joined /\ joined \subseteq Slot
        BY <1>t, <1>4 DEF Shapes
    <2> QED
        BY <1>t, <1>e, <2>1, <2>3, <2>5, <2>7, <2>8, <2>9 DEF ClosedIsTheLastWord
<1>5. ASSUME NEW n \in Added, SendPacket(n)
      PROVE  ClosedIsTheLastWord'
    <2>1. worker[n] \notin Ended /\ UNCHANGED <<macs, joined, worker>> /\ Added' = Added
          /\ \/ outbound' = outbound
             \/ outbound' = [outbound EXCEPT ![n] = Append(@, "packet")]
        BY <1>5 DEF SendPacket, Ended, Added
    <2>2. CASE outbound' = outbound
        BY <1>t, <2>1, <2>2 DEF ClosedIsTheLastWord
    <2> QED
        BY <1>4, <2>1, <2>2
<1>6. ASSUME NEW n \in Added, SendClosed(n)
      PROVE  ClosedIsTheLastWord'
    BY <1>4, <1>6 DEF SendClosed, Goes, Ended
<1>7. ASSUME UNCHANGED <<interfaces, macs, outbound, joined>>,
             \/ worker' = worker
             \/ \E n \in Added : /\ worker[n] \notin Ended
                                 /\ \E to : worker' = [worker EXCEPT ![n] = to]
      PROVE  ClosedIsTheLastWord'
    <2>1. Added' = Added
        BY <1>7 DEF Added
    <2>2. \A k \in Slot : worker[k] \in Ended \/ k \notin Added => worker'[k] = worker[k]
        BY <1>t, <1>7 DEF Shapes
    <2>3. joined \subseteq Slot
        BY <1>t DEF Shapes
    <2> QED
        BY <1>t, <1>e, <1>7, <2>1, <2>2, <2>3 DEF ClosedIsTheLastWord
<1>8. ASSUME NEW n \in Added, TakeClosed(n) \/ Join(n)
      PROVE  ClosedIsTheLastWord'
    BY <1>2, <1>3, <1>8
<1> QED
    BY <1>t, <1>1, <1>3, <1>5, <1>6, <1>7, <1>8, StepsInBrief

(* What removes an entry has been joined first, or says Closed: then it    *)
(* had the entry itself, or an older interface of the address was joined.  *)
LEMMA UnreadStep ==
    ASSUME IInv, Next
    PROVE  UnreadKeepsItsEntry'
<1>t. TypeOK /\ Shapes /\ RingsFit /\ ClosedIsTheLastWord /\ EntriesAreOfTheYoungest
      /\ UnreadKeepsItsEntry /\ Added \subseteq Slot
    BY TypeIsShapesAndRings, AddedIsSlots DEF IInv
<1>n. \A n \in Added : n \in Nat
    BY <1>t DEF Slot
<1>e. "none" \notin Ended
    BY DEF Ended
<1>k. ASSUME UNCHANGED <<interfaces, macs, joined>>,
             \A n \in Added : worker'[n] \notin Ended \/ ClosedInRing(n)' =>
                                worker[n] \notin Ended \/ ClosedInRing(n)
      PROVE  UnreadKeepsItsEntry'
    BY <1>t, <1>k DEF UnreadKeepsItsEntry, HasEntry, Added
<1>1. ASSUME NEW mac \in Mac, Add(mac)
      PROVE  UnreadKeepsItsEntry'
    <2>1. PICK n : n = Len(macs) + 1
        OBVIOUS
    <2>2. /\ n \in Slot /\ n \notin Added /\ Added' = Added \cup {n}
          /\ macs'[n] = mac /\ \A k \in Added : macs'[k] = macs[k] /\ k < n
          /\ mac \notin DOMAIN interfaces
          /\ DOMAIN interfaces' = DOMAIN interfaces \cup {mac} /\ interfaces'[mac] = n
          /\ \A m \in DOMAIN interfaces : interfaces'[m] = interfaces[m]
          /\ worker' = [worker EXCEPT ![n] = "control"]
        BY <1>t, <1>1, <2>1, AddTakesTheNextSlot
    <2>3. UNCHANGED <<outbound, joined>> /\ joined \subseteq Added
        BY <1>t, <1>1 DEF Add, Shapes
    <2>4. HasEntry(n)'
        BY <2>2 DEF HasEntry
    <2>5. ASSUME NEW k \in Added, worker'[k] \notin Ended \/ ClosedInRing(k)'
          PROVE  HasEntry(k)' \/ \E j \in joined' : j <= k /\ macs'[j] = macs'[k]
        <3>1. worker'[k] = worker[k] /\ (ClosedInRing(k)' <=> ClosedInRing(k))
            BY <1>t, <2>2, <2>3 DEF ClosedInRing, Shapes
        <3>2. HasEntry(k) \/ \E j \in joined : j <= k /\ macs[j] = macs[k]
            BY <1>t, <2>5, <3>1 DEF UnreadKeepsItsEntry
        <3>3. HasEntry(k) => HasEntry(k)'
            BY <2>2 DEF HasEntry
        <3> QED
            BY <2>2, <2>3, <3>2, <3>3
    <2> QED
        BY <2>2, <2>4, <2>5 DEF UnreadKeepsItsEntry
<1>2. ASSUME NEW n \in Added, Join(n)
      PROVE  UnreadKeepsItsEntry'
    <2>1. UNCHANGED <<macs, outbound, worker>> /\ joined' = joined \cup {n} /\ Added' = Added
        BY <1>2 DEF Join, Added
    <2>2. ASSUME NEW k \in Added, worker'[k] \notin Ended \/ ClosedInRing(k)'
          PROVE  HasEntry(k)' \/ \E j \in joined' : j <= k /\ macs'[j] = macs'[k]
        <3>1. worker[k] \notin Ended \/ ClosedInRing(k)
            BY <2>1, <2>2 DEF ClosedInRing
        <3>2. HasEntry(k) \/ \E j \in joined : j <= k /\ macs[j] = macs[k]
            BY <1>t, <3>1 DEF UnreadKeepsItsEntry
        <3>3. CASE HasEntry(k) /\ k # n
            BY <1>2, <2>1, <3>3, JoinTakesEntriesAway DEF HasEntry
        <3>4. CASE k = n
            BY <1>n, <2>1, <3>4
        <3> QED
            BY <2>1, <3>2, <3>3, <3>4
    <2> QED
        BY <2>1, <2>2 DEF UnreadKeepsItsEntry
<1>3. ASSUME NEW n \in Added, TakeClosed(n)
      PROVE  UnreadKeepsItsEntry'
    <2>1. UNCHANGED <<macs, worker, joined>> /\ Added' = Added
          /\ outbound[n] # <<>> /\ Head(outbound[n]) = "closed"
          /\ outbound' = [outbound EXCEPT ![n] = Tail(@)]
        BY <1>3 DEF TakeClosed, Added
    <2>2. outbound[n] \in Ring /\ Len(outbound[n]) \in Nat \ {0}
          /\ outbound[n][1] = "closed" /\ 1 \in 1 .. Len(outbound[n])
        <3>1. outbound[n] \in Ring
            BY <1>t DEF RingsFit
        <3>2. Len(outbound[n]) \in Nat \ {0}
            BY <2>1, <3>1, EmptySeq DEF Ring
        <3> QED
            BY <2>1, <3>1, <3>2
    <2>3. worker[n] \in Ended /\ Len(outbound[n]) = 1 /\ ClosedInRing(n)
        BY <1>t, <2>2 DEF ClosedIsTheLastWord, ClosedInRing
    <2>4. ~ClosedInRing(n)'
        <3>1. outbound'[n] = Tail(outbound[n]) /\ Len(Tail(outbound[n])) = 0
            BY <1>t, <2>1, <2>2, <2>3, HeadTailProperties DEF RingsFit, Ring
        <3> QED
            BY <3>1 DEF ClosedInRing
    <2>5. ASSUME NEW k \in Added, worker'[k] \notin Ended \/ ClosedInRing(k)'
          PROVE  HasEntry(k)' \/ \E j \in joined' : j <= k /\ macs'[j] = macs'[k]
        <3>1. k # n
            BY <1>e, <2>1, <2>3, <2>4, <2>5
        <3>2. worker[k] \notin Ended \/ ClosedInRing(k)
            <4>1. outbound'[k] = outbound[k]
                BY <1>t, <2>1, <3>1 DEF RingsFit
            <4> QED
                BY <2>1, <2>5, <4>1 DEF ClosedInRing
        <3>3. HasEntry(k) \/ \E j \in joined : j <= k /\ macs[j] = macs[k]
            BY <1>t, <3>2 DEF UnreadKeepsItsEntry
        <3>4. CASE HasEntry(k) /\ macs[k] # macs[n]
            BY <1>3, <2>1, <3>4, ClosedTakesTheEntryAway DEF HasEntry
        <3>5. CASE HasEntry(k) /\ macs[k] = macs[n]
            <4>1. ~HasEntry(n)
                BY <3>1, <3>5 DEF HasEntry
            <4>2. PICK j \in joined : j <= n /\ macs[j] = macs[n]
                BY <1>t, <2>3, <4>1 DEF UnreadKeepsItsEntry
            <4>3. n <= k
                BY <1>t, <3>5 DEF EntriesAreOfTheYoungest, HasEntry
            <4>4. j \in Nat /\ n \in Nat /\ k \in Nat
                BY <1>n, <1>t DEF Shapes
            <4>5. j <= k
                BY <4>2, <4>3, <4>4
            <4> QED
                BY <2>1, <3>5, <4>2, <4>5
        <3> QED
            BY <2>1, <3>3, <3>4, <3>5
    <2> QED
        BY <2>1, <2>5 DEF UnreadKeepsItsEntry
<1>4. ASSUME NEW n \in Added, TakePacket(n)
      PROVE  UnreadKeepsItsEntry'
    <2>1. UNCHANGED <<interfaces, macs, worker, joined>> /\ outbound[n] # <<>>
          /\ outbound' = [outbound EXCEPT ![n] = Tail(@)]
        BY <1>4 DEF TakePacket
    <2>2. outbound'[n] = Tail(outbound[n])
          /\ \A k \in Slot \ {n} : outbound'[k] = outbound[k]
        BY <1>t, <2>1 DEF RingsFit
    <2>3. ClosedInRing(n)' => ClosedInRing(n)
        <3>1. outbound[n] \in Ring
            BY <1>t DEF RingsFit
        <3>2. /\ Len(outbound[n]) \in Nat /\ Len(Tail(outbound[n])) = Len(outbound[n]) - 1
              /\ \A i \in 1 .. Len(outbound[n]) - 1 : Tail(outbound[n])[i] = outbound[n][i + 1]
            BY <2>1, <3>1, HeadTailProperties, LenProperties DEF Ring
        <3>3. \A i \in 1 .. Len(outbound[n]) - 1 : i + 1 \in 1 .. Len(outbound[n])
            BY <3>2
        <3> QED
            BY <2>2, <3>2, <3>3 DEF ClosedInRing
    <2>4. \A k \in Added \ {n} : ClosedInRing(k)' <=> ClosedInRing(k)
        BY <1>t, <2>2 DEF ClosedInRing
    <2> QED
        BY <1>k, <2>1, <2>3, <2>4
<1>5. ASSUME NEW n \in Added, worker[n] \notin Ended, UNCHANGED <<interfaces, macs, joined>>,
             \A k \in Added \ {n} : worker'[k] = worker[k] /\ outbound'[k] = outbound[k]
      PROVE  UnreadKeepsItsEntry'
    BY <1>k, <1>5 DEF ClosedInRing
<1>6. ASSUME NEW n \in Added, SendPacket(n) \/ SendClosed(n)
      PROVE  UnreadKeepsItsEntry'
    <2>1. /\ worker[n] \notin Ended /\ UNCHANGED <<interfaces, macs, joined>>
          /\ worker' = worker \/ \E end \in Ended : worker' = [worker EXCEPT ![n] = end]
          /\ \/ outbound' = outbound
             \/ \E what : outbound' = [outbound EXCEPT ![n] = Append(@, what)]
        BY <1>6 DEF SendPacket, SendClosed, Goes, Ended
    <2>2. \A k \in Added \ {n} : worker'[k] = worker[k] /\ outbound'[k] = outbound[k]
        BY <1>t, <2>1 DEF Shapes, RingsFit
    <2> QED
        BY <1>5, <2>1, <2>2
<1>7. ASSUME UNCHANGED <<interfaces, macs, outbound, joined>>,
             \/ worker' = worker
             \/ \E n \in Added : /\ worker[n] \notin Ended
                                 /\ \E to : worker' = [worker EXCEPT ![n] = to]
      PROVE  UnreadKeepsItsEntry'
    <2>1. CASE worker' = worker
        BY <1>k, <1>7, <2>1 DEF ClosedInRing
    <2>2. CASE worker' # worker
        <3>1. PICK n \in Added : /\ worker[n] \notin Ended
                                 /\ \E to : worker' = [worker EXCEPT ![n] = to]
            BY <1>7, <2>2
        <3>2. \A k \in Added \ {n} : worker'[k] = worker[k]
            BY <1>t, <3>1 DEF Shapes
        <3> QED
            BY <1>5, <1>7, <3>1, <3>2
    <2> QED
        BY <2>1, <2>2
<1> QED
    BY <1>t, <1>1, <1>2, <1>3, <1>4, <1>6, <1>7, StepsInBrief

-----------------------------------------------------------------------------
(* The theorems *)

LEMMA InitInvariant == Init => IInv
<1> SUFFICES ASSUME Init PROVE IInv
    OBVIOUS
<1>1. macs = <<>> /\ interfaces = <<>> /\ Added = {} /\ DOMAIN interfaces = {}
      /\ Len(macs) = 0 /\ macs \in Seq(Mac)
    BY EmptySeq DEF Init, Added
<1>2. Slots \in Nat
    BY LifecycleAssumption DEF LifecycleAssumption
<1>3. Shapes
    BY <1>1, <1>2, Bounds DEF Init, Shapes, WorkerPlace
<1>4. RingsFit /\ \A n \in Slot : Len(outbound[n]) = 0
    BY EmptySeq, Bounds DEF Init, RingsFit, Ring
<1>5. ClosedIsTheLastWord
    BY <1>1, <1>4 DEF ClosedIsTheLastWord, Init
<1> QED
    BY <1>1, <1>3, <1>4, <1>5, TypeIsShapesAndRings
       DEF IInv, FramesAreAnnounced, EntriesAreOfTheYoungest, UnreadKeepsItsEntry

LEMMA NextInvariant == IInv /\ [Next]_vars => IInv'
<1>1. ASSUME IInv, Next PROVE IInv'
    <2>1. TypeOK'
        BY <1>1, ShapesStep, RingsStep, TypeIsShapesAndRings DEF IInv
    <2> QED
        BY <1>1, <2>1, FramesStep, EntriesStep, ClosedStep, UnreadStep DEF IInv
<1>2. ASSUME IInv, UNCHANGED vars PROVE IInv'
    <2>1. TypeOK'
        BY <1>2 DEF IInv, TypeOK, Added, Entries
    <2>2. FramesAreAnnounced' /\ EntriesAreOfTheYoungest' /\ ClosedIsTheLastWord'
        BY <1>2
           DEF IInv, FramesAreAnnounced, EntriesAreOfTheYoungest, ClosedIsTheLastWord, Added
    <2>3. UnreadKeepsItsEntry'
        BY <1>2 DEF IInv, UnreadKeepsItsEntry, HasEntry, ClosedInRing, Added
    <2> QED
        BY <2>1, <2>2, <2>3 DEF IInv
<1> QED
    BY <1>1, <1>2

(* The invariant holds in every state of the network and its workers.      *)
THEOREM Invariance == SafeSpec => []IInv
BY InitInvariant, NextInvariant, PTL DEF SafeSpec

(* Every ring stays within its size, and every entry leads to an interface *)
(* that was added.                                                         *)
THEOREM TypeCorrect == SafeSpec => []TypeOK
<1>1. IInv => TypeOK
    BY DEF IInv
<1> QED
    BY <1>1, Invariance, PTL

(* A frame for a living interface gets to its worker, which does not sleep *)
(* on it: the entry of a living interface is its own unless an older one   *)
(* of the same address was joined.                                         *)
THEOREM LivingGetTheirFrames == SafeSpec => []FramesFindTheLiving
<1>1. ASSUME IInv PROVE FramesFindTheLiving
    <2>1. WorkerSleepsOnNoFrame
        BY <1>1 DEF IInv, FramesAreAnnounced, WorkerSleepsOnNoFrame
    <2>2. ASSUME NEW n \in Added, worker[n] \notin Ended
          PROVE  \/ macs[n] \in DOMAIN interfaces /\ interfaces[macs[n]] = n
                 \/ \E k \in joined : k < n /\ macs[k] = macs[n]
        <3>1. HasEntry(n) \/ \E k \in joined : k <= n /\ macs[k] = macs[n]
            BY <1>1, <2>2 DEF IInv, UnreadKeepsItsEntry
        <3>2. \A k \in joined : k # n /\ k \in Nat /\ n \in Nat
            <4>1. joined \subseteq Added /\ Added \subseteq Slot
                BY <1>1, AddedIsSlots DEF IInv, TypeOK
            <4> QED
                BY <1>1, <2>2, <4>1 DEF IInv, ClosedIsTheLastWord, Slot
        <3> QED
            BY <3>1, <3>2 DEF HasEntry
    <2> QED
        BY <2>1, <2>2 DEF FramesFindTheLiving, LiveKeepsItsEntry
<1> QED
    BY <1>1, Invariance, PTL
=============================================================================
