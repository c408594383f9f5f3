-------------------------- MODULE UdpSocket_proofs --------------------------
(***************************************************************************)
(* For any sources, capacities, pool and numbers of calls: nobody sleeps   *)
(* on work that is there, every buffer is accounted for, and a blocking    *)
(* send returns what became of its own datagram.                           *)
(***************************************************************************)
EXTENDS UdpSocket, SequenceTheorems, FiniteSetTheorems, TLAPS

-----------------------------------------------------------------------------
(* The messages of a ring *)

Elements(s) == {s[i] : i \in 1 .. Len(s)}
Flying(s) == {i \in 1 .. Len(s) : s[i].kind = "data"}
Held(m) == IF m.kind = "data" THEN 1 ELSE 0

(* A push puts the message after the others.                               *)
LEMMA AppendToRing ==
    ASSUME NEW S, NEW s \in Seq(S), NEW m \in S
    PROVE  /\ Append(s, m) \in Seq(S)
           /\ Len(s) \in Nat /\ Len(Append(s, m)) = Len(s) + 1
           /\ \A i \in 1 .. Len(s) : Append(s, m)[i] = s[i]
           /\ Append(s, m)[Len(s) + 1] = m
           /\ Append(s, m) # <<>>
           /\ Elements(Append(s, m)) = Elements(s) \cup {m}
<1>1. /\ Append(s, m) \in Seq(S)
      /\ Len(s) \in Nat /\ Len(Append(s, m)) = Len(s) + 1
      /\ \A i \in 1 .. Len(s) : Append(s, m)[i] = s[i]
      /\ Append(s, m)[Len(s) + 1] = m
    BY AppendProperties, LenProperties
<1>2. Append(s, m) # <<>>
    BY <1>1, EmptySeq
<1>3. \A i \in 1 .. Len(s) + 1 : i \in 1 .. Len(s) \/ i = Len(s) + 1
    BY <1>1
<1>4. Elements(Append(s, m)) = Elements(s) \cup {m}
    BY <1>1, <1>3 DEF Elements
<1> QED
    BY <1>1, <1>2, <1>4

(* A pop takes the first one, and the others keep their order.             *)
LEMMA TailOfRing ==
    ASSUME NEW S, NEW s \in Seq(S), s # <<>>
    PROVE  /\ Head(s) \in S /\ Head(s) = s[1] /\ Tail(s) \in Seq(S)
           /\ Len(s) \in Nat /\ Len(s) >= 1 /\ Len(Tail(s)) = Len(s) - 1
           /\ \A i \in 1 .. Len(s) - 1 : Tail(s)[i] = s[i + 1]
           /\ Elements(s) = Elements(Tail(s)) \cup {Head(s)}
<1>1. /\ Head(s) \in S /\ Tail(s) \in Seq(S)
      /\ Len(Tail(s)) = Len(s) - 1
      /\ \A i \in 1 .. Len(Tail(s)) : Tail(s)[i] = s[i + 1]
    BY HeadTailProperties
<1>2. Len(s) \in Nat /\ Len(s) >= 1
    BY EmptySeq
<1>3. Head(s) = s[1]
    OBVIOUS
<1>4. \A i \in 1 .. Len(s) - 1 : Tail(s)[i] = s[i + 1] /\ i + 1 \in 1 .. Len(s)
    BY <1>1, <1>2
<1>5. \A i \in 1 .. Len(s) : i = 1 \/ (i - 1 \in 1 .. Len(s) - 1 /\ s[i] = Tail(s)[i - 1])
    BY <1>2, <1>4
<1>6. Elements(s) = Elements(Tail(s)) \cup {Head(s)}
    <2>1. Elements(s) \subseteq Elements(Tail(s)) \cup {Head(s)}
        BY <1>1, <1>3, <1>5 DEF Elements
    <2>2. Elements(Tail(s)) \cup {Head(s)} \subseteq Elements(s)
        BY <1>1, <1>2, <1>3, <1>4 DEF Elements
    <2> QED
        BY <2>1, <2>2
<1> QED
    BY <1>1, <1>2, <1>3, <1>4, <1>6

(* The datagrams of a ring are counted one by one.                         *)
LEMMA FlyingIsFinite ==
    ASSUME NEW S, NEW s \in Seq(S)
    PROVE  IsFiniteSet(Flying(s)) /\ Cardinality(Flying(s)) \in Nat
<1>1. IsFiniteSet(1 .. Len(s))
    BY LenProperties, FS_Interval
<1>2. Flying(s) \in SUBSET (1 .. Len(s))
    BY DEF Flying
<1> QED
    BY <1>1, <1>2, FS_Subset, FS_CardinalityType

LEMMA FlyingAfterAppend ==
    ASSUME NEW S, NEW s \in Seq(S), NEW m \in S
    PROVE  Cardinality(Flying(Append(s, m))) = Cardinality(Flying(s)) + Held(m)
<1>1. CASE m.kind = "data"
    <2>1. Flying(Append(s, m)) = Flying(s) \cup {Len(s) + 1}
        BY <1>1, AppendToRing DEF Flying
    <2>2. Len(s) + 1 \notin Flying(s)
        BY LenProperties DEF Flying
    <2> QED
        BY <1>1, <2>1, <2>2, FlyingIsFinite, FS_AddElement DEF Held
<1>2. CASE m.kind # "data"
    <2>1. Flying(Append(s, m)) = Flying(s)
        BY <1>2, AppendToRing DEF Flying
    <2> QED
        BY <1>2, <2>1, FlyingIsFinite DEF Held
<1> QED
    BY <1>1, <1>2

LEMMA FlyingAfterTail ==
    ASSUME NEW S, NEW s \in Seq(S), s # <<>>
    PROVE  Cardinality(Flying(s)) = Cardinality(Flying(Tail(s))) + Held(Head(s))
<1> DEFINE rest == Flying(s) \ {1}
           shift == [i \in Flying(Tail(s)) |-> i + 1]
<1>1. /\ Head(s) = s[1] /\ Tail(s) \in Seq(S)
      /\ Len(s) \in Nat /\ Len(s) >= 1 /\ Len(Tail(s)) = Len(s) - 1
      /\ \A i \in 1 .. Len(s) - 1 : Tail(s)[i] = s[i + 1]
    BY TailOfRing
<1>2. \A i \in Flying(Tail(s)) : i \in Nat /\ i + 1 \in rest
    BY <1>1 DEF Flying
<1>3. \A j \in rest : j - 1 \in Flying(Tail(s)) /\ (j - 1) + 1 = j
    <2> SUFFICES ASSUME NEW j \in rest
                 PROVE  j - 1 \in Flying(Tail(s)) /\ (j - 1) + 1 = j
        OBVIOUS
    <2>1. j \in 2 .. Len(s) /\ s[j].kind = "data"
        BY <1>1 DEF Flying
    <2>2. j - 1 \in 1 .. Len(s) - 1 /\ (j - 1) + 1 = j
        BY <1>1, <2>1
    <2>3. Tail(s)[j - 1] = s[j]
        BY <1>1, <2>2
    <2> QED
        BY <1>1, <2>1, <2>2, <2>3 DEF Flying
<1>4. shift \in Bijection(Flying(Tail(s)), rest)
    <2>1. shift \in Injection(Flying(Tail(s)), rest)
        BY <1>2 DEF Injection, IsInjective
    <2>2. shift \in Surjection(Flying(Tail(s)), rest)
        BY <1>2, <1>3 DEF Surjection
    <2> QED
        BY <2>1, <2>2 DEF Bijection
<1>5. ExistsBijection(Flying(Tail(s)), rest)
    BY <1>4 DEF ExistsBijection
<1>6. Cardinality(rest) = Cardinality(Flying(Tail(s)))
    BY <1>1, <1>5, FlyingIsFinite, FS_Bijection
<1>7. Cardinality(rest) =
         IF 1 \in Flying(s) THEN Cardinality(Flying(s)) - 1 ELSE Cardinality(Flying(s))
    <2>1. IsFiniteSet(Flying(s))
        BY FlyingIsFinite
    <2> QED
        BY <2>1, FS_RemoveElement
<1>8. 1 \in Flying(s) <=> Head(s).kind = "data"
    BY <1>1 DEF Flying
<1> HIDE DEF rest
<1> QED
    BY <1>1, <1>6, <1>7, <1>8, FlyingIsFinite DEF Held

-----------------------------------------------------------------------------
(* The inductive invariant *)

(* The call the user thread is in, from the push of its message on.        *)
CallTo(then) == user \in {"mark", "unpark"} /\ next = then
Sending == user \in {"await_result", "park_result"} \/ CallTo("await_result")
Reading == user \in {"await_packet", "park_packet"} \/ CallTo("await_packet")
Connecting == user = "await_connect" \/ CallTo("await_connect")
Leaving == user = "dropped" \/ CallTo("dropped")

Queued == Elements(sendRing)

(* What is in the ring is announced by the bit, or about to be; what the   *)
(* bit announces is followed by the token, or about to be seen anyway.     *)
WorkIsAnnounced ==
    /\ sendRing # <<>> =>
          user = "mark" \/ ready \/ worker \in {"drain", "handle", "unpark_sender"}
    /\ ready =>
          \/ user = "unpark" \/ workerToken
          \/ worker \in {"control", "recv", "wake_reader", "swap", "stopped"}
    /\ message # Nothing => worker = "handle"

(* A Drop is the last message, and nothing follows the end of the socket.  *)
DropIsLast ==
    /\ \A i \in 1 .. Len(sendRing) :
          sendRing[i] = DropSocket => i = Len(sendRing) /\ Leaving
    /\ ~bound => sendRing = <<>> /\ Leaving
    /\ worker \in {"drain", "handle", "unpark_sender"} => bound

(* The blocking send that is going on has its datagram with the worker, or *)
(* a result in the word, and is unparked after it.                         *)
SenderIsAnswered ==
    Sending =>
        \/ Data(sends, TRUE) \in Queued \cup {message}
        \/ /\ result # NoResult
           /\ user = "park_result" => userToken \/ worker = "unpark_sender"

(* The blocking receive that is going on has its handle with the worker or *)
(* registered, and then every packet in the ring has been announced.       *)
ReaderIsWoken ==
    Reading =>
        \/ RegisterRead \in Queued \cup {message}
        \/ /\ waking
           /\ user = "park_packet" /\ recvRing # <<>> =>
                 userToken \/ worker = "wake_reader"

(* A caller of connect has its answer, or its message is with the worker.  *)
ConnectorIsAnswered ==
    Connecting => connectReply # "empty" \/ Connect \in Queued \cup {message}

(* Every datagram with the worker is one of its own, and has no outcome.   *)
NumbersAreFresh ==
    /\ \A m \in Queued \cup {message} :
          m.kind = "data" => m.datagram <= sends /\ outcome[m.datagram] = "none"
    /\ \A i, j \in 1 .. Len(sendRing) :
          /\ sendRing[i].kind = "data" /\ sendRing[j].kind = "data"
          /\ sendRing[i].datagram = sendRing[j].datagram
          => i = j
    /\ \A m \in Queued :
          m.kind = "data" /\ message.kind = "data" => m.datagram # message.datagram
    /\ \A n \in Datagram : n > sends => outcome[n] = "none"

(* Until the error of a nonblocking datagram is stored, what is in the word *)
(* and what blocks with the worker belong to the call that is going on.    *)
ResultIsOfThisCall ==
    reported = {} =>
        /\ \A m \in Queued \cup {message} :
              m.kind = "data" /\ m.blocking =>
                  m.datagram = sends /\ Sending /\ result = NoResult
        /\ result # NoResult =>
              result.of = sends /\ Sending /\ outcome[sends] = result.is
        /\ returned.of # 0 =>
              outcome[returned.of] = returned.call /\ returned.call \in Outcome

IInv ==
    /\ TypeOK /\ BuffersAreConserved
    /\ WorkIsAnnounced /\ DropIsLast
    /\ SenderIsAnswered /\ ReaderIsWoken /\ ConnectorIsAnswered
    /\ NumbersAreFresh /\ ResultIsOfThisCall

USE DEF vars, userVars, workerVars, fate, PopMessageLeaving

(* The kinds of messages, told apart.                                      *)
LEMMA Kinds ==
    /\ \A n \in Datagram, b \in BOOLEAN :
          /\ Data(n, b) \in Message /\ Data(n, b).kind = "data"
          /\ Data(n, b).datagram = n /\ Data(n, b).blocking = b
    /\ \A m \in Message : m.kind = "data" =>
          /\ m.datagram \in Datagram /\ m.blocking \in BOOLEAN
          /\ m = Data(m.datagram, m.blocking)
    /\ \A m \in {Nothing, RegisterRead, Connect, DropSocket} :
          m \in Message /\ m.kind # "data"
    /\ RegisterRead # Nothing /\ Connect # Nothing /\ DropSocket # Nothing
    /\ RegisterRead # DropSocket /\ Connect # DropSocket /\ RegisterRead # Connect
    /\ RegisterRead.kind = "read_handle"
<1>1. Nothing.kind = "nothing" /\ RegisterRead.kind = "read_handle"
      /\ Connect.kind = "connect" /\ DropSocket.kind = "drop"
    BY DEF Nothing, RegisterRead, Connect, DropSocket
<1>2. \A n \in Datagram, b \in BOOLEAN :
          /\ Data(n, b) \in Message /\ Data(n, b).kind = "data"
          /\ Data(n, b).datagram = n /\ Data(n, b).blocking = b
    BY DEF Data, Message
<1>3. \A m \in Message : m.kind = "data" =>
          \E n \in Datagram, b \in BOOLEAN : m = Data(n, b)
    BY <1>1 DEF Message
<1> QED
    BY <1>1, <1>2, <1>3 DEF Message

-----------------------------------------------------------------------------
(* The shapes of the state, and the buffers *)

(* The bounds are naturals.                                                *)
LEMMA Bounds ==
    /\ PoolSize \in Nat /\ SendCapacity \in Nat /\ RecvCapacity \in Nat
    /\ MaxSends \in Nat /\ MaxRecvs \in Nat /\ MaxControls \in Nat
    /\ Peer \in Source /\ Modes \subseteq {"blocking", "nonblocking"}
BY UdpSocketAssumption DEF UdpSocketAssumption

(* TypeOK in two parts: the flags are for one prover, the rest for another. *)
Flags ==
    /\ userToken \in BOOLEAN /\ workerToken \in BOOLEAN
    /\ ready \in BOOLEAN /\ bound \in BOOLEAN /\ waking \in BOOLEAN /\ peer \in BOOLEAN

Shapes ==
    /\ user \in {"idle", "mark", "unpark", "await_result", "park_result", "await_packet",
                 "park_packet", "await_connect", "dropped", "leaked"}
    /\ next \in {"idle", "await_result", "await_packet", "await_connect", "dropped"}
    /\ mode \in {"blocking", "nonblocking"}
    /\ returned.of \in 0 .. MaxSends /\ returned.source \in Source
    /\ sends \in 0 .. MaxSends /\ controls \in 0 .. MaxControls /\ recvs \in 0 .. MaxRecvs
    /\ sendRing \in Seq(Message) /\ Len(sendRing) <= SendCapacity
    /\ recvRing \in Seq(Source) /\ Len(recvRing) <= RecvCapacity
    /\ pool \in 0 .. PoolSize
    /\ result \in {NoResult} \cup [of : Datagram, is : Outcome]
    /\ worker \in {"control", "recv", "wake_reader", "swap", "drain", "handle",
                   "unpark_sender", "park", "stopped"}
    /\ message \in Message
    /\ connectReply \in {"empty", "connected", "net_unreachable"}
    /\ outcome \in [Datagram -> {"none"} \cup Outcome]
    /\ reported \subseteq Datagram

LEMMA TypeIsFlagsAndShapes == TypeOK <=> Flags /\ Shapes
BY Zenon DEF TypeOK, Flags, Shapes

LEMMA FlagsStep ==
    ASSUME Flags, Next
    PROVE  Flags'
<1>1. CASE Call
    BY <1>1, Zenon
       DEF Call, Flags, SetNonblocking, ReportError, SendTo, SendRefused, RecvFrom,
           RecvWouldBlock, RecvRegisters, RecvRefused, CallConnect, DropPushed, DropLost
<1>2. CASE CallStep
    BY <1>2, Zenon
       DEF CallStep, Flags, MarkReady, UnparkWorker, TakeResult, TakeResultLeaving,
           NoResultYet, TakePacket, NoPacketYet, Unparked, ConnectReturns
<1>3. CASE WorkerStep \/ WorkerTimesOut \/ StopWorker
    <2>1. CASE Drain
        BY <2>1, Zenon
           DEF Drain, Flags, PopMessage, DrainEmpty, HandleNonblocking, HandleBlocking,
               UnparkSender, HandleReadHandle, HandleConnect, WakesAtOnce
    <2>2. CASE ~Drain
        BY <1>3, <2>2, Zenon
           DEF WorkerStep, Flags, EndControl, WakeReader, EndRecv, SwapReady,
               WorkerUnparked, WorkerTimesOut, StopWorker
    <2> QED
        BY <2>1, <2>2
<1>4. CASE \E source \in Source : Deliver(source) \/ LosePacket(source)
    BY <1>4, Zenon DEF Flags, Deliver, LosePacket
<1> QED
    BY <1>1, <1>2, <1>3, <1>4 DEF Next

(* The pool is never above its size because no buffer is counted twice.    *)
LEMMA ShapesStep ==
    ASSUME IInv, Next
    PROVE  Shapes'
<1>t. Shapes
    BY TypeIsFlagsAndShapes DEF IInv
<1>0. ASSUME NEW m \in Message, NEW then, StartPush(m, then)
      PROVE  sendRing' \in Seq(Message) /\ Len(sendRing') <= SendCapacity
    BY <1>0, <1>t, Bounds, AppendToRing DEF Shapes, StartPush, SendRingHasRoom
<1>a. Answered("none").of \in 0 .. MaxSends /\ Answered("none").source \in Source
      /\ \A w : Answered(w).of \in 0 .. MaxSends /\ Answered(w).source \in Source
    BY Bounds DEF Answered
<1>1. CASE RecvRefused \/ DropLost \/ NoResultYet \/ NoPacketYet
    BY <1>t, <1>a, <1>1 DEF Shapes, RecvRefused, DropLost, NoResultYet, NoPacketYet
<1>14. CASE SetNonblocking
    <2>1. mode' \in {"blocking", "nonblocking"}
        BY <1>14, Bounds DEF SetNonblocking
    <2> QED
        BY <1>t, <1>14, <2>1 DEF Shapes, SetNonblocking
<1>2. CASE MarkReady \/ UnparkWorker \/ Unparked \/ ConnectReturns
    BY <1>t, <1>a, <1>2 DEF Shapes, MarkReady, UnparkWorker, Unparked, ConnectReturns
<1>3. CASE ReportError \/ TakeResult
    <2>1. result \in [of : Datagram, is : Outcome]
        BY <1>t, <1>3
           DEF Shapes, ReportError, TakeResult, TakeResultLeaving, ReportedKinds, NoResult
    <2>2. result.of \in 0 .. MaxSends /\ sends \in 0 .. MaxSends
        BY <1>t, <2>1 DEF Shapes, Datagram
    <2>3. returned'.of \in 0 .. MaxSends /\ returned'.source \in Source
        BY <1>3, <2>2, Bounds DEF ReportError, TakeResult, TakeResultLeaving, AnsweredSend
    <2>4. result' = NoResult
        BY <1>3 DEF ReportError, TakeResult, TakeResultLeaving
    <2> QED
        BY <1>t, <1>3, <2>3, <2>4 DEF Shapes, ReportError, TakeResult, TakeResultLeaving
<1>4. CASE SendRefused \/ RecvWouldBlock
    BY <1>t, <1>a, <1>4 DEF Shapes, SendRefused, RecvWouldBlock, PassesErrorCheck
<1>5. CASE RecvFrom \/ TakePacket
    <2>1. recvRing # <<>> /\ recvRing \in Seq(Source) /\ Len(recvRing) <= RecvCapacity
        BY <1>t, <1>5 DEF RecvFrom, TakePacket, Shapes
    <2>2. Head(recvRing) \in Source /\ Tail(recvRing) \in Seq(Source)
          /\ Len(Tail(recvRing)) <= RecvCapacity
        BY <2>1, TailOfRing, Bounds
    <2>3. returned'.of \in 0 .. MaxSends /\ returned'.source \in Source
        BY <1>5, <2>2, Bounds DEF RecvFrom, TakePacket, PopPacket, AnsweredRecv
    <2>4. result' \in {result, NoResult}
        BY <1>5 DEF RecvFrom, TakePacket, PassesErrorCheck
    <2> QED
        BY <1>t, <1>5, <2>2, <2>3, <2>4 DEF Shapes, RecvFrom, TakePacket, PopPacket
<1>6. CASE SendTo
    <2>1. sends + 1 \in Datagram /\ sends + 1 \in 0 .. MaxSends
        BY <1>t, <1>6, Bounds DEF SendTo, Shapes, Datagram
    <2>2. (mode = "blocking") \in BOOLEAN
        OBVIOUS
    <2>3. Data(sends + 1, mode = "blocking") \in Message
        BY <2>1, <2>2, Kinds
    <2>4. sendRing' \in Seq(Message) /\ Len(sendRing') <= SendCapacity
        BY <1>0, <1>6, <2>3 DEF SendTo
    <2>5. result' \in {result, NoResult}
        BY <1>6 DEF SendTo, PassesErrorCheck
    <2>6. pool' \in 0 .. PoolSize
        BY <1>t, <1>6, Bounds DEF Shapes, SendTo
    <2> QED
        BY <1>t, <1>a, <1>6, <2>1, <2>4, <2>5, <2>6 DEF Shapes, SendTo, StartPush
<1>7. CASE RecvRegisters \/ CallConnect \/ DropPushed
    <2>1. sendRing' \in Seq(Message) /\ Len(sendRing') <= SendCapacity
        BY <1>0, <1>7, Kinds DEF RecvRegisters, CallConnect, DropPushed
    <2>2. controls' \in 0 .. MaxControls
        BY <1>t, <1>7, Bounds DEF Shapes, RecvRegisters, CallConnect, DropPushed
    <2> QED
        BY <1>t, <1>a, <1>7, <2>1, <2>2
           DEF Shapes, RecvRegisters, CallConnect, DropPushed, StartPush
<1>8. CASE EndControl \/ StopWorker \/ WakeReader \/ EndRecv \/ SwapReady
    BY <1>t, <1>8 DEF Shapes, EndControl, StopWorker, WakeReader, EndRecv, SwapReady
<1>9. CASE DrainEmpty \/ UnparkSender \/ WorkerUnparked \/ WorkerTimesOut
    BY <1>t, <1>9
       DEF Shapes, DrainEmpty, UnparkSender, WorkerUnparked, WorkerTimesOut, AfterMessage
<1>10. CASE PopMessage
    <2>1. Head(sendRing) \in Message /\ Tail(sendRing) \in Seq(Message)
          /\ Len(Tail(sendRing)) <= SendCapacity
        BY <1>t, <1>10, TailOfRing, Bounds DEF PopMessage, Shapes
    <2> QED
        BY <1>t, <1>10, <2>1 DEF Shapes, PopMessage
<1>11. CASE HandleReadHandle \/ HandleConnect
    <2>1. Nothing \in Message
        BY Kinds
    <2> QED
        BY <1>t, <1>11, <2>1 DEF Shapes, HandleReadHandle, HandleConnect, AfterMessage
<1>12. CASE HandleNonblocking \/ HandleBlocking
    <2>1. message.kind = "data" /\ message \in Message
        BY <1>t, <1>12
           DEF HandleNonblocking, HandleBlocking, SendDatagram, SendDatagramReturning, Shapes
    <2>2. message.datagram \in Datagram /\ Nothing \in Message
        BY <2>1, Kinds
    <2>3. pool + 1 \in 0 .. PoolSize
        <3>1. pool + Cardinality(Flying(sendRing)) + Held(message) = PoolSize
            BY DEF IInv, BuffersAreConserved, Flying, Held
        <3>2. Cardinality(Flying(sendRing)) \in Nat
            BY <1>t, FlyingIsFinite DEF Shapes
        <3> QED
            BY <1>t, <2>1, <3>1, <3>2, Bounds DEF Held, Shapes
    <2>4. PICK o \in Outcome : SendDatagram(o)
             /\ result' \in {result, [of |-> message.datagram, is |-> o]}
             /\ reported' \in {reported, reported \cup {message.datagram}}
             /\ worker' \in {"drain", "unpark_sender"}
        BY <1>12 DEF HandleNonblocking, HandleBlocking, AfterMessage
    <2>5. UNCHANGED <<user, next, mode, returned, sends, controls, recvs, sendRing, recvRing,
                      connectReply>>
        BY <1>12 DEF HandleNonblocking, HandleBlocking
    <2> QED
        BY <1>t, <2>2, <2>3, <2>4, <2>5 DEF Shapes, SendDatagram, SendDatagramReturning
<1>13. ASSUME NEW source \in Source, Deliver(source) \/ LosePacket(source)
       PROVE  Shapes'
    <2>1. recvs' \in 0 .. MaxRecvs
        BY <1>t, <1>13, Bounds DEF Shapes, Deliver, LosePacket
    <2>2. recvRing' \in Seq(Source) /\ Len(recvRing') <= RecvCapacity
        <3>1. recvRing \in Seq(Source) /\ Len(recvRing) <= RecvCapacity
            BY <1>t DEF Shapes
        <3>2. Append(recvRing, source) \in Seq(Source)
              /\ Len(Append(recvRing, source)) = Len(recvRing) + 1 /\ Len(recvRing) \in Nat
            BY <3>1, AppendToRing
        <3> QED
            BY <1>13, <3>1, <3>2, Bounds DEF Deliver, LosePacket
    <2>3. worker' \in {"recv", "wake_reader"}
        BY <1>13 DEF Deliver, LosePacket
    <2> QED
        BY <1>t, <1>13, <2>1, <2>2, <2>3 DEF Shapes, Deliver, LosePacket
<1> QED
    BY <1>1, <1>2, <1>3, <1>4, <1>5, <1>6, <1>7, <1>8, <1>9, <1>10, <1>11, <1>12, <1>13, <1>14
       DEF Next, Call, CallStep, WorkerStep, Drain

(* A datagram takes its buffer along from the pool to the ring, to the     *)
(* worker's hands, and back.                                               *)
LEMMA BuffersStep ==
    ASSUME IInv, Next
    PROVE  BuffersAreConserved'
<1> DEFINE Sum == pool + Cardinality(Flying(sendRing)) + Held(message) = PoolSize
<1>t. Shapes /\ Sum /\ WorkIsAnnounced
    BY TypeIsFlagsAndShapes DEF IInv, BuffersAreConserved, Flying, Held
<1>f. Cardinality(Flying(sendRing)) \in Nat /\ pool \in Nat
    BY <1>t, FlyingIsFinite DEF Shapes
<1>k. \A m \in {Nothing, RegisterRead, Connect, DropSocket} : Held(m) = 0
    BY Kinds DEF Held
<1> SUFFICES Sum'
    BY DEF BuffersAreConserved, Flying, Held
<1>1. CASE UNCHANGED <<pool, sendRing, message>>
    BY <1>1, <1>t
<1>2. CASE SendTo
    <2>1. sends + 1 \in Datagram /\ (mode = "blocking") \in BOOLEAN
        BY <1>t, <1>2, Bounds DEF SendTo, Shapes, Datagram
    <2>2. Data(sends + 1, mode = "blocking") \in Message
          /\ Held(Data(sends + 1, mode = "blocking")) = 1
        BY <2>1, Kinds DEF Held
    <2>3. sendRing' = Append(sendRing, Data(sends + 1, mode = "blocking"))
          /\ pool' = pool - 1 /\ message' = message
        BY <1>2 DEF SendTo, StartPush
    <2>4. Cardinality(Flying(sendRing')) = Cardinality(Flying(sendRing)) + 1
        BY <1>t, <2>2, <2>3, FlyingAfterAppend DEF Shapes
    <2>5. Held(message) \in Nat
        BY DEF Held
    <2> QED
        BY <1>t, <1>f, <2>3, <2>4, <2>5
<1>3. CASE RecvRegisters \/ CallConnect \/ DropPushed
    <2>1. PICK m \in {RegisterRead, Connect, DropSocket} :
             sendRing' = Append(sendRing, m) /\ UNCHANGED <<pool, message>>
        BY <1>3 DEF RecvRegisters, CallConnect, DropPushed, StartPush
    <2>2. Cardinality(Flying(sendRing')) = Cardinality(Flying(sendRing))
        BY <1>t, <1>f, <1>k, <2>1, Kinds, FlyingAfterAppend DEF Shapes
    <2> QED
        BY <1>t, <2>1, <2>2
<1>4. CASE PopMessage
    <2>1. message = Nothing /\ Held(message) = 0
        BY <1>4, <1>t, <1>k DEF PopMessage, WorkIsAnnounced
    <2>2. Held(message') = Held(Head(sendRing))
        BY <1>4, <1>k, <2>1 DEF PopMessage
    <2>3. Cardinality(Flying(sendRing)) =
             Cardinality(Flying(sendRing')) + Held(Head(sendRing))
        BY <1>4, <1>t, FlyingAfterTail DEF PopMessage, Shapes
    <2>4. sendRing' \in Seq(Message) /\ pool' = pool
        BY <1>4, <1>t, TailOfRing DEF PopMessage, Shapes
    <2>5. Cardinality(Flying(sendRing')) \in Nat /\ Held(Head(sendRing)) \in Nat
        BY <2>4, FlyingIsFinite DEF Held
    <2> QED
        BY <1>t, <1>f, <2>1, <2>2, <2>3, <2>4, <2>5
<1>5. CASE HandleNonblocking \/ HandleBlocking
    <2>1. Held(message) = 1 /\ message' = Nothing /\ pool' = pool + 1
          /\ sendRing' = sendRing
        BY <1>5 DEF HandleNonblocking, HandleBlocking, SendDatagram, SendDatagramReturning,
                    Held
    <2> QED
        BY <1>t, <1>f, <1>k, <2>1
<1>6. CASE HandleReadHandle \/ HandleConnect
    <2>1. Held(message) = 0 /\ message' = Nothing /\ UNCHANGED <<pool, sendRing>>
        BY <1>6, <1>k DEF HandleReadHandle, HandleConnect
    <2> QED
        BY <1>t, <1>k, <2>1
<1>7. CASE SetNonblocking \/ ReportError \/ SendRefused \/ RecvFrom \/ RecvWouldBlock
           \/ RecvRefused \/ DropLost \/ CallStep
    BY <1>1, <1>7
       DEF SetNonblocking, ReportError, SendRefused, RecvFrom, RecvWouldBlock, RecvRefused,
           DropLost, CallStep, MarkReady, UnparkWorker, TakeResult, TakeResultLeaving,
           NoResultYet, TakePacket, NoPacketYet, Unparked, ConnectReturns
<1>8. CASE EndControl \/ StopWorker \/ WakeReader \/ EndRecv \/ SwapReady \/ DrainEmpty
           \/ UnparkSender \/ WorkerUnparked \/ WorkerTimesOut
           \/ \E source \in Source : Deliver(source) \/ LosePacket(source)
    BY <1>1, <1>8
       DEF EndControl, StopWorker, WakeReader, EndRecv, SwapReady, DrainEmpty, UnparkSender,
           WorkerUnparked, WorkerTimesOut, Deliver, LosePacket
<1> QED
    BY <1>2, <1>3, <1>4, <1>5, <1>6, <1>7, <1>8 DEF Next, Call, WorkerStep, Drain
-----------------------------------------------------------------------------
(* The parts of the invariant about who is told what *)

(* The calls that leave both rings, the words and the tokens alone.        *)
QuietCall ==
    \/ SetNonblocking \/ ReportError \/ SendRefused \/ RecvFrom \/ RecvWouldBlock
    \/ RecvRefused

Push == SendTo \/ RecvRegisters \/ CallConnect \/ DropPushed

Handle == HandleNonblocking \/ HandleBlocking \/ HandleReadHandle \/ HandleConnect

(* What a push, a quiet call, a handled message and a reception do to the  *)
(* variables that most parts of the invariant are about.                   *)
LEMMA StepsInBrief ==
    ASSUME IInv, Next
    PROVE  \/ /\ QuietCall
              /\ user = "idle"
              /\ UNCHANGED <<user, next, sends, controls, workerVars, userToken,
                             workerToken, sendRing, ready, connectReply>>
           \/ /\ Push
              /\ user = "idle" /\ user' = "mark"
              /\ \E m \in Message \ {Nothing} : sendRing' = Append(sendRing, m)
              /\ UNCHANGED <<workerVars, userToken, workerToken, recvRing, ready, connectReply>>
           \/ CallStep \/ DropLost
           \/ /\ Handle
              /\ worker = "handle" /\ worker' \in {"drain", "unpark_sender"}
              /\ message' = Nothing
              /\ UNCHANGED <<userVars, bound, workerToken, sendRing, recvRing, ready>>
           \/ EndControl \/ StopWorker \/ WakeReader \/ EndRecv \/ SwapReady
           \/ PopMessage \/ DrainEmpty \/ UnparkSender \/ WorkerUnparked \/ WorkerTimesOut
           \/ /\ \E source \in Source : Deliver(source) \/ LosePacket(source)
              /\ worker = "recv" /\ worker' \in {"recv", "wake_reader"}
              /\ UNCHANGED <<userVars, message, waking, peer, bound, fate, userToken,
                             workerToken, sendRing, ready, pool, result, connectReply>>
<1>t. Shapes
    BY TypeIsFlagsAndShapes DEF IInv
<1>1. CASE QuietCall
    BY <1>1
       DEF QuietCall, SetNonblocking, ReportError, SendRefused, RecvFrom, RecvWouldBlock,
           RecvRefused, PopPacket
<1>2. CASE Push
    <2>1. CASE SendTo
        <3>1. sends + 1 \in Datagram /\ (mode = "blocking") \in BOOLEAN
            BY <1>t, <2>1, Bounds DEF SendTo, Shapes, Datagram
        <3>2. Data(sends + 1, mode = "blocking") \in Message \ {Nothing}
            BY <3>1, Kinds
        <3> QED
            BY <2>1, <3>2 DEF SendTo, StartPush, Push
    <2>2. CASE RecvRegisters \/ CallConnect \/ DropPushed
        <3>1. {RegisterRead, Connect, DropSocket} \subseteq Message \ {Nothing}
            BY Kinds
        <3> QED
            BY <2>2, <3>1 DEF RecvRegisters, CallConnect, DropPushed, StartPush, Push
    <2> QED
        BY <1>2, <2>1, <2>2 DEF Push
<1>3. CASE Handle
    BY <1>3
       DEF Handle, HandleNonblocking, HandleBlocking, HandleReadHandle, HandleConnect,
           SendDatagram, SendDatagramReturning, AfterMessage
<1>4. CASE \E source \in Source : Deliver(source) \/ LosePacket(source)
    BY <1>4 DEF Deliver, LosePacket
<1> QED
    BY <1>1, <1>2, <1>3, <1>4
       DEF Next, Call, WorkerStep, Drain, QuietCall, Push, Handle

(* The bit is set after the push and swapped before the pops, and the      *)
(* unpark follows the bit.                                                 *)
LEMMA WorkStep ==
    ASSUME IInv, Next
    PROVE  WorkIsAnnounced'
<1>t. Shapes /\ WorkIsAnnounced /\ DropIsLast
    BY TypeIsFlagsAndShapes DEF IInv
<1>1. CASE UNCHANGED <<user, worker, message, workerToken, sendRing, ready>>
    BY <1>t, <1>1 DEF WorkIsAnnounced
<1>2. CASE user = "idle" /\ user' = "mark"
           /\ UNCHANGED <<workerVars, workerToken, ready>>
    BY <1>t, <1>2 DEF WorkIsAnnounced
<1>3. CASE CallStep \/ DropLost
    <2>1. CASE MarkReady \/ UnparkWorker
        BY <1>t, <2>1 DEF WorkIsAnnounced, MarkReady, UnparkWorker
    <2>2. CASE ~(MarkReady \/ UnparkWorker)
        <3>1. user \notin {"mark", "unpark"} /\ UNCHANGED <<workerVars, workerToken, sendRing,
                                                         ready>>
            BY <1>3, <2>2
               DEF CallStep, TakeResult, TakeResultLeaving, NoResultYet, TakePacket,
                   NoPacketYet, Unparked, ConnectReturns, DropLost, PopPacket
        <3> QED
            BY <1>t, <3>1 DEF WorkIsAnnounced
    <2> QED
        BY <2>1, <2>2
<1>4. CASE /\ worker = "handle" /\ worker' \in {"drain", "unpark_sender"} /\ message' = Nothing
           /\ UNCHANGED <<userVars, workerToken, sendRing, ready>>
    BY <1>t, <1>4 DEF WorkIsAnnounced
<1>5. CASE /\ worker = "recv" /\ worker' \in {"recv", "wake_reader"}
           /\ UNCHANGED <<userVars, message, workerToken, sendRing, ready>>
    BY <1>t, <1>5 DEF WorkIsAnnounced
<1>6. CASE EndControl \/ StopWorker \/ WakeReader \/ EndRecv \/ DrainEmpty \/ UnparkSender
           \/ WorkerUnparked \/ WorkerTimesOut
    BY <1>t, <1>6
       DEF WorkIsAnnounced, EndControl, StopWorker, WakeReader, EndRecv, DrainEmpty,
           UnparkSender, WorkerUnparked, WorkerTimesOut, AfterMessage
<1>7. CASE SwapReady
    BY <1>t, <1>7 DEF WorkIsAnnounced, DropIsLast, SwapReady
<1>8. CASE PopMessage
    <2>1. CASE Head(sendRing) = DropSocket
        <3>1. sendRing # <<>> /\ sendRing[1] = DropSocket /\ 1 \in 1 .. Len(sendRing)
            BY <1>t, <1>8, <2>1, TailOfRing DEF PopMessage, Shapes
        <3>2. Len(sendRing) = 1
            BY <1>t, <3>1 DEF DropIsLast
        <3>3. Tail(sendRing) = <<>>
            <4>1. sendRing \in Seq(Message)
                BY <1>t DEF Shapes
            <4>2. Tail(sendRing) \in Seq(Message) /\ Len(Tail(sendRing)) = 0
                BY <3>1, <3>2, <4>1, TailOfRing
            <4> QED
                BY <4>2, EmptySeq
        <3> QED
            BY <1>t, <1>8, <2>1, <3>3 DEF WorkIsAnnounced, PopMessage
    <2>2. CASE Head(sendRing) # DropSocket
        BY <1>t, <1>8, <2>2 DEF WorkIsAnnounced, PopMessage
    <2> QED
        BY <2>1, <2>2
<1> QED
    BY <1>1, <1>2, <1>3, <1>4, <1>5, <1>6, <1>7, <1>8, StepsInBrief

(* The user thread that has pushed a Drop calls nothing any more.          *)
LEMMA DropStep ==
    ASSUME IInv, Next
    PROVE  DropIsLast'
<1>t. Shapes /\ WorkIsAnnounced /\ DropIsLast
    BY TypeIsFlagsAndShapes DEF IInv
<1>c. ASSUME UNCHANGED <<sendRing, bound>>, Leaving => Leaving',
             worker' \in {"drain", "handle", "unpark_sender"} => bound
      PROVE  DropIsLast'
    BY <1>t, <1>c DEF DropIsLast
<1>1. CASE /\ user = "idle"
           /\ UNCHANGED <<user, next, workerVars, sendRing>>
    BY <1>t, <1>1, <1>c DEF DropIsLast, Leaving, CallTo
<1>2. CASE Push
    <2>1. user = "idle" /\ user' = "mark" /\ UNCHANGED workerVars
        BY <1>2 DEF Push, SendTo, RecvRegisters, CallConnect, DropPushed, StartPush
    <2>2. PICK m \in Message :
             sendRing' = Append(sendRing, m) /\ (m = DropSocket => next' = "dropped")
        <3>1. CASE SendTo
            <4>1. sends + 1 \in Datagram /\ (mode = "blocking") \in BOOLEAN
                BY <1>t, <3>1, Bounds DEF SendTo, Shapes, Datagram
            <4>2. Data(sends + 1, mode = "blocking") \in Message
                  /\ Data(sends + 1, mode = "blocking") # DropSocket
                BY <4>1, Kinds
            <4> QED
                BY <3>1, <4>2 DEF SendTo, StartPush
        <3>2. CASE RecvRegisters \/ CallConnect \/ DropPushed
            BY <3>2, Kinds DEF RecvRegisters, CallConnect, DropPushed, StartPush
        <3> QED
            BY <1>2, <3>1, <3>2 DEF Push
    <2>3. ~Leaving /\ bound
        BY <1>t, <2>1 DEF Leaving, CallTo, DropIsLast
    <2>4. \A i \in 1 .. Len(sendRing) : sendRing[i] # DropSocket
        BY <1>t, <2>3 DEF DropIsLast
    <2>5. ASSUME NEW i \in 1 .. Len(sendRing'), sendRing'[i] = DropSocket
          PROVE  i = Len(sendRing') /\ Leaving'
        <3>1. sendRing \in Seq(Message)
            BY <1>t DEF Shapes
        <3>2. /\ Len(sendRing) \in Nat /\ Len(sendRing') = Len(sendRing) + 1
              /\ \A k \in 1 .. Len(sendRing) : sendRing'[k] = sendRing[k]
              /\ sendRing'[Len(sendRing) + 1] = m
            BY <2>2, <3>1, AppendToRing
        <3>3. i = Len(sendRing) + 1
            BY <2>4, <2>5, <3>2
        <3>4. m = DropSocket
            BY <2>5, <3>2, <3>3
        <3> QED
            BY <2>1, <2>2, <3>2, <3>3, <3>4 DEF Leaving, CallTo
    <2> QED
        BY <2>1, <2>3, <2>5 DEF DropIsLast
<1>3. CASE CallStep \/ DropLost
    <2>1. UNCHANGED <<workerVars, sendRing>>
        BY <1>3
           DEF CallStep, MarkReady, UnparkWorker, TakeResult, TakeResultLeaving, NoResultYet,
               TakePacket, NoPacketYet, Unparked, ConnectReturns, DropLost, PopPacket
    <2>2. Leaving => Leaving'
        BY <1>3
           DEF CallStep, MarkReady, UnparkWorker, TakeResult, TakeResultLeaving, NoResultYet,
               TakePacket, NoPacketYet, Unparked, ConnectReturns, DropLost, PopPacket,
               Leaving, CallTo
    <2> QED
        BY <1>t, <1>c, <2>1, <2>2 DEF DropIsLast
<1>4. CASE \/ /\ worker = "handle" /\ UNCHANGED <<userVars, bound, sendRing>>
           \/ /\ worker = "recv" /\ worker' \in {"recv", "wake_reader"}
              /\ UNCHANGED <<userVars, bound, sendRing>>
    BY <1>t, <1>c, <1>4 DEF DropIsLast, Leaving, CallTo
<1>5. CASE EndControl \/ StopWorker \/ WakeReader \/ EndRecv \/ DrainEmpty \/ UnparkSender
           \/ WorkerUnparked \/ WorkerTimesOut \/ SwapReady
    <2>1. /\ UNCHANGED <<userVars, sendRing, bound>>
          /\ worker' \in {"drain", "handle", "unpark_sender"} =>
                bound \/ worker \in {"drain", "handle", "unpark_sender"}
        BY <1>5
           DEF EndControl, StopWorker, WakeReader, EndRecv, DrainEmpty, UnparkSender,
               WorkerUnparked, WorkerTimesOut, SwapReady, AfterMessage
    <2> QED
        BY <1>t, <1>c, <2>1 DEF DropIsLast, Leaving, CallTo
<1>6. CASE PopMessage
    <2>0. sendRing \in Seq(Message) /\ sendRing # <<>>
        BY <1>t, <1>6 DEF Shapes, PopMessage
    <2>1. /\ Head(sendRing) = sendRing[1]
          /\ Len(sendRing) \in Nat /\ Len(sendRing) >= 1 /\ Len(sendRing') = Len(sendRing) - 1
          /\ \A i \in 1 .. Len(sendRing) - 1 : sendRing'[i] = sendRing[i + 1]
          /\ sendRing' \in Seq(Message)
        BY <1>6, <2>0, TailOfRing DEF PopMessage
    <2>2. Leaving' = Leaving /\ worker = "drain" /\ bound
        BY <1>t, <1>6 DEF PopMessage, Leaving, CallTo, DropIsLast
    <2>3. \A i \in 1 .. Len(sendRing') :
             sendRing'[i] = DropSocket => i = Len(sendRing') /\ Leaving'
        <3> SUFFICES ASSUME NEW i \in 1 .. Len(sendRing'), sendRing'[i] = DropSocket
                     PROVE  i = Len(sendRing') /\ Leaving'
            OBVIOUS
        <3>1. i + 1 \in 1 .. Len(sendRing) /\ sendRing[i + 1] = DropSocket
            BY <2>1
        <3>2. i + 1 = Len(sendRing) /\ Leaving
            BY <1>t, <3>1 DEF DropIsLast
        <3> QED
            BY <2>1, <2>2, <3>2
    <2>4. CASE Head(sendRing) = DropSocket
        <3>1. Len(sendRing) = 1 /\ Leaving
            BY <1>t, <2>1, <2>4 DEF DropIsLast
        <3>2. sendRing' = <<>>
            BY <2>1, <3>1, EmptySeq
        <3>3. ~bound' /\ worker' = "park"
            BY <1>6, <2>4 DEF PopMessage
        <3> QED
            BY <2>2, <2>3, <3>1, <3>2, <3>3 DEF DropIsLast
    <2>5. CASE Head(sendRing) # DropSocket
        <3>1. bound' = bound
            BY <1>6, <2>5 DEF PopMessage
        <3> QED
            BY <2>2, <2>3, <3>1 DEF DropIsLast
    <2> QED
        BY <2>4, <2>5
<1> QED
    BY <1>1, <1>2, <1>3, <1>4, <1>5, <1>6, StepsInBrief

(* What is with the worker after a step: a push adds to it, and only the   *)
(* handling of a message takes it away.                                    *)
LEMMA WithWorker ==
    ASSUME IInv, Next
    PROVE  /\ Push => \E m \in Message :
                  /\ sendRing' = Append(sendRing, m)
                  /\ Queued' = Queued \cup {m} /\ m \in Queued'
           /\ PopMessage => \/ /\ Queued \subseteq Queued' \cup {DropSocket}
                               /\ message' = message
                            \/ Queued \subseteq Queued' \cup {message'} /\ message = Nothing
           /\ PopMessage => /\ Queued' \subseteq Queued
                            /\ message' \in Queued \cup {message}
           /\ UNCHANGED sendRing => Queued' = Queued
<1>t. Shapes /\ WorkIsAnnounced
    BY TypeIsFlagsAndShapes DEF IInv
<1>1. ASSUME Push
      PROVE  \E m \in Message :
                  /\ sendRing' = Append(sendRing, m)
                  /\ Queued' = Queued \cup {m} /\ m \in Queued'
    <2>1. PICK m \in Message : sendRing' = Append(sendRing, m)
        <3>1. CASE SendTo
            <4>1. sends + 1 \in Datagram /\ (mode = "blocking") \in BOOLEAN
                BY <1>t, <3>1, Bounds DEF SendTo, Shapes, Datagram
            <4> QED
                BY <3>1, <4>1, Kinds DEF SendTo, StartPush
        <3>2. CASE RecvRegisters \/ CallConnect \/ DropPushed
            BY <3>2, Kinds DEF RecvRegisters, CallConnect, DropPushed, StartPush
        <3> QED
            BY <1>1, <3>1, <3>2 DEF Push
    <2>2. sendRing \in Seq(Message)
        BY <1>t DEF Shapes
    <2>3. Elements(sendRing') = Elements(sendRing) \cup {m}
        BY <2>1, <2>2, AppendToRing
    <2> QED
        BY <2>1, <2>3 DEF Queued
<1>2. ASSUME PopMessage
      PROVE  Queued = Queued' \cup {Head(sendRing)}
    <2>1. sendRing \in Seq(Message) /\ sendRing # <<>> /\ sendRing' = Tail(sendRing)
        BY <1>t, <1>2 DEF Shapes, PopMessage
    <2>2. Elements(sendRing) = Elements(sendRing') \cup {Head(sendRing)}
        BY <2>1, TailOfRing
    <2> QED
        BY <2>2 DEF Queued
<1>3. ASSUME PopMessage
      PROVE  message = Nothing
    BY <1>3, <1>t DEF PopMessage, WorkIsAnnounced
<1>4. ASSUME PopMessage
      PROVE  \/ Head(sendRing) = DropSocket /\ message' = message
             \/ message' = Head(sendRing)
    BY <1>4 DEF PopMessage
<1>5. UNCHANGED sendRing => Queued' = Queued
    BY DEF Queued, Elements
<1> QED
    BY <1>1, <1>2, <1>3, <1>4, <1>5

(* A blocking sender keeps its datagram with the worker until its result   *)
(* is in the word, and the unpark follows.                                 *)
LEMMA SenderStep ==
    ASSUME IInv, Next
    PROVE  SenderIsAnswered'
<1> DEFINE own == Data(sends, TRUE)
<1>t. Shapes /\ SenderIsAnswered /\ WorkIsAnnounced
    BY TypeIsFlagsAndShapes DEF IInv
<1>k. ASSUME Sending' => Sending, sends' = sends,
             Queued \cup {message} \subseteq Queued' \cup {message'},
             result' = result, userToken => userToken',
             worker = "unpark_sender" => worker' = "unpark_sender" \/ userToken',
             Sending' /\ result # NoResult /\ user' = "park_result" => user = "park_result"
      PROVE  SenderIsAnswered'
    BY <1>t, <1>k DEF SenderIsAnswered
<1>1. CASE /\ user = "idle" /\ user' = "idle"
    BY <1>1 DEF SenderIsAnswered, Sending, CallTo
<1>2. CASE Push
    <2>1. CASE SendTo
        <3>1. ASSUME Sending'
              PROVE  own' \in Queued'
            <4>1. next' = "await_result"
                BY <2>1, <3>1 DEF SendTo, StartPush, Sending, CallTo
            <4>2. mode = "blocking" /\ (mode = "blocking") = TRUE
                BY <2>1, <4>1 DEF SendTo, StartPush
            <4>3. sendRing' = Append(sendRing, Data(sends + 1, mode = "blocking"))
                  /\ sends' = sends + 1
                BY <2>1 DEF SendTo, StartPush
            <4>4. own' = Data(sends + 1, mode = "blocking")
                BY <4>2, <4>3
            <4>5. PICK m \in Message : sendRing' = Append(sendRing, m) /\ m \in Queued'
                BY <1>2, WithWorker
            <4>6. m = own'
                <5>0. sendRing \in Seq(Message) /\ own' \in Message
                    <6>1. sends + 1 \in Datagram /\ (mode = "blocking") \in BOOLEAN
                        BY <1>t, <2>1, Bounds DEF SendTo, Shapes, Datagram
                    <6> QED
                        BY <1>t, <4>4, <6>1, Kinds DEF Shapes
                <5> HIDE DEF own
                <5>1. Append(sendRing, m)[Len(sendRing) + 1] = m
                      /\ Append(sendRing, own')[Len(sendRing) + 1] = own'
                    BY <5>0, AppendToRing
                <5> QED
                    BY <4>3, <4>4, <4>5, <5>1
            <4> QED
                BY <4>5, <4>6
        <3> QED
            BY <3>1 DEF SenderIsAnswered
    <2>2. CASE RecvRegisters \/ CallConnect \/ DropPushed
        BY <2>2
           DEF RecvRegisters, CallConnect, DropPushed, StartPush, SenderIsAnswered, Sending,
               CallTo
    <2> QED
        BY <1>2, <2>1, <2>2 DEF Push
<1>3. CASE CallStep \/ DropLost
    <2>0. UNCHANGED <<workerVars, sendRing>> /\ Queued' = Queued /\ sends' = sends
        BY <1>3, WithWorker
           DEF CallStep, MarkReady, UnparkWorker, TakeResult, TakeResultLeaving, NoResultYet,
               TakePacket, NoPacketYet, Unparked, ConnectReturns, DropLost, PopPacket
    <2>1. CASE MarkReady \/ UnparkWorker
        <3>1. /\ Sending' => Sending /\ user' # "park_result"
              /\ result' = result
            BY <1>t, <2>1 DEF MarkReady, UnparkWorker, Sending, CallTo, Shapes
        <3> QED
            BY <1>t, <2>0, <3>1 DEF SenderIsAnswered
    <2>2. CASE NoResultYet
        <3>1. Sending /\ result = NoResult
            BY <2>2 DEF NoResultYet, Sending
        <3> QED
            BY <1>t, <2>0, <3>1 DEF SenderIsAnswered
    <2>3. CASE Unparked
        <3>1. (Sending' => Sending) /\ user' # "park_result" /\ result' = result
            BY <2>3 DEF Unparked, Sending, CallTo
        <3> QED
            BY <1>t, <2>0, <3>1 DEF SenderIsAnswered
    <2>4. CASE TakeResult \/ TakePacket \/ NoPacketYet \/ ConnectReturns \/ DropLost
        <3>1. ~Sending'
            BY <2>4
               DEF TakeResult, TakeResultLeaving, TakePacket, NoPacketYet, ConnectReturns,
                   DropLost, PopPacket, Sending, CallTo
        <3> QED
            BY <3>1 DEF SenderIsAnswered
    <2> QED
        BY <1>3, <2>1, <2>2, <2>3, <2>4 DEF CallStep
<1>4. CASE Handle
    <2>0. UNCHANGED <<userVars, sendRing>> /\ Queued' = Queued /\ (Sending' <=> Sending)
        BY <1>4, WithWorker
           DEF Handle, HandleNonblocking, HandleBlocking, HandleReadHandle, HandleConnect,
               Sending, CallTo
    <2>1. CASE message # own
        <3>1. (result' = result \/ result' # NoResult)
              /\ (userToken => userToken') /\ worker # "unpark_sender"
            <4>1. \A n, o : n \in Datagram => [of |-> n, is |-> o] # NoResult
                BY DEF NoResult, Datagram
            <4>2. message.kind = "data" => message.datagram \in Datagram
                BY <1>t, Kinds DEF Shapes
            <4>3. CASE HandleNonblocking \/ HandleBlocking
                <5>1. result' = result \/ \E o \in Outcome :
                          result' = [of |-> message.datagram, is |-> o]
                    BY <4>3 DEF HandleNonblocking, HandleBlocking
                <5>2. message.kind = "data" /\ worker = "handle" /\ userToken' = userToken
                    BY <4>3 DEF HandleNonblocking, HandleBlocking, SendDatagram,
                                SendDatagramReturning
                <5> QED
                    BY <4>1, <4>2, <5>1, <5>2
            <4>4. CASE HandleReadHandle \/ HandleConnect
                <5>1. result' = result /\ worker = "handle"
                    BY <4>4 DEF HandleReadHandle, HandleConnect
                <5>2. userToken => userToken'
                    BY <4>4, Zenon DEF HandleReadHandle, HandleConnect
                <5> QED
                    BY <5>1, <5>2
            <4> QED
                BY <1>4, <4>3, <4>4 DEF Handle
        <3> QED
            BY <1>t, <2>0, <2>1, <3>1 DEF SenderIsAnswered
    <2>2. CASE message = own
        <3>0. message.kind = "data" /\ message.blocking = TRUE
              /\ message # RegisterRead /\ message # Connect
            BY <2>2 DEF Data, RegisterRead, Connect
        <3>1. CASE HandleBlocking
            <4>1. message.datagram \in Datagram
                BY <1>t, <3>0, Kinds DEF Shapes
            <4>2. result'.of = message.datagram /\ worker' = "unpark_sender"
                BY <3>1 DEF HandleBlocking
            <4>3. result' # NoResult
                BY <4>1, <4>2 DEF NoResult, Datagram
            <4> QED
                BY <4>2, <4>3 DEF SenderIsAnswered
        <3>2. CASE ~HandleBlocking
            BY <1>4, <3>0, <3>2
               DEF Handle, HandleNonblocking, HandleReadHandle, HandleConnect
        <3> QED
            BY <3>1, <3>2
    <2> QED
        BY <2>1, <2>2
<1>5. CASE EndControl \/ StopWorker \/ WakeReader \/ EndRecv \/ DrainEmpty \/ UnparkSender
           \/ WorkerUnparked \/ WorkerTimesOut \/ SwapReady
    <2>1. /\ UNCHANGED <<userVars, sendRing, message, result>>
          /\ userToken => userToken'
          /\ worker = "unpark_sender" => userToken'
        BY <1>5
           DEF EndControl, StopWorker, WakeReader, EndRecv, DrainEmpty, UnparkSender,
               WorkerUnparked, WorkerTimesOut, SwapReady
    <2> QED
        BY <1>k, <2>1, WithWorker DEF Sending, CallTo
<1>6. CASE PopMessage
    <2>1. UNCHANGED <<userVars, userToken, result>> /\ worker # "unpark_sender"
        BY <1>6 DEF PopMessage
    <2>2. own # DropSocket /\ own # Nothing
        BY DEF Data, DropSocket, Nothing
    <2>3. own \in Queued \cup {message} => own \in Queued' \cup {message'}
        BY <1>6, <2>2, WithWorker
    <2>4. (Sending' <=> Sending) /\ own' = own
        BY <2>1 DEF Sending, CallTo
    <2> HIDE DEF own
    <2>5. SenderIsAnswered <=> (Sending => \/ own \in Queued \cup {message}
             \/ /\ result # NoResult
                /\ user = "park_result" => userToken \/ worker = "unpark_sender")
        BY DEF SenderIsAnswered, own
    <2>6. SenderIsAnswered' <=> (Sending' => \/ own' \in Queued' \cup {message'}
             \/ /\ result' # NoResult
                /\ user' = "park_result" => userToken' \/ worker' = "unpark_sender")
        BY DEF SenderIsAnswered, own
    <2> QED
        BY <1>t, <2>1, <2>3, <2>4, <2>5, <2>6
<1>7. CASE /\ worker = "recv" /\ worker' \in {"recv", "wake_reader"}
           /\ UNCHANGED <<userVars, message, userToken, sendRing, result>>
    BY <1>k, <1>7, WithWorker DEF Sending, CallTo
<1> QED
    BY <1>1, <1>2, <1>3, <1>4, <1>5, <1>6, <1>7, StepsInBrief

(* A reader that registers finds its ring looked at when the worker takes  *)
(* the handle, and every later packet is followed by a wake.               *)
LEMMA ReaderStep ==
    ASSUME IInv, Next
    PROVE  ReaderIsWoken'
<1>t. Shapes /\ ReaderIsWoken /\ WorkIsAnnounced /\ DropIsLast
    BY TypeIsFlagsAndShapes DEF IInv
<1>k. ASSUME Reading' => Reading,
             RegisterRead \in Queued \cup {message} =>
                RegisterRead \in Queued' \cup {message'},
             recvRing' = recvRing, waking => waking', userToken => userToken',
             worker = "wake_reader" => worker' = "wake_reader" \/ userToken',
             Reading' /\ user' = "park_packet" => user = "park_packet"
      PROVE  ReaderIsWoken'
    BY <1>t, <1>k DEF ReaderIsWoken
<1>1. CASE user' = "idle"
    BY <1>1 DEF ReaderIsWoken, Reading, CallTo
<1>2. CASE Push
    <2>1. CASE RecvRegisters
        <3>1. sendRing' = Append(sendRing, RegisterRead)
            BY <2>1 DEF RecvRegisters, StartPush
        <3>2. sendRing \in Seq(Message) /\ RegisterRead \in Message
            BY <1>t, Kinds DEF Shapes
        <3>3. Elements(sendRing') = Elements(sendRing) \cup {RegisterRead}
            BY <3>1, <3>2, AppendToRing
        <3> QED
            BY <3>3 DEF ReaderIsWoken, Queued
    <2>2. CASE SendTo \/ CallConnect \/ DropPushed
        BY <2>2
           DEF SendTo, CallConnect, DropPushed, StartPush, ReaderIsWoken, Reading, CallTo
    <2> QED
        BY <1>2, <2>1, <2>2 DEF Push
<1>3. CASE CallStep \/ DropLost
    <2>0. UNCHANGED <<workerVars, sendRing>> /\ Queued' = Queued
        BY <1>3, WithWorker
           DEF CallStep, MarkReady, UnparkWorker, TakeResult, TakeResultLeaving, NoResultYet,
               TakePacket, NoPacketYet, Unparked, ConnectReturns, DropLost, PopPacket
    <2>1. CASE MarkReady \/ UnparkWorker
        <3>1. /\ Reading' => Reading
              /\ user' # "park_packet"
            BY <1>t, <2>1 DEF MarkReady, UnparkWorker, Reading, CallTo, Shapes
        <3> QED
            BY <1>t, <2>0, <3>1 DEF ReaderIsWoken
    <2>2. CASE NoPacketYet
        <3>1. Reading /\ recvRing' = <<>>
            BY <2>2 DEF NoPacketYet, Reading
        <3> QED
            BY <1>t, <2>0, <3>1 DEF ReaderIsWoken
    <2>3. CASE Unparked
        <3>1. (Reading' => Reading) /\ user' # "park_packet"
            BY <2>3 DEF Unparked, Reading, CallTo
        <3> QED
            BY <1>t, <2>0, <3>1 DEF ReaderIsWoken
    <2>4. CASE TakeResult \/ TakePacket \/ NoResultYet \/ ConnectReturns \/ DropLost
        <3>1. ~Reading'
            BY <2>4
               DEF TakeResult, TakeResultLeaving, TakePacket, NoResultYet, ConnectReturns,
                   DropLost, PopPacket, Reading, CallTo
        <3> QED
            BY <3>1 DEF ReaderIsWoken
    <2> QED
        BY <1>3, <2>1, <2>2, <2>3, <2>4 DEF CallStep
<1>4. CASE Handle
    <2>0. /\ UNCHANGED <<userVars, sendRing, recvRing>> /\ Queued' = Queued
          /\ Reading' <=> Reading
          /\ worker = "handle"
        BY <1>4, WithWorker
           DEF Handle, HandleNonblocking, HandleBlocking, HandleReadHandle, HandleConnect,
               Reading, CallTo, SendDatagram, SendDatagramReturning
    <2>1. CASE HandleReadHandle
        <3>1. waking' /\ (recvRing # <<>> => userToken')
            BY <2>1, Zenon DEF HandleReadHandle, WakesAtOnce
        <3> QED
            BY <2>0, <3>1 DEF ReaderIsWoken
    <2>2. CASE HandleNonblocking \/ HandleBlocking \/ HandleConnect
        <3>1. UNCHANGED <<userToken, waking>> /\ message # RegisterRead
            BY <2>2, Kinds
               DEF HandleNonblocking, HandleBlocking, HandleConnect, SendDatagram,
                   SendDatagramReturning
        <3> QED
            BY <1>k, <2>0, <3>1
    <2> QED
        BY <1>4, <2>1, <2>2 DEF Handle
<1>5. CASE EndControl \/ StopWorker \/ WakeReader \/ EndRecv \/ DrainEmpty \/ UnparkSender
           \/ WorkerUnparked \/ WorkerTimesOut \/ SwapReady
    <2>1. /\ UNCHANGED <<userVars, sendRing, message, recvRing, waking>>
          /\ userToken => userToken'
          /\ worker = "wake_reader" => userToken'
        BY <1>5
           DEF EndControl, StopWorker, WakeReader, EndRecv, DrainEmpty, UnparkSender,
               WorkerUnparked, WorkerTimesOut, SwapReady
    <2> QED
        BY <1>k, <2>1, WithWorker DEF Reading, CallTo
<1>6. CASE PopMessage
    <2>1. UNCHANGED <<userVars, userToken, recvRing, waking>> /\ worker # "wake_reader"
        BY <1>6 DEF PopMessage
    <2>2. RegisterRead \in Queued \cup {message} => RegisterRead \in Queued' \cup {message'}
        BY <1>6, Kinds, WithWorker
    <2> QED
        BY <1>k, <2>1, <2>2 DEF Reading, CallTo
<1>7. CASE \E source \in Source : Deliver(source) \/ LosePacket(source)
    <2>1. /\ worker = "recv"
          /\ UNCHANGED <<userVars, message, userToken, sendRing, waking>>
          /\ recvRing' = recvRing \/ (waking => worker' = "wake_reader")
        BY <1>7 DEF Deliver, LosePacket
    <2>2. (Reading' <=> Reading) /\ Queued' = Queued
        BY <2>1, WithWorker DEF Reading, CallTo
    <2> QED
        BY <1>t, <2>1, <2>2 DEF ReaderIsWoken
<1> QED
    BY <1>1, <1>2, <1>3, <1>4, <1>5, <1>6, <1>7, StepsInBrief

(* The oneshot of a connect is answered by the step that takes its message *)
(* away, and emptied only by the caller's return.                          *)
LEMMA ConnectorStep ==
    ASSUME IInv, Next
    PROVE  ConnectorIsAnswered'
<1>t. Shapes /\ ConnectorIsAnswered /\ WorkIsAnnounced
    BY TypeIsFlagsAndShapes DEF IInv
<1>k. ASSUME Connecting' => Connecting, connectReply' = connectReply,
             Connect \in Queued \cup {message} => Connect \in Queued' \cup {message'}
      PROVE  ConnectorIsAnswered'
    BY <1>t, <1>k DEF ConnectorIsAnswered
<1>1. CASE user' = "idle"
    BY <1>1 DEF ConnectorIsAnswered, Connecting, CallTo
<1>2. CASE Push
    <2>1. CASE CallConnect
        <3>1. sendRing' = Append(sendRing, Connect)
            BY <2>1 DEF CallConnect, StartPush
        <3>2. sendRing \in Seq(Message) /\ Connect \in Message
            BY <1>t, Kinds DEF Shapes
        <3>3. Elements(sendRing') = Elements(sendRing) \cup {Connect}
            BY <3>1, <3>2, AppendToRing
        <3> QED
            BY <3>3 DEF ConnectorIsAnswered, Queued
    <2>2. CASE SendTo \/ RecvRegisters \/ DropPushed
        BY <2>2
           DEF SendTo, RecvRegisters, DropPushed, StartPush, ConnectorIsAnswered, Connecting,
               CallTo
    <2> QED
        BY <1>2, <2>1, <2>2 DEF Push
<1>3. CASE CallStep \/ DropLost
    <2>0. UNCHANGED <<workerVars, sendRing>> /\ Queued' = Queued
        BY <1>3, WithWorker
           DEF CallStep, MarkReady, UnparkWorker, TakeResult, TakeResultLeaving, NoResultYet,
               TakePacket, NoPacketYet, Unparked, ConnectReturns, DropLost, PopPacket
    <2>1. CASE MarkReady \/ UnparkWorker
        <3>1. (Connecting' => Connecting) /\ connectReply' = connectReply
            BY <1>t, <2>1 DEF MarkReady, UnparkWorker, Connecting, CallTo, Shapes
        <3> QED
            BY <1>k, <2>0, <3>1
    <2>2. CASE ~(MarkReady \/ UnparkWorker)
        <3>1. ~Connecting'
            BY <1>3, <2>2
               DEF CallStep, TakeResult, TakeResultLeaving, TakePacket, NoPacketYet,
                   NoResultYet, Unparked, ConnectReturns, DropLost, PopPacket, Connecting,
                   CallTo
        <3> QED
            BY <3>1 DEF ConnectorIsAnswered
    <2> QED
        BY <2>1, <2>2
<1>4. CASE Handle
    <2>0. UNCHANGED <<userVars, sendRing>> /\ Queued' = Queued /\ (Connecting' <=> Connecting)
        BY <1>4, WithWorker
           DEF Handle, HandleNonblocking, HandleBlocking, HandleReadHandle, HandleConnect,
               Connecting, CallTo
    <2>1. CASE HandleConnect
        <3>1. connectReply' # "empty"
            BY <2>1 DEF HandleConnect
        <3> QED
            BY <3>1 DEF ConnectorIsAnswered
    <2>2. CASE HandleNonblocking \/ HandleBlocking \/ HandleReadHandle
        <3>1. connectReply' = connectReply /\ message # Connect
            BY <2>2, Kinds
               DEF HandleNonblocking, HandleBlocking, HandleReadHandle, SendDatagram,
                   SendDatagramReturning
        <3> QED
            BY <1>k, <2>0, <3>1
    <2> QED
        BY <1>4, <2>1, <2>2 DEF Handle
<1>5. CASE EndControl \/ StopWorker \/ WakeReader \/ EndRecv \/ DrainEmpty \/ UnparkSender
           \/ WorkerUnparked \/ WorkerTimesOut \/ SwapReady
    <2>1. UNCHANGED <<userVars, sendRing, message, connectReply>>
        BY <1>5
           DEF EndControl, StopWorker, WakeReader, EndRecv, DrainEmpty, UnparkSender,
               WorkerUnparked, WorkerTimesOut, SwapReady
    <2> QED
        BY <1>k, <2>1, WithWorker DEF Connecting, CallTo
<1>6. CASE PopMessage
    <2>1. UNCHANGED <<userVars, connectReply>>
        BY <1>6 DEF PopMessage
    <2>2. Connect \in Queued \cup {message} => Connect \in Queued' \cup {message'}
        BY <1>6, Kinds, WithWorker
    <2> QED
        BY <1>k, <2>1, <2>2 DEF Connecting, CallTo
<1>7. CASE \E source \in Source : Deliver(source) \/ LosePacket(source)
    <2>1. UNCHANGED <<userVars, message, sendRing, connectReply>>
        BY <1>7 DEF Deliver, LosePacket
    <2> QED
        BY <1>k, <2>1, WithWorker DEF Connecting, CallTo
<1> QED
    BY <1>1, <1>2, <1>3, <1>4, <1>5, <1>6, <1>7, StepsInBrief

(* A datagram's number is new when it is pushed, and has no outcome until  *)
(* the worker has handled it.                                              *)
LEMMA FreshStep ==
    ASSUME IInv, Next
    PROVE  NumbersAreFresh'
<1>t. Shapes /\ NumbersAreFresh /\ WorkIsAnnounced
    BY TypeIsFlagsAndShapes DEF IInv
<1>r. sendRing \in Seq(Message) /\ Len(sendRing) \in Nat
    BY <1>t, LenProperties DEF Shapes
<1>1. CASE UNCHANGED <<sends, outcome, sendRing, message>>
    BY <1>t, <1>1, WithWorker DEF NumbersAreFresh
<1>2. CASE SendTo
    <2> DEFINE m == Data(sends + 1, mode = "blocking")
    <2>1. sends + 1 \in Datagram /\ (mode = "blocking") \in BOOLEAN /\ sends \in Nat
        BY <1>t, <1>2, Bounds DEF SendTo, Shapes, Datagram
    <2>2. m \in Message /\ m.kind = "data" /\ m.datagram = sends + 1
        BY <2>1, Kinds
    <2>3. /\ sendRing' = Append(sendRing, m)
          /\ sends' = sends + 1 /\ UNCHANGED <<outcome, message>>
        BY <1>2 DEF SendTo, StartPush
    <2> HIDE DEF m
    <2>4. /\ Queued' = Queued \cup {m} /\ Len(sendRing') = Len(sendRing) + 1
          /\ \A i \in 1 .. Len(sendRing) : sendRing'[i] = sendRing[i]
          /\ sendRing'[Len(sendRing) + 1] = m
        BY <1>r, <2>2, <2>3, AppendToRing DEF Queued
    <2>5. outcome[sends + 1] = "none"
        BY <1>t, <2>1 DEF NumbersAreFresh
    <2>6. \A x \in Queued \cup {message} :
             /\ x \in Message
             /\ x.kind = "data" => x.datagram \in Datagram /\ x.datagram <= sends
        <3>1. Queued \subseteq Message /\ message \in Message
            BY <1>t, <1>r, ElementOfSeq DEF Queued, Elements, Shapes
        <3> QED
            BY <1>t, <3>1, Kinds DEF NumbersAreFresh
    <2>7. \A x \in Queued' \cup {message'} :
             x.kind = "data" => x.datagram <= sends' /\ outcome'[x.datagram] = "none"
        <3> SUFFICES ASSUME NEW x \in Queued' \cup {message'}, x.kind = "data"
                     PROVE  x.datagram <= sends' /\ outcome'[x.datagram] = "none"
            OBVIOUS
        <3>1. CASE x = m
            BY <2>1, <2>2, <2>3, <2>5, <3>1
        <3>2. CASE x \in Queued \cup {message}
            <4>1. x.datagram <= sends /\ outcome[x.datagram] = "none" /\ x.datagram \in Datagram
                BY <1>t, <2>6, <3>2 DEF NumbersAreFresh
            <4> QED
                BY <2>1, <2>3, <4>1 DEF Datagram
        <3> QED
            BY <2>3, <2>4, <3>1, <3>2
    <2>8. ASSUME NEW i \in 1 .. Len(sendRing'), NEW j \in 1 .. Len(sendRing'),
                 sendRing'[i].kind = "data", sendRing'[j].kind = "data",
                 sendRing'[i].datagram = sendRing'[j].datagram
          PROVE  i = j
        <3>0. \A k \in 1 .. Len(sendRing) :
                 sendRing[k].kind = "data" => sendRing[k].datagram # sends + 1
            <4> SUFFICES ASSUME NEW k \in 1 .. Len(sendRing), sendRing[k].kind = "data"
                         PROVE  sendRing[k].datagram # sends + 1
                OBVIOUS
            <4>1. sendRing[k] \in Queued
                BY DEF Queued, Elements
            <4> QED
                BY <2>1, <2>6, <4>1
        <3>1. CASE i = Len(sendRing) + 1
            BY <1>r, <2>2, <2>4, <2>8, <3>0, <3>1
        <3>2. CASE j = Len(sendRing) + 1
            BY <1>r, <2>2, <2>4, <2>8, <3>0, <3>2
        <3>3. CASE i # Len(sendRing) + 1 /\ j # Len(sendRing) + 1
            <4>1. i \in 1 .. Len(sendRing) /\ j \in 1 .. Len(sendRing)
                BY <1>r, <2>4, <3>3
            <4> QED
                BY <1>t, <2>4, <2>8, <4>1 DEF NumbersAreFresh
        <3> QED
            BY <3>1, <3>2, <3>3
    <2>9. \A x \in Queued' : x.kind = "data" /\ message'.kind = "data" =>
             x.datagram # message'.datagram
        BY <1>t, <2>1, <2>2, <2>3, <2>4, <2>6 DEF NumbersAreFresh
    <2>10. \A n \in Datagram : n > sends' => outcome'[n] = "none"
        BY <1>t, <2>1, <2>3 DEF NumbersAreFresh, Datagram
    <2> QED
        BY <2>7, <2>8, <2>9, <2>10 DEF NumbersAreFresh
<1>3. CASE RecvRegisters \/ CallConnect \/ DropPushed
    <2>1. PICK m \in {RegisterRead, Connect, DropSocket} :
             /\ sendRing' = Append(sendRing, m) /\ UNCHANGED <<sends, outcome, message>>
        BY <1>3 DEF RecvRegisters, CallConnect, DropPushed, StartPush
    <2>2. m \in Message /\ m.kind # "data"
        BY Kinds
    <2>4. /\ Queued' = Queued \cup {m} /\ Len(sendRing') = Len(sendRing) + 1
          /\ \A i \in 1 .. Len(sendRing) : sendRing'[i] = sendRing[i]
          /\ sendRing'[Len(sendRing) + 1] = m
        BY <1>r, <2>1, <2>2, AppendToRing DEF Queued
    <2>5. \A i \in 1 .. Len(sendRing') : sendRing'[i].kind = "data" =>
             i \in 1 .. Len(sendRing) /\ sendRing'[i] = sendRing[i]
        BY <1>r, <2>2, <2>4
    <2> QED
        BY <1>t, <2>1, <2>2, <2>4, <2>5 DEF NumbersAreFresh
<1>4. CASE PopMessage
    <2>0. sendRing # <<>> /\ sendRing' = Tail(sendRing) /\ UNCHANGED <<sends, outcome>>
          /\ message = Nothing
        BY <1>t, <1>4 DEF PopMessage, WorkIsAnnounced
    <2>1. /\ Head(sendRing) = sendRing[1]
          /\ Len(sendRing) >= 1 /\ Len(sendRing') = Len(sendRing) - 1
          /\ \A i \in 1 .. Len(sendRing) - 1 : sendRing'[i] = sendRing[i + 1]
        BY <1>r, <2>0, TailOfRing
    <2>2. Queued' \subseteq Queued /\ message' \in Queued \cup {message}
          /\ (message' = Nothing \/ message' = Head(sendRing))
        BY <1>4, <2>0, WithWorker DEF PopMessage
    <2>3. \A i \in 1 .. Len(sendRing') : i + 1 \in 1 .. Len(sendRing)
             /\ sendRing'[i] = sendRing[i + 1]
        BY <1>r, <2>1
    <2>4. \A i, j \in 1 .. Len(sendRing') :
             /\ sendRing'[i].kind = "data" /\ sendRing'[j].kind = "data"
             /\ sendRing'[i].datagram = sendRing'[j].datagram
             => i = j
        <3> SUFFICES ASSUME NEW i \in 1 .. Len(sendRing'), NEW j \in 1 .. Len(sendRing'),
                            sendRing'[i].kind = "data", sendRing'[j].kind = "data",
                            sendRing'[i].datagram = sendRing'[j].datagram
                     PROVE  i = j
            OBVIOUS
        <3>1. i + 1 = j + 1
            BY <1>t, <2>3 DEF NumbersAreFresh
        <3> QED
            BY <3>1
    <2>5. \A x \in Queued' : x.kind = "data" /\ message'.kind = "data" =>
             x.datagram # message'.datagram
        <3> SUFFICES ASSUME NEW x \in Queued', x.kind = "data", message'.kind = "data",
                            x.datagram = message'.datagram
                     PROVE  FALSE
            OBVIOUS
        <3>1. PICK i \in 1 .. Len(sendRing') : x = sendRing'[i]
            BY DEF Queued, Elements
        <3>2. message' = sendRing[1]
            BY <2>1, <2>2, Kinds
        <3>3. i + 1 \in 1 .. Len(sendRing) /\ 1 \in 1 .. Len(sendRing) /\ x = sendRing[i + 1]
            BY <1>r, <2>1, <2>3, <3>1
        <3>4. i + 1 = 1
            BY <1>t, <3>2, <3>3 DEF NumbersAreFresh
        <3> QED
            BY <1>r, <2>1, <3>4
    <2> QED
        BY <1>t, <2>0, <2>2, <2>4, <2>5 DEF NumbersAreFresh
<1>5. CASE HandleNonblocking \/ HandleBlocking
    <2>1. PICK o \in Outcome :
             /\ message.kind = "data" /\ message' = Nothing
             /\ outcome' = [outcome EXCEPT ![message.datagram] = o]
             /\ UNCHANGED <<sends, sendRing>>
        BY <1>5 DEF HandleNonblocking, HandleBlocking, SendDatagram, SendDatagramReturning
    <2>2. message.datagram \in Datagram /\ message.datagram <= sends /\ sends \in Nat
        BY <1>t, <2>1, Kinds DEF Shapes, NumbersAreFresh
    <2>3. \A n \in Datagram : n # message.datagram => outcome'[n] = outcome[n]
        BY <1>t, <2>1 DEF Shapes
    <2>4. Queued' = Queued /\ Queued \subseteq Message
        BY <1>r, <2>1, WithWorker, ElementOfSeq DEF Queued, Elements
    <2>5. \A x \in Queued : x.kind = "data" =>
             x.datagram <= sends' /\ outcome'[x.datagram] = "none"
        BY <1>t, <2>1, <2>3, <2>4, Kinds DEF NumbersAreFresh
    <2>6. \A n \in Datagram : n > sends => outcome'[n] = "none"
        BY <1>t, <2>2, <2>3 DEF NumbersAreFresh, Datagram
    <2>7. Nothing.kind # "data"
        BY Kinds
    <2> QED
        BY <1>t, <2>1, <2>4, <2>5, <2>6, <2>7 DEF NumbersAreFresh
<1>6. CASE HandleReadHandle \/ HandleConnect
    <2>1. message' = Nothing /\ UNCHANGED <<sends, outcome, sendRing>>
        BY <1>6 DEF HandleReadHandle, HandleConnect
    <2>2. Nothing.kind # "data" /\ Queued' = Queued
        BY <2>1, Kinds, WithWorker
    <2> QED
        BY <1>t, <2>1, <2>2 DEF NumbersAreFresh
<1>7. CASE CallStep \/ DropLost
    BY <1>1, <1>7
       DEF CallStep, MarkReady, UnparkWorker, TakeResult, TakeResultLeaving, NoResultYet,
           TakePacket, NoPacketYet, Unparked, ConnectReturns, DropLost, PopPacket
<1>8. CASE EndControl \/ StopWorker \/ WakeReader \/ EndRecv \/ DrainEmpty \/ UnparkSender
           \/ WorkerUnparked \/ WorkerTimesOut \/ SwapReady
    BY <1>1, <1>8
       DEF EndControl, StopWorker, WakeReader, EndRecv, DrainEmpty, UnparkSender,
           WorkerUnparked, WorkerTimesOut, SwapReady
<1> QED
    BY <1>1, <1>2, <1>3, <1>4, <1>5, <1>6, <1>7, <1>8, StepsInBrief DEF Push, Handle

(* Without a stored error the word is empty whenever a call begins, so     *)
(* what a blocking send finds there is of its own datagram.                *)
LEMMA ResultStep ==
    ASSUME IInv, Next
    PROVE  ResultIsOfThisCall'
<1>t. Shapes /\ NumbersAreFresh /\ WorkIsAnnounced /\ ResultIsOfThisCall
    BY TypeIsFlagsAndShapes DEF IInv
<1> SUFFICES ASSUME reported' = {}
             PROVE  /\ \A m \in Queued' \cup {message'} :
                          m.kind = "data" /\ m.blocking =>
                              m.datagram = sends' /\ Sending' /\ result' = NoResult
                    /\ result' # NoResult =>
                          result'.of = sends' /\ Sending' /\ outcome'[sends'] = result'.is
                    /\ returned'.of # 0 =>
                          outcome'[returned'.of] = returned'.call /\ returned'.call \in Outcome
    BY DEF ResultIsOfThisCall
<1>0. reported = {}
    <2>1. reported \subseteq reported'
        BY StepsInBrief
           DEF CallStep, MarkReady, UnparkWorker, TakeResult, TakeResultLeaving, NoResultYet,
               TakePacket, NoPacketYet, Unparked, ConnectReturns, DropLost, PopPacket,
               EndControl, StopWorker, WakeReader, EndRecv, DrainEmpty, UnparkSender,
               WorkerUnparked, WorkerTimesOut, SwapReady, PopMessage, Handle,
               HandleNonblocking, HandleBlocking, HandleReadHandle, HandleConnect
    <2> QED
        BY <2>1
<1>r. /\ \A m \in Queued \cup {message} :
            m.kind = "data" /\ m.blocking =>
                m.datagram = sends /\ Sending /\ result = NoResult
      /\ result # NoResult =>
            result.of = sends /\ Sending /\ outcome[sends] = result.is
      /\ returned.of # 0 =>
            outcome[returned.of] = returned.call /\ returned.call \in Outcome
    BY <1>t, <1>0 DEF ResultIsOfThisCall
<1>a. \A w : Answered(w).of = 0
    BY DEF Answered
<1>i. user = "idle" => ~Sending
    BY DEF Sending, CallTo
<1>k. CASE /\ UNCHANGED <<result, outcome, sends, returned>>
           /\ Sending => Sending'
           /\ Queued' \cup {message'} \subseteq Queued \cup {message, Nothing}
    BY <1>r, <1>k, Kinds
<1>1. CASE QuietCall
    <2>1. user = "idle" /\ UNCHANGED <<user, next, sends, workerVars, sendRing>>
          /\ Queued' = Queued
        BY <1>1, WithWorker
           DEF QuietCall, SetNonblocking, ReportError, SendRefused, RecvFrom, RecvWouldBlock,
               RecvRefused, PopPacket
    <2>2. result = NoResult
        BY <1>r, <1>i, <2>1
    <2>3. NoResult.is \notin ReportedKinds
        BY DEF NoResult, ReportedKinds
    <2>4. result' = NoResult /\ (returned' = returned \/ returned'.of = 0)
        BY <1>1, <1>a, <2>2, <2>3
           DEF QuietCall, SetNonblocking, ReportError, SendRefused, RecvFrom, RecvWouldBlock,
               RecvRefused, PopPacket, PassesErrorCheck, AnsweredRecv
    <2> QED
        BY <1>r, <1>i, <2>1, <2>4
<1>2. CASE SendTo
    <2> DEFINE m == Data(sends + 1, mode = "blocking")
    <2>1. sends + 1 \in Datagram /\ (mode = "blocking") \in BOOLEAN
        BY <1>t, <1>2, Bounds DEF SendTo, Shapes, Datagram
    <2>2. m \in Message /\ m.datagram = sends + 1 /\ m.blocking = (mode = "blocking")
        BY <2>1, Kinds
    <2>3. /\ sendRing' = Append(sendRing, m) /\ user = "idle"
          /\ sends' = sends + 1 /\ returned'.of = 0 /\ UNCHANGED <<outcome, message>>
        BY <1>2, <1>a DEF SendTo, StartPush
    <2>4. mode = "blocking" => Sending'
        BY <1>2 DEF SendTo, StartPush, Sending, CallTo
    <2> HIDE DEF m
    <2>5. Queued' = Queued \cup {m}
        BY <1>t, <2>2, <2>3, AppendToRing DEF Queued, Shapes
    <2>6. result' = NoResult
        BY <1>2, <1>r, <1>i, <2>3 DEF SendTo, PassesErrorCheck
    <2> QED
        BY <1>r, <1>i, <2>2, <2>3, <2>4, <2>5, <2>6
<1>3. CASE RecvRegisters \/ CallConnect \/ DropPushed
    <2>1. PICK m \in {RegisterRead, Connect, DropSocket} :
             /\ sendRing' = Append(sendRing, m)
             /\ UNCHANGED <<sends, outcome, message, result>>
             /\ user = "idle" /\ (returned' = returned \/ returned'.of = 0)
        BY <1>3, <1>a DEF RecvRegisters, CallConnect, DropPushed, StartPush
    <2>2. m \in Message /\ m.kind # "data"
        BY Kinds
    <2>3. Queued' = Queued \cup {m}
        BY <1>t, <2>1, <2>2, AppendToRing DEF Queued, Shapes
    <2> QED
        BY <1>r, <1>i, <2>1, <2>2, <2>3
<1>4. CASE CallStep \/ DropLost
    <2>0. UNCHANGED <<workerVars, sendRing, sends>> /\ Queued' = Queued
        BY <1>4, WithWorker
           DEF CallStep, MarkReady, UnparkWorker, TakeResult, TakeResultLeaving, NoResultYet,
               TakePacket, NoPacketYet, Unparked, ConnectReturns, DropLost, PopPacket
    <2>1. CASE MarkReady \/ UnparkWorker \/ NoResultYet \/ Unparked
        <3>1. (Sending => Sending') /\ UNCHANGED <<result, returned>>
            BY <2>1 DEF MarkReady, UnparkWorker, NoResultYet, Unparked, Sending, CallTo
        <3> QED
            BY <1>k, <2>0, <3>1
    <2>2. CASE TakeResult
        <3>1. /\ result # NoResult /\ result' = NoResult
              /\ returned' = AnsweredSend(result.is, sends)
            BY <2>2 DEF TakeResult, TakeResultLeaving
        <3>2. returned'.of = sends /\ returned'.call = result.is /\ result.is \in Outcome
            BY <1>t, <3>1 DEF AnsweredSend, Shapes
        <3> QED
            BY <1>r, <2>0, <3>1, <3>2
    <2>3. CASE TakePacket \/ NoPacketYet \/ ConnectReturns \/ DropLost
        <3>1. ~Sending /\ result' = result /\ (returned' = returned \/ returned'.of = 0)
            BY <2>3, <1>a
               DEF TakePacket, NoPacketYet, ConnectReturns, DropLost, PopPacket, AnsweredRecv,
                   Sending, CallTo
        <3> QED
            BY <1>r, <2>0, <3>1
    <2> QED
        BY <1>4, <2>1, <2>2, <2>3 DEF CallStep
<1>5. CASE HandleNonblocking \/ HandleBlocking
    <2>1. PICK o \in Outcome :
             /\ message.kind = "data" /\ message' = Nothing
             /\ outcome' = [outcome EXCEPT ![message.datagram] = o]
             /\ \/ ~message.blocking /\ result' = result
                \/ message.blocking /\ result' = [of |-> message.datagram, is |-> o]
             /\ UNCHANGED <<userVars, sendRing>>
        <3>1. CASE HandleNonblocking
            <4>1. PICK o \in Outcome :
                     /\ SendDatagram(o) /\ ~message.blocking
                     /\ IF o \in ReportedKinds
                        THEN reported' = reported \cup {message.datagram}
                        ELSE result' = result
                     /\ UNCHANGED <<userVars, sendRing>>
                BY <3>1 DEF HandleNonblocking
            <4>2. result' = result
                BY <4>1
            <4> QED
                BY <4>1, <4>2 DEF SendDatagram, SendDatagramReturning
        <3>2. CASE HandleBlocking
            BY <3>2 DEF HandleBlocking, SendDatagram, SendDatagramReturning
        <3> QED
            BY <1>5, <3>1, <3>2
    <2>2. message.datagram \in Datagram /\ outcome[message.datagram] = "none"
        BY <1>t, <2>1, Kinds DEF Shapes, NumbersAreFresh
    <2>3. outcome'[message.datagram] = o
          /\ \A n \in Datagram : n # message.datagram => outcome'[n] = outcome[n]
        BY <1>t, <2>1, <2>2 DEF Shapes
    <2>4. Queued' = Queued /\ (Sending' <=> Sending)
        BY <2>1, WithWorker DEF Sending, CallTo
    <2>5. "none" \notin Outcome
        BY DEF Outcome
    <2>6. returned'.of # 0 =>
             outcome'[returned'.of] = returned'.call /\ returned'.call \in Outcome
        BY <1>t, <1>r, <2>1, <2>2, <2>3, <2>5 DEF Shapes, Datagram
    <2>7. CASE message.blocking
        <3>1. message.datagram = sends /\ Sending /\ result = NoResult
            BY <1>r, <2>1, <2>7
        <3>2. \A m \in Queued : ~(m.kind = "data" /\ m.blocking)
            BY <1>t, <1>r, <2>1, <3>1 DEF NumbersAreFresh
        <3>3. result' = [of |-> message.datagram, is |-> o] /\ sends' = sends
            BY <2>1, <2>7
        <3>4. Nothing.kind # "data" /\ message' = Nothing
            BY <2>1, Kinds
        <3> QED
            BY <2>3, <2>4, <2>6, <3>1, <3>2, <3>3, <3>4
    <2>8. CASE ~message.blocking
        <3>1. result' = result /\ sends' = sends
            BY <2>1, <2>8
        <3>2. result # NoResult => outcome'[sends] = outcome[sends] /\ outcome[sends] = result.is
            <4>1. result # NoResult => result.is \in Outcome /\ result.of \in Datagram
                BY <1>t DEF Shapes
            <4> QED
                BY <1>r, <2>2, <2>3, <2>5, <4>1
        <3>3. Nothing.kind # "data" /\ message' = Nothing
            BY <2>1, Kinds
        <3> QED
            BY <1>r, <2>4, <2>6, <3>1, <3>2, <3>3
    <2> QED
        BY <2>7, <2>8
<1>6. CASE HandleReadHandle \/ HandleConnect
    <2>1. message' = Nothing /\ UNCHANGED <<userVars, outcome, result, sendRing>>
        BY <1>6 DEF HandleReadHandle, HandleConnect
    <2> QED
        BY <1>k, <2>1, WithWorker DEF Sending, CallTo
<1>7. CASE PopMessage
    <2>1. UNCHANGED <<userVars, outcome, result>>
        BY <1>7 DEF PopMessage
    <2> QED
        BY <1>k, <1>7, <2>1, WithWorker DEF Sending, CallTo
<1>8. CASE EndControl \/ StopWorker \/ WakeReader \/ EndRecv \/ DrainEmpty \/ UnparkSender
           \/ WorkerUnparked \/ WorkerTimesOut \/ SwapReady
    <2>1. UNCHANGED <<userVars, outcome, result, sendRing, message>>
        BY <1>8
           DEF EndControl, StopWorker, WakeReader, EndRecv, DrainEmpty, UnparkSender,
               WorkerUnparked, WorkerTimesOut, SwapReady
    <2> QED
        BY <1>k, <2>1, WithWorker DEF Sending, CallTo
<1>9. CASE UNCHANGED <<userVars, outcome, result, sendRing, message>>
    BY <1>k, <1>9, WithWorker DEF Sending, CallTo
<1> QED
    BY <1>1, <1>2, <1>3, <1>4, <1>5, <1>6, <1>7, <1>8, <1>9, StepsInBrief DEF Push, Handle

-----------------------------------------------------------------------------
(* The theorems *)

LEMMA InitInvariant == Init => IInv
<1> SUFFICES ASSUME Init PROVE IInv
    OBVIOUS
<1>1. sendRing = <<>> /\ message = Nothing /\ pool = PoolSize /\ sends = 0
      /\ reported = {} /\ result = NoResult /\ user = "idle" /\ worker = "control"
      /\ returned = Answered("none") /\ outcome = [n \in Datagram |-> "none"]
      /\ ~ready /\ bound
    BY DEF Init
<1>2. Len(sendRing) = 0 /\ sendRing \in Seq(Message)
    BY <1>1, EmptySeq
<1>3. Queued = {} /\ Flying(sendRing) = {} /\ Held(message) = 0 /\ message.kind # "data"
    BY <1>1, <1>2, Kinds DEF Queued, Elements, Flying, Held
<1>4. Flags
    BY Zenon DEF Init, Flags
<1>5. Shapes
    <2>1. recvRing = <<>> /\ recvRing \in Seq(Source) /\ Len(recvRing) = 0
        BY EmptySeq DEF Init
    <2>2. StartMode \in {"blocking", "nonblocking"}
        BY UdpSocketAssumption DEF UdpSocketAssumption
    <2>3. returned.of = 0 /\ returned.source = Peer
        BY <1>1 DEF Answered
    <2>4. message \in Message
        BY <1>1, Kinds
    <2> QED
        BY <1>1, <1>2, <2>1, <2>2, <2>3, <2>4, Bounds DEF Init, Shapes
<1>6. BuffersAreConserved
    BY <1>1, <1>3, FS_EmptySet, Bounds DEF BuffersAreConserved, Flying, Held
<1>7. WorkIsAnnounced /\ DropIsLast
    BY <1>1, <1>2 DEF WorkIsAnnounced, DropIsLast
<1>8. ~Sending /\ ~Reading /\ ~Connecting
    BY <1>1 DEF Sending, Reading, Connecting, CallTo
<1>9. NumbersAreFresh /\ ResultIsOfThisCall
    BY <1>1, <1>2, <1>3 DEF NumbersAreFresh, ResultIsOfThisCall, Answered
<1> QED
    BY <1>4, <1>5, <1>6, <1>7, <1>8, <1>9, TypeIsFlagsAndShapes
       DEF IInv, SenderIsAnswered, ReaderIsWoken, ConnectorIsAnswered

LEMMA NextInvariant == IInv /\ [Next]_vars => IInv'
<1>1. ASSUME IInv, Next PROVE IInv'
    <2>1. TypeOK'
        <3>1. Flags' /\ Shapes'
            BY <1>1, FlagsStep, ShapesStep, TypeIsFlagsAndShapes DEF IInv
        <3> QED
            BY <3>1, Zenon DEF TypeOK, Flags, Shapes
    <2> QED
        BY <1>1, <2>1, BuffersStep, WorkStep, DropStep, SenderStep, ReaderStep,
           ConnectorStep, FreshStep, ResultStep DEF IInv
<1>2. ASSUME IInv, UNCHANGED vars PROVE IInv'
    <2>1. TypeOK'
        BY <1>2 DEF IInv, TypeOK
    <2>2. BuffersAreConserved'
        BY <1>2 DEF IInv, BuffersAreConserved
    <2>3. Queued' = Queued /\ (Sending' <=> Sending) /\ (Reading' <=> Reading)
          /\ (Leaving' <=> Leaving) /\ (Connecting' <=> Connecting)
        BY <1>2 DEF Queued, Elements, Sending, Reading, Leaving, Connecting, CallTo
    <2>4. WorkIsAnnounced' /\ DropIsLast'
        BY <1>2, <2>3 DEF IInv, WorkIsAnnounced, DropIsLast
    <2>5. SenderIsAnswered' /\ ReaderIsWoken' /\ ConnectorIsAnswered'
        BY <1>2, <2>3 DEF IInv, SenderIsAnswered, ReaderIsWoken, ConnectorIsAnswered
    <2>6. NumbersAreFresh' /\ ResultIsOfThisCall'
        BY <1>2, <2>3 DEF IInv, NumbersAreFresh, ResultIsOfThisCall
    <2> QED
        BY <2>1, <2>2, <2>4, <2>5, <2>6 DEF IInv
<1> QED
    BY <1>1, <1>2

(* The invariant holds in every state the two threads can reach.           *)
THEOREM Invariance == SafeSpec => []IInv
BY InitInvariant, NextInvariant, PTL DEF SafeSpec

(* The state always has its shape; no ring and no pool is beyond its size. *)
THEOREM TypeCorrect == SafeSpec => []TypeOK
<1>1. IInv => TypeOK
    BY DEF IInv
<1> QED
    BY <1>1, Invariance, PTL

(* Neither the worker, nor a blocked sender, nor a blocked reader ever     *)
(* sleeps without a token while what it waits for is there, and a caller   *)
(* of connect never waits for an answer that nobody owes it.               *)
THEOREM Wakefulness == SafeSpec => []NobodySleepsOnWork
<1>1. ASSUME IInv PROVE NobodySleepsOnWork
    <2>1. WorkIsAnnounced /\ SenderIsAnswered /\ ReaderIsWoken /\ ConnectorIsAnswered /\ Shapes
        BY <1>1, TypeIsFlagsAndShapes DEF IInv
    <2>2. WorkerSleepsOnNothing
        BY <2>1 DEF WorkIsAnnounced, WorkerSleepsOnNothing
    <2>3. SenderSleepsOnOwnDatagram
        <3>1. Data(sends, TRUE) # Nothing
            BY DEF Data, Nothing
        <3> QED
            BY <2>1, <3>1
               DEF SenderIsAnswered, WorkIsAnnounced, SenderSleepsOnOwnDatagram, Sending,
                   Queued, Elements
    <2>4. ReaderSleepsOnNoPacket
        <3>1. RegisterRead \in Queued => InRing("read_handle")
            BY Kinds DEF Queued, Elements, InRing
        <3>2. message = RegisterRead => worker = "handle"
            BY <2>1, Kinds DEF WorkIsAnnounced
        <3> QED
            BY <2>1, <3>1, <3>2 DEF ReaderIsWoken, ReaderSleepsOnNoPacket, Reading
    <2>5. ConnectorWaitsForItsAnswer
        <3>1. Connect \in Queued => InRing("connect")
            BY DEF Connect, Queued, Elements, InRing
        <3>2. message = Connect => worker = "handle"
            BY <2>1, Kinds DEF WorkIsAnnounced
        <3> QED
            BY <2>1, <3>1, <3>2 DEF ConnectorIsAnswered, ConnectorWaitsForItsAnswer, Connecting
    <2> QED
        BY <2>2, <2>3, <2>4, <2>5 DEF NobodySleepsOnWork
<1> QED
    BY <1>1, Invariance, PTL

(* Every buffer of the pool is free, in the ring or in the worker's hands. *)
THEOREM Conservation == SafeSpec => []BuffersAreConserved
<1>1. IInv => BuffersAreConserved
    BY DEF IInv
<1> QED
    BY <1>1, Invariance, PTL

(* As long as no error of a nonblocking send has been stored, a blocking   *)
(* send returns what became of the datagram it was given.                  *)
THEOREM OwnResult == SafeSpec => []BlockingResultIsOwn
<1>1. IInv => BlockingResultIsOwn
    BY DEF IInv, ResultIsOfThisCall, BlockingResultIsOwn
<1> QED
    BY <1>1, Invariance, PTL
-----------------------------------------------------------------------------
(* The order of the datagrams *)

(* A datagram that has no outcome is with the worker, and those that are   *)
(* stand in the order of their calls, the one being handled before all.    *)
IsWithWorker(n) == \E b \in BOOLEAN : Data(n, b) \in Queued \cup {message}

SendsWaitInOrder ==
    /\ \A n \in Datagram : n <= sends /\ outcome[n] = "none" => IsWithWorker(n)
    /\ \A i, j \in 1 .. Len(sendRing) :
          sendRing[i].kind = "data" /\ sendRing[j].kind = "data" /\ i < j =>
              sendRing[i].datagram < sendRing[j].datagram
    /\ \A i \in 1 .. Len(sendRing) :
          sendRing[i].kind = "data" /\ message.kind = "data" =>
              message.datagram < sendRing[i].datagram

LEMMA InitOrder == Init => SendsWaitInOrder
<1> SUFFICES ASSUME Init PROVE SendsWaitInOrder
    OBVIOUS
<1>1. Len(sendRing) = 0 /\ sends = 0
    BY EmptySeq DEF Init
<1> QED
    BY <1>1 DEF SendsWaitInOrder, Datagram

LEMMA OrderStep ==
    ASSUME IInv, SendsWaitInOrder, Next
    PROVE  SendsWaitInOrder'
<1>t. Shapes /\ NumbersAreFresh /\ WorkIsAnnounced
    BY TypeIsFlagsAndShapes DEF IInv
<1>r. /\ sendRing \in Seq(Message) /\ Len(sendRing) \in Nat /\ message \in Message
      /\ sends \in Nat
    BY <1>t, LenProperties, Bounds DEF Shapes
<1>1. CASE UNCHANGED <<sends, outcome, sendRing, message>>
    BY <1>1 DEF SendsWaitInOrder, IsWithWorker, Queued, Elements
<1>2. ASSUME NEW m \in Message, sendRing' = Append(sendRing, m),
             UNCHANGED <<outcome, message>>,
             \/ m.kind # "data" /\ sends' = sends
             \/ m.kind = "data" /\ m.datagram = sends + 1 /\ sends' = sends + 1
      PROVE  SendsWaitInOrder'
    <2>1. /\ Queued' = Queued \cup {m} /\ Len(sendRing') = Len(sendRing) + 1
          /\ \A i \in 1 .. Len(sendRing) : sendRing'[i] = sendRing[i]
          /\ sendRing'[Len(sendRing) + 1] = m
        BY <1>r, <1>2, AppendToRing DEF Queued
    <2>2. \A i \in 1 .. Len(sendRing') :
             \/ i \in 1 .. Len(sendRing) /\ sendRing'[i] = sendRing[i]
             \/ i = Len(sendRing) + 1 /\ sendRing'[i] = m
        BY <1>r, <2>1
    <2>3. \A x \in Queued \cup {message} : x.kind = "data" =>
             x.datagram \in Nat /\ x.datagram <= sends
        <3>1. Queued \subseteq Message
            BY <1>r, ElementOfSeq DEF Queued, Elements
        <3> QED
            BY <1>t, <1>r, <3>1, Kinds DEF NumbersAreFresh, Datagram
    <2>4. \A i \in 1 .. Len(sendRing) : sendRing[i] \in Queued
        BY DEF Queued, Elements
    <2>5. ASSUME NEW n \in Datagram, n <= sends', outcome'[n] = "none"
          PROVE  IsWithWorker(n)'
        <3>1. CASE n <= sends
            <4>1. IsWithWorker(n)
                BY <1>2, <2>5, <3>1 DEF SendsWaitInOrder
            <4> QED
                BY <1>2, <2>1, <4>1 DEF IsWithWorker
        <3>2. CASE ~(n <= sends)
            <4>1. m.kind = "data" /\ m.datagram = n
                BY <1>r, <1>2, <2>5, <3>2 DEF Datagram
            <4>2. m.blocking \in BOOLEAN /\ m = Data(n, m.blocking)
                BY <4>1, Kinds
            <4> QED
                BY <2>1, <4>2 DEF IsWithWorker
        <3> QED
            BY <3>1, <3>2
    <2>6. ASSUME NEW i \in 1 .. Len(sendRing'), NEW j \in 1 .. Len(sendRing'), i < j,
                 sendRing'[i].kind = "data", sendRing'[j].kind = "data"
          PROVE  sendRing'[i].datagram < sendRing'[j].datagram
        <3>1. i \in 1 .. Len(sendRing) /\ sendRing'[i] = sendRing[i]
            BY <1>r, <2>1, <2>2, <2>6
        <3>2. CASE j \in 1 .. Len(sendRing)
            BY <2>1, <2>6, <3>1, <3>2 DEF SendsWaitInOrder
        <3>3. CASE sendRing'[j] = m
            <4>1. sendRing[i].datagram \in Nat /\ sendRing[i].datagram <= sends
                BY <2>3, <2>4, <2>6, <3>1
            <4> QED
                BY <1>r, <1>2, <2>6, <3>1, <3>3, <4>1
        <3> QED
            BY <2>2, <3>2, <3>3
    <2>7. ASSUME NEW i \in 1 .. Len(sendRing'), sendRing'[i].kind = "data",
                 message'.kind = "data"
          PROVE  message'.datagram < sendRing'[i].datagram
        <3>1. message'.datagram \in Nat /\ message'.datagram <= sends /\ message' = message
            BY <1>2, <2>3, <2>7
        <3> QED
            BY <1>r, <1>2, <2>2, <2>7, <3>1 DEF SendsWaitInOrder
    <2> QED
        BY <2>5, <2>6, <2>7 DEF SendsWaitInOrder
<1>3. CASE SendTo
    <2>1. sends + 1 \in Datagram /\ (mode = "blocking") \in BOOLEAN
        BY <1>t, <1>3, Bounds DEF SendTo, Shapes, Datagram
    <2>2. /\ sendRing' = Append(sendRing, Data(sends + 1, mode = "blocking"))
          /\ sends' = sends + 1 /\ UNCHANGED <<outcome, message>>
        BY <1>3 DEF SendTo, StartPush
    <2> QED
        BY <1>2, <2>1, <2>2, Kinds
<1>4. CASE RecvRegisters \/ CallConnect \/ DropPushed
    <2>1. PICK m \in {RegisterRead, Connect, DropSocket} :
             /\ sendRing' = Append(sendRing, m) /\ UNCHANGED <<sends, outcome, message>>
        BY <1>4 DEF RecvRegisters, CallConnect, DropPushed, StartPush
    <2> QED
        BY <1>2, <2>1, Kinds
<1>5. CASE PopMessage
    <2>0. sendRing # <<>> /\ sendRing' = Tail(sendRing) /\ UNCHANGED <<sends, outcome>>
          /\ message = Nothing /\ message.kind # "data"
        BY <1>t, <1>5, Kinds DEF PopMessage, WorkIsAnnounced
    <2>1. /\ Head(sendRing) = sendRing[1]
          /\ Len(sendRing) >= 1 /\ Len(sendRing') = Len(sendRing) - 1
          /\ \A i \in 1 .. Len(sendRing) - 1 : sendRing'[i] = sendRing[i + 1]
          /\ Queued = Queued' \cup {Head(sendRing)}
        BY <1>r, <2>0, TailOfRing DEF Queued
    <2>2. \/ Head(sendRing) = DropSocket /\ message' = message
          \/ message' = Head(sendRing)
        BY <1>5 DEF PopMessage
    <2>3. \A i \in 1 .. Len(sendRing') :
             /\ i + 1 \in 1 .. Len(sendRing) /\ 1 < i + 1
             /\ sendRing'[i] = sendRing[i + 1]
        BY <1>r, <2>1
    <2>4. ASSUME NEW n \in Datagram, n <= sends', outcome'[n] = "none"
          PROVE  IsWithWorker(n)'
        <3>1. PICK b \in BOOLEAN : Data(n, b) \in Queued \cup {message}
            BY <2>0, <2>4 DEF SendsWaitInOrder, IsWithWorker
        <3>2. Data(n, b) # message /\ Data(n, b) # DropSocket
            BY <2>0, Kinds
        <3>3. Data(n, b) \in Queued' \cup {message'}
            BY <2>1, <2>2, <3>1, <3>2
        <3> QED
            BY <3>3 DEF IsWithWorker
    <2>5. ASSUME NEW i \in 1 .. Len(sendRing'), NEW j \in 1 .. Len(sendRing'), i < j,
                 sendRing'[i].kind = "data", sendRing'[j].kind = "data"
          PROVE  sendRing'[i].datagram < sendRing'[j].datagram
        <3>1. i + 1 < j + 1
            BY <1>r, <2>1, <2>5
        <3> QED
            BY <2>3, <2>5, <3>1 DEF SendsWaitInOrder
    <2>6. ASSUME NEW i \in 1 .. Len(sendRing'), sendRing'[i].kind = "data",
                 message'.kind = "data"
          PROVE  message'.datagram < sendRing'[i].datagram
        <3>1. message' = sendRing[1] /\ 1 \in 1 .. Len(sendRing)
            BY <1>r, <2>0, <2>1, <2>2, <2>6
        <3> QED
            BY <2>3, <2>6, <3>1 DEF SendsWaitInOrder
    <2> QED
        BY <2>4, <2>5, <2>6 DEF SendsWaitInOrder
<1>6. CASE Handle
    <2>1. message' = Nothing /\ message'.kind # "data" /\ UNCHANGED <<sends, sendRing>>
        BY <1>6, Kinds
           DEF Handle, HandleNonblocking, HandleBlocking, HandleReadHandle, HandleConnect,
               SendDatagram, SendDatagramReturning
    <2>2. ASSUME NEW n \in Datagram, n <= sends', outcome'[n] = "none"
          PROVE  IsWithWorker(n)'
        <3>1. outcome[n] = "none" /\ ~(message.kind = "data" /\ message.datagram = n)
            <4>1. CASE HandleReadHandle \/ HandleConnect
                <5>1. outcome' = outcome /\ message \in {RegisterRead, Connect}
                    BY <4>1 DEF HandleReadHandle, HandleConnect
                <5> QED
                    BY <2>2, <5>1, Kinds
            <4>2. CASE HandleNonblocking \/ HandleBlocking
                <5>1. PICK o \in Outcome :
                         outcome' = [outcome EXCEPT ![message.datagram] = o]
                    BY <4>2 DEF HandleNonblocking, HandleBlocking, SendDatagram,
                                SendDatagramReturning
                <5>2. o # "none"
                    BY DEF Outcome
                <5> QED
                    BY <1>t, <2>2, <5>1, <5>2 DEF Shapes
            <4> QED
                BY <1>6, <4>1, <4>2 DEF Handle
        <3>2. PICK b \in BOOLEAN : Data(n, b) \in Queued \cup {message}
            BY <2>1, <2>2, <3>1 DEF SendsWaitInOrder, IsWithWorker
        <3>3. Data(n, b) # message
            BY <3>1, Kinds
        <3>4. Data(n, b) \in Queued'
            BY <2>1, <3>2, <3>3 DEF Queued, Elements
        <3> QED
            BY <3>4 DEF IsWithWorker
    <2> QED
        BY <2>1, <2>2 DEF SendsWaitInOrder
<1>7. CASE CallStep \/ DropLost
    BY <1>1, <1>7
       DEF CallStep, MarkReady, UnparkWorker, TakeResult, TakeResultLeaving, NoResultYet,
           TakePacket, NoPacketYet, Unparked, ConnectReturns, DropLost, PopPacket
<1>8. CASE EndControl \/ StopWorker \/ WakeReader \/ EndRecv \/ DrainEmpty \/ UnparkSender
           \/ WorkerUnparked \/ WorkerTimesOut \/ SwapReady
    BY <1>1, <1>8
       DEF EndControl, StopWorker, WakeReader, EndRecv, DrainEmpty, UnparkSender,
           WorkerUnparked, WorkerTimesOut, SwapReady
<1>9. CASE QuietCall
    BY <1>1, <1>9
       DEF QuietCall, SetNonblocking, ReportError, SendRefused, RecvFrom, RecvWouldBlock,
           RecvRefused
<1> QED
    BY <1>1, <1>3, <1>4, <1>5, <1>6, <1>7, <1>8, <1>9, StepsInBrief DEF Push

(* Only a Handle step decides a fate, that of the datagram in hand, and    *)
(* all the earlier ones have left the worker.                              *)
LEMMA FateStep ==
    ASSUME IInv, SendsWaitInOrder, Next,
           NEW n \in Datagram, outcome'[n] # outcome[n]
    PROVE  outcome[n] = "none" /\ \A m \in 1 .. n - 1 : outcome[m] # "none"
<1>t. Shapes /\ NumbersAreFresh
    BY TypeIsFlagsAndShapes DEF IInv
<1>1. HandleNonblocking \/ HandleBlocking
    BY StepsInBrief
       DEF QuietCall, SetNonblocking, ReportError, SendRefused, RecvFrom, RecvWouldBlock,
           RecvRefused, Push, SendTo, RecvRegisters, CallConnect, DropPushed, CallStep,
           MarkReady, UnparkWorker, TakeResult, TakeResultLeaving, NoResultYet, TakePacket,
           NoPacketYet, Unparked, ConnectReturns, DropLost, Handle, HandleReadHandle,
           HandleConnect, EndControl, StopWorker, WakeReader, EndRecv, SwapReady,
           PopMessage, DrainEmpty, UnparkSender, WorkerUnparked, WorkerTimesOut
<1>2. PICK o \in Outcome :
         /\ message.kind = "data"
         /\ outcome' = [outcome EXCEPT ![message.datagram] = o]
    BY <1>1 DEF HandleNonblocking, HandleBlocking, SendDatagram, SendDatagramReturning
<1>3. message.datagram = n /\ n <= sends /\ outcome[n] = "none" /\ sends \in Nat
    BY <1>t, <1>2, Bounds DEF Shapes, NumbersAreFresh
<1>4. ASSUME NEW m \in 1 .. n - 1, outcome[m] = "none"
      PROVE  FALSE
    <2>1. m \in Datagram /\ m < n /\ m <= sends
        BY <1>3, <1>4, Bounds DEF Datagram
    <2>2. PICK b \in BOOLEAN : Data(m, b) \in Queued \cup {message}
        BY <1>4, <2>1 DEF SendsWaitInOrder, IsWithWorker
    <2>3. Data(m, b).kind = "data" /\ Data(m, b).datagram = m
        BY <2>1, Kinds
    <2>4. Data(m, b) # message
        BY <1>3, <2>1, <2>3 DEF Datagram
    <2>5. PICK i \in 1 .. Len(sendRing) : sendRing[i] = Data(m, b)
        BY <2>2, <2>4 DEF Queued, Elements
    <2>6. n < m
        BY <1>2, <1>3, <2>3, <2>5 DEF SendsWaitInOrder
    <2> QED
        BY <2>1, <2>6 DEF Datagram
<1> QED
    BY <1>3, <1>4

(* Each datagram goes out once, after all those of earlier calls, whatever *)
(* mode they were sent in and whatever became of them.                     *)
THEOREM OnceInOrder == SafeSpec => DatagramsGoOnceInOrder
<1> DEFINE Moves == \A n \in Datagram : outcome'[n] # outcome[n] =>
                       outcome[n] = "none" /\ \A m \in 1 .. n - 1 : outcome[m] # "none"
<1>1. Init => IInv /\ SendsWaitInOrder
    BY InitInvariant, InitOrder
<1>2. IInv /\ SendsWaitInOrder /\ [Next]_vars => (IInv /\ SendsWaitInOrder)'
    <2>1. ASSUME SendsWaitInOrder, UNCHANGED vars PROVE SendsWaitInOrder'
        BY <2>1 DEF SendsWaitInOrder, IsWithWorker, Queued, Elements
    <2> QED
        BY <2>1, NextInvariant, OrderStep
<1>3. IInv /\ SendsWaitInOrder /\ [Next]_vars => [Moves]_vars
    BY FateStep
<1> QED
    BY <1>1, <1>2, <1>3, PTL DEF SafeSpec, DatagramsGoOnceInOrder
=============================================================================
