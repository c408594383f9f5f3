------------------------------ MODULE UdpSocket ------------------------------
(***************************************************************************)
(* One UDP socket: the thread that uses it and the interface worker        *)
(* (src/lib/src/runtime/interface/l4_managers/udp.rs and its submodules).  *)
(*                                                                         *)
(* They share a ring in each direction, the socket's ready bit, one atomic *)
(* word for the result of a send, and each other's park token.  Every push *)
(* by the user is three atomic steps (ring, bit, unpark); the worker       *)
(* handles one message in up to three (pop, send and store, unpark).       *)
(*                                                                         *)
(* A datagram is its number; what the network makes of it is any of the    *)
(* results send_datagram can return.  A received packet is its source.     *)
(***************************************************************************)
EXTENDS Naturals, Sequences, FiniteSets, SequencesExt

CONSTANTS
    Source,         \* where packets come from
    Peer,           \* the one the socket connects to
    Modes,          \* the values set_nonblocking is called with
    StartMode,      \* the mode the socket is first put in
    SendCapacity,   \* size of the ring to the worker (1024)
    RecvCapacity,   \* size of the ring from the worker (1024)
    PoolSize,       \* buffers a socket may have in flight (64)
    MaxSends,       \* bound: send_to calls
    MaxRecvs,       \* bound: packets received for the socket
    MaxControls     \* bound: connect calls

ASSUME UdpSocketAssumption ==
    /\ Peer \in Source
    /\ Modes \subseteq {"blocking", "nonblocking"}
    /\ StartMode \in {"blocking", "nonblocking"}
    /\ {SendCapacity, RecvCapacity, PoolSize} \subseteq Nat \ {0}
    /\ PoolSize <= SendCapacity
    /\ {MaxSends, MaxRecvs, MaxControls} \subseteq Nat

VARIABLES
    user,           \* where the user thread stands
    next,           \* where it goes once a push is complete
    mode,           \* shared_state.is_nonblocking
    userToken,      \* the user thread's park token
    returned,       \* what the last call returned
    sends,          \* datagrams accepted by send_inner; names the next one
    controls,       \* connect calls so far
    sendRing,       \* send_tx / send_rx
    recvRing,       \* recv_tx / recv_rx
    ready,          \* the socket's bit in ready_bits
    pool,           \* free buffers of the socket's pool
    result,         \* shared_state.send_result
    worker,         \* where the worker stands
    workerToken,    \* the worker's park token
    message,        \* the message being handled
    waking,         \* read_wake_handle is registered
    peer,           \* the handle's peer_addr: connected or not
    connectReply,   \* the oneshot of the connect call: empty or its value
    bound,          \* the handle is in the manager's port bindings
    outcome,        \* what became of each datagram
    reported,       \* the nonblocking ones whose error was stored
    recvs           \* packets received for the socket so far

fate == <<outcome, reported>>
userVars == <<user, next, mode, returned, sends, controls>>
workerVars == <<worker, message, waking, peer, bound, fate, recvs>>
vars == <<userVars, workerVars, userToken, workerToken, sendRing, recvRing, ready, pool,
          result, connectReply>>

Datagram == 1 .. MaxSends
(* The two unreachable errors are told apart nowhere but in their wording.   *)
Outcome == {"ok", "unreachable", "other"}

(* The shared word holds no result, or the result of some datagram.  Which  *)
(* one it is of is not stored by the code; it is kept here for the          *)
(* properties.                                                              *)
NoResult == [of |-> 0, is |-> "none"]

Nothing == [kind |-> "nothing"]
Data(n, blocks) == [kind |-> "data", datagram |-> n, blocking |-> blocks]
RegisterRead == [kind |-> "read_handle"]
Connect == [kind |-> "connect"]
DropSocket == [kind |-> "drop"]

Answered(what) == [call |-> what, of |-> 0, source |-> Peer]
AnsweredSend(what, n) == [call |-> what, of |-> n, source |-> Peer]
AnsweredRecv(from) == [call |-> "recv", of |-> 0, source |-> from]

Init ==
    /\ user = "idle"
    /\ next = "idle"
    /\ mode = StartMode
    /\ userToken = FALSE
    /\ returned = Answered("none")
    /\ sends = 0
    /\ controls = 0
    /\ sendRing = <<>>
    /\ recvRing = <<>>
    /\ ready = FALSE
    /\ pool = PoolSize
    /\ result = NoResult
    /\ worker = "control"
    /\ workerToken = FALSE
    /\ message = Nothing
    /\ waking = FALSE
    /\ peer = FALSE
    /\ connectReply = "empty"
    /\ bound = TRUE
    /\ outcome = [n \in Datagram |-> "none"]
    /\ reported = {}
    /\ recvs = 0

-----------------------------------------------------------------------------
(* UdpSocketContext::try_push *)

(* Mutant: the last slot is counted twice. *)
SendRingHasRoomOffByOne == Len(sendRing) <= SendCapacity

SendRingHasRoom == Len(sendRing) < SendCapacity

(* The ring takes the message; the call goes on at `then` after two more steps. *)
StartPush(m, then) ==
    /\ SendRingHasRoom
    /\ sendRing' = Append(sendRing, m)
    /\ user' = "mark"
    /\ next' = then

MarkReady ==
    /\ user = "mark"
    /\ ready' = TRUE
    /\ user' = "unpark"
    /\ UNCHANGED <<next, mode, returned, sends, controls, workerVars, userToken, workerToken,
                   sendRing, recvRing, pool, result, connectReply>>

UnparkWorker ==
    /\ user = "unpark"
    /\ workerToken' = TRUE
    /\ user' = next
    /\ UNCHANGED <<next, mode, returned, sends, controls, workerVars, userToken, sendRing,
                   recvRing, ready, pool, result, connectReply>>

-----------------------------------------------------------------------------
(* The calls of the user thread *)

SetNonblocking ==
    /\ user = "idle"
    /\ \E m \in Modes : m # mode /\ mode' = m
    /\ UNCHANGED <<user, next, returned, sends, controls, workerVars, userToken, workerToken,
                   sendRing, recvRing, ready, pool, result, connectReply>>

(* load_non_blocking_and_check_errors: a stored error to report ends the    *)
(* call; on the nonblocking path the word is emptied whatever it held.      *)
ReportedKinds == {"unreachable"}

ReportError ==
    /\ user = "idle"
    /\ mode = "nonblocking"
    /\ result.is \in ReportedKinds
    /\ result' = NoResult
    /\ returned' = AnsweredSend(result.is, result.of)
    /\ UNCHANGED <<user, next, mode, sends, controls, workerVars, userToken, workerToken,
                   sendRing, recvRing, ready, pool, connectReply>>

PassesErrorCheck ==
    IF mode = "nonblocking"
    THEN result.is \notin ReportedKinds /\ result' = NoResult
    ELSE UNCHANGED result

(* send_to: send_inner accepts the datagram; a blocking call then waits.    *)
SendTo ==
    /\ user = "idle"
    /\ sends < MaxSends
    /\ PassesErrorCheck
    /\ pool > 0
    /\ pool' = pool - 1
    /\ LET blocks == mode = "blocking"
       IN  StartPush(Data(sends + 1, blocks), IF blocks THEN "await_result" ELSE "idle")
    /\ sends' = sends + 1
    /\ returned' = Answered("none")
    /\ UNCHANGED <<mode, controls, workerVars, userToken, workerToken, recvRing, ready,
                   connectReply>>

(* send_to: no buffer is left, or the ring is full.                         *)
SendRefused ==
    /\ user = "idle"
    /\ sends < MaxSends
    /\ PassesErrorCheck
    /\ pool = 0 \/ ~SendRingHasRoom
    /\ returned' = Answered("out_of_memory")
    /\ UNCHANGED <<user, next, mode, sends, controls, workerVars, userToken, workerToken,
                   sendRing, recvRing, ready, pool, connectReply>>

(* send_to_blocking: the word is swapped for zero; what it held is the      *)
(* answer, and nothing in it means another park.                            *)
TakeResultLeaving(left) ==
    /\ user = "await_result"
    /\ result # NoResult
    /\ result' = left
    /\ returned' = AnsweredSend(result.is, sends)
    /\ user' = "idle"
    /\ UNCHANGED <<next, mode, sends, controls, workerVars, userToken, workerToken, sendRing,
                   recvRing, ready, pool, connectReply>>

(* Mutant: the word is loaded and keeps its value. *)
TakeResultLoads == TakeResultLeaving(result)

TakeResult == TakeResultLeaving(NoResult)

NoResultYet ==
    /\ user = "await_result"
    /\ result = NoResult
    /\ user' = "park_result"
    /\ UNCHANGED <<next, mode, returned, sends, controls, workerVars, userToken, workerToken,
                   sendRing, recvRing, ready, pool, result, connectReply>>

(* recv_from: a packet is there, at once or after a wait.                   *)
PopPacket ==
    /\ recvRing' = Tail(recvRing)
    /\ returned' = AnsweredRecv(Head(recvRing))
    /\ user' = "idle"

RecvFrom ==
    /\ user = "idle"
    /\ PassesErrorCheck
    /\ recvRing # <<>>
    /\ PopPacket
    /\ UNCHANGED <<next, mode, sends, controls, workerVars, userToken, workerToken, sendRing,
                   ready, pool, connectReply>>

RecvWouldBlock ==
    /\ user = "idle"
    /\ mode = "nonblocking"
    /\ PassesErrorCheck
    /\ recvRing = <<>>
    /\ returned' = Answered("would_block")
    /\ UNCHANGED <<user, next, mode, sends, controls, workerVars, userToken, workerToken,
                   sendRing, recvRing, ready, pool, connectReply>>

(* register_self_for_wake, which needs room in the ring as any message.     *)
RecvRegisters ==
    /\ user = "idle"
    /\ mode = "blocking"
    /\ recvRing = <<>>
    /\ StartPush(RegisterRead, "await_packet")
    /\ returned' = Answered("none")
    /\ UNCHANGED <<mode, sends, controls, workerVars, userToken, workerToken, recvRing,
                   ready, pool, result, connectReply>>

RecvRefused ==
    /\ user = "idle"
    /\ mode = "blocking"
    /\ recvRing = <<>>
    /\ ~SendRingHasRoom
    /\ returned' = Answered("out_of_memory")
    /\ UNCHANGED <<user, next, mode, sends, controls, workerVars, userToken, workerToken,
                   sendRing, recvRing, ready, pool, result, connectReply>>

TakePacket ==
    /\ user = "await_packet"
    /\ recvRing # <<>>
    /\ PopPacket
    /\ UNCHANGED <<next, mode, sends, controls, workerVars, userToken, workerToken, sendRing,
                   ready, pool, result, connectReply>>

NoPacketYet ==
    /\ user = "await_packet"
    /\ recvRing = <<>>
    /\ user' = "park_packet"
    /\ UNCHANGED <<next, mode, returned, sends, controls, workerVars, userToken, workerToken,
                   sendRing, recvRing, ready, pool, result, connectReply>>

(* std::thread::park returns when the token is there, and takes it.         *)
Unparked ==
    /\ user \in {"park_result", "park_packet"}
    /\ userToken
    /\ userToken' = FALSE
    /\ user' = IF user = "park_result" THEN "await_result" ELSE "await_packet"
    /\ UNCHANGED <<next, mode, returned, sends, controls, workerVars, workerToken, sendRing,
                   recvRing, ready, pool, result, connectReply>>

(* connect: the message goes to the worker and the oneshot is awaited.      *)
CallConnect ==
    /\ user = "idle"
    /\ controls < MaxControls
    /\ controls' = controls + 1
    /\ StartPush(Connect, "await_connect")
    /\ returned' = Answered("none")
    /\ UNCHANGED <<mode, sends, workerVars, userToken, workerToken, recvRing, ready, pool,
                   result, connectReply>>

ConnectReturns ==
    /\ user = "await_connect"
    /\ connectReply # "empty"
    /\ connectReply' = "empty"
    /\ returned' = Answered(connectReply)
    /\ user' = "idle"
    /\ UNCHANGED <<next, mode, sends, controls, workerVars, userToken, workerToken, sendRing,
                   recvRing, ready, pool, result>>

(* Drop for UdpSocket: the message is pushed, or lost if the ring is full.  *)
DropPushed ==
    /\ user = "idle"
    /\ StartPush(DropSocket, "dropped")
    /\ UNCHANGED <<mode, returned, sends, controls, workerVars, userToken, workerToken,
                   recvRing, ready, pool, result, connectReply>>

DropLost ==
    /\ user = "idle"
    /\ ~SendRingHasRoom
    /\ user' = "leaked"
    /\ UNCHANGED <<next, mode, returned, sends, controls, workerVars, userToken, workerToken,
                   sendRing, recvRing, ready, pool, result, connectReply>>

-----------------------------------------------------------------------------
(* The worker: InterfaceWorker::run, as far as this socket is concerned *)

(* perform_control finds nothing that concerns the socket ... *)
EndControl ==
    /\ worker = "control"
    /\ worker' = "recv"
    /\ UNCHANGED <<userVars, message, waking, peer, bound, fate, recvs, userToken, workerToken,
                   sendRing, recvRing, ready, pool, result, connectReply>>

(* ... or the Stop message, which ends the thread. *)
StopWorker ==
    /\ worker = "control"
    /\ worker' = "stopped"
    /\ UNCHANGED <<userVars, message, waking, peer, bound, fate, recvs, userToken, workerToken,
                   sendRing, recvRing, ready, pool, result, connectReply>>

(* UdpManager::recv for a packet from source: a connected socket takes only *)
(* its peer's, a full ring loses the packet, and the wake comes after.      *)
PassesPeerCheck(source) == peer => source = Peer

Deliver(source) ==
    /\ worker = "recv" /\ bound
    /\ recvs < MaxRecvs
    /\ PassesPeerCheck(source)
    /\ Len(recvRing) < RecvCapacity
    /\ recvRing' = Append(recvRing, source)
    /\ recvs' = recvs + 1
    /\ worker' = IF waking THEN "wake_reader" ELSE "recv"
    /\ UNCHANGED <<userVars, message, waking, peer, bound, fate, userToken, workerToken,
                   sendRing, ready, pool, result, connectReply>>

LosePacket(source) ==
    /\ worker = "recv" /\ bound
    /\ recvs < MaxRecvs
    /\ ~PassesPeerCheck(source) \/ Len(recvRing) = RecvCapacity
    /\ recvs' = recvs + 1
    /\ UNCHANGED <<userVars, worker, message, waking, peer, bound, fate, userToken,
                   workerToken, sendRing, recvRing, ready, pool, result, connectReply>>

WakeReader ==
    /\ worker = "wake_reader"
    /\ userToken' = TRUE
    /\ worker' = "recv"
    /\ UNCHANGED <<userVars, message, waking, peer, bound, fate, recvs, workerToken,
                   sendRing, recvRing, ready, pool, result, connectReply>>

EndRecv ==
    /\ worker = "recv"
    /\ worker' = "swap"
    /\ UNCHANGED <<userVars, message, waking, peer, bound, fate, recvs, userToken, workerToken,
                   sendRing, recvRing, ready, pool, result, connectReply>>

(* process_buffers: the bits are swapped for zero before any ring is read.  *)
SwapReady ==
    /\ worker = "swap"
    /\ ready' = FALSE
    /\ worker' = IF ready /\ bound THEN "drain" ELSE "park"
    /\ UNCHANGED <<userVars, message, waking, peer, bound, fate, recvs, userToken, workerToken,
                   sendRing, recvRing, pool, result, connectReply>>

(* drain_send pops until the ring is empty; a Drop ends it and the socket.  *)
PopMessageLeaving(rest) ==
    /\ worker = "drain"
    /\ sendRing # <<>>
    /\ sendRing' = rest
    /\ IF Head(sendRing) = DropSocket
       THEN /\ bound' = FALSE
            /\ worker' = "park"
            /\ UNCHANGED message
       ELSE /\ message' = Head(sendRing)
            /\ worker' = "handle"
            /\ UNCHANGED bound
    /\ UNCHANGED <<userVars, waking, peer, fate, recvs, userToken, workerToken, recvRing,
                   ready, pool, result, connectReply>>

(* Mutant: the message is read and stays where it is. *)
PopMessagePeeks == PopMessageLeaving(sendRing)

PopMessage == PopMessageLeaving(Tail(sendRing))

DrainEmpty ==
    /\ worker = "drain"
    /\ sendRing = <<>>
    /\ worker' = "park"
    /\ UNCHANGED <<userVars, message, waking, peer, bound, fate, recvs, userToken, workerToken,
                   sendRing, recvRing, ready, pool, result, connectReply>>

(* Mutant: one message for each ready bit. *)
AfterMessageEnds == "park"

(* drain_send goes on with the next message. *)
AfterMessage == "drain"

(* send_datagram: the buffer goes back to the pool whatever came of it.     *)
SendDatagramReturning(o, buffers) ==
    /\ worker = "handle" /\ message.kind = "data"
    /\ outcome' = [outcome EXCEPT ![message.datagram] = o]
    /\ pool' = pool + buffers
    /\ message' = Nothing

(* Mutant: a failed send keeps the buffer. *)
SendDatagramLeaking(o) == SendDatagramReturning(o, IF o = "ok" THEN 1 ELSE 0)

SendDatagram(o) == SendDatagramReturning(o, 1)

(* send_datagram_nonblocking: only the two unreachable errors are stored.   *)
HandleNonblocking ==
    \E o \in Outcome :
        /\ SendDatagram(o)
        /\ ~message.blocking
        /\ IF o \in ReportedKinds
           THEN /\ result' = [of |-> message.datagram, is |-> o]
                /\ reported' = reported \cup {message.datagram}
           ELSE UNCHANGED <<result, reported>>
        /\ worker' = AfterMessage
        /\ UNCHANGED <<userVars, waking, peer, bound, recvs, userToken, workerToken, sendRing,
                       recvRing, ready, connectReply>>

(* send_datagram_blocking: the result is stored, then the sender unparked.  *)
HandleBlocking ==
    \E o \in Outcome :
        /\ SendDatagram(o)
        /\ message.blocking
        /\ result' = [of |-> message.datagram, is |-> o]
        /\ worker' = "unpark_sender"
        /\ UNCHANGED <<reported, userVars, waking, peer, bound, recvs, userToken, workerToken, sendRing,
                       recvRing, ready, connectReply>>

UnparkSender ==
    /\ worker = "unpark_sender"
    /\ userToken' = TRUE
    /\ worker' = AfterMessage
    /\ UNCHANGED <<userVars, message, waking, peer, bound, fate, recvs, workerToken,
                   sendRing, recvRing, ready, pool, result, connectReply>>

(* Mutant: the handle is stored and the ring is not looked at. *)
WakesNever == FALSE

WakesAtOnce == recvRing # <<>>

(* UpdateReadWakeHandle: packets that came before the handle are announced. *)
HandleReadHandle ==
    /\ worker = "handle" /\ message = RegisterRead
    /\ waking' = TRUE
    /\ userToken' = (userToken \/ WakesAtOnce)
    /\ message' = Nothing
    /\ worker' = AfterMessage
    /\ UNCHANGED <<userVars, peer, bound, fate, recvs, workerToken, sendRing, recvRing,
                   ready, pool, result, connectReply>>

(* Connect: there is a route to the peer, or there is none.                 *)
HandleConnect ==
    /\ worker = "handle" /\ message = Connect
    /\ \/ peer' = TRUE /\ connectReply' = "connected"
       \/ connectReply' = "net_unreachable" /\ UNCHANGED peer
    /\ message' = Nothing
    /\ worker' = AfterMessage
    /\ UNCHANGED <<userVars, waking, bound, fate, recvs, userToken, workerToken, sendRing,
                   recvRing, ready, pool, result>>

(* park_timeout returns at once if the token is there ... *)
WorkerUnparked ==
    /\ worker = "park"
    /\ workerToken
    /\ workerToken' = FALSE
    /\ worker' = "control"
    /\ UNCHANGED <<userVars, message, waking, peer, bound, fate, recvs, userToken, sendRing,
                   recvRing, ready, pool, result, connectReply>>

(* ... and by itself when the deadline passes. *)
WorkerTimesOut ==
    /\ worker = "park"
    /\ worker' = "control"
    /\ UNCHANGED <<userVars, message, waking, peer, bound, fate, recvs, userToken, workerToken,
                   sendRing, recvRing, ready, pool, result, connectReply>>

-----------------------------------------------------------------------------

Call ==
    \/ SetNonblocking \/ ReportError \/ SendTo \/ SendRefused
    \/ RecvFrom \/ RecvWouldBlock \/ RecvRegisters \/ RecvRefused
    \/ CallConnect \/ DropPushed \/ DropLost

(* What a call that has begun does until it returns. *)
CallStep ==
    \/ MarkReady \/ UnparkWorker
    \/ TakeResult \/ NoResultYet \/ TakePacket \/ NoPacketYet \/ Unparked
    \/ ConnectReturns

Drain ==
    \/ PopMessage \/ DrainEmpty
    \/ HandleNonblocking \/ HandleBlocking \/ UnparkSender
    \/ HandleReadHandle \/ HandleConnect

(* What the worker does of its own; a packet or a Stop need not come.       *)
WorkerStep == EndControl \/ WakeReader \/ EndRecv \/ SwapReady \/ Drain \/ WorkerUnparked

Next ==
    \/ Call \/ CallStep
    \/ WorkerStep \/ WorkerTimesOut \/ StopWorker
    \/ \E source \in Source : Deliver(source) \/ LosePacket(source)

(* The user thread goes on with the call it is in, and the worker goes on   *)
(* without counting on the timeout of its park.                             *)
Fairness == WF_vars(CallStep) /\ WF_vars(WorkerStep)

SafeSpec == Init /\ [][Next]_vars
Spec == SafeSpec /\ Fairness

-----------------------------------------------------------------------------
(* Properties *)

Message == {Nothing, RegisterRead, Connect, DropSocket}
           \cup {Data(n, b) : n \in Datagram, b \in BOOLEAN}

(* The shapes of the state; no ring is beyond its capacity. *)
TypeOK ==
    /\ user \in {"idle", "mark", "unpark", "await_result", "park_result", "await_packet",
                 "park_packet", "await_connect", "dropped", "leaked"}
    /\ next \in {"idle", "await_result", "await_packet", "await_connect", "dropped"}
    /\ mode \in {"blocking", "nonblocking"}
    /\ userToken \in BOOLEAN /\ workerToken \in BOOLEAN
    /\ returned.of \in 0 .. MaxSends /\ returned.source \in Source
    /\ sends \in 0 .. MaxSends /\ controls \in 0 .. MaxControls /\ recvs \in 0 .. MaxRecvs
    /\ sendRing \in Seq(Message) /\ Len(sendRing) <= SendCapacity
    /\ recvRing \in Seq(Source) /\ Len(recvRing) <= RecvCapacity
    /\ ready \in BOOLEAN /\ bound \in BOOLEAN /\ waking \in BOOLEAN /\ peer \in BOOLEAN
    /\ pool \in 0 .. PoolSize
    /\ result \in {NoResult} \cup [of : Datagram, is : Outcome]
    /\ worker \in {"control", "recv", "wake_reader", "swap", "drain", "handle",
                   "unpark_sender", "park", "stopped"}
    /\ message \in Message
    /\ connectReply \in {"empty", "connected", "net_unreachable"}
    /\ outcome \in [Datagram -> {"none"} \cup Outcome]
    /\ reported \subseteq Datagram

InRing(kind) == \E i \in 1 .. Len(sendRing) : sendRing[i].kind = kind

(* A parked worker that nobody has unparked has nothing to do: whatever is   *)
(* in the ring belongs to a push that has yet to unpark it.  The bit is set  *)
(* after the push and swapped before the pops, so no timeout is needed.      *)
WorkerSleepsOnNothing ==
    (worker = "park" /\ ~workerToken /\ sendRing # <<>>) => user \in {"mark", "unpark"}

(* A sender that has parked, with no token, waits for a datagram the worker  *)
(* still holds, or for the unpark that follows its result.                   *)
SenderSleepsOnOwnDatagram ==
    (user = "park_result" /\ ~userToken) =>
        \/ \E i \in 1 .. Len(sendRing) : sendRing[i] = Data(sends, TRUE)
        \/ worker = "handle" /\ message = Data(sends, TRUE)
        \/ worker = "unpark_sender"

(* A reader that has parked, with no token, while a packet is there for it,  *)
(* is going to be woken: its handle has yet to be registered, which looks at *)
(* the ring, or the wake that follows the packet is to come.                 *)
ReaderSleepsOnNoPacket ==
    (user = "park_packet" /\ ~userToken /\ recvRing # <<>>) =>
        \/ InRing("read_handle")
        \/ worker = "handle" /\ message = RegisterRead
        \/ worker = "wake_reader"

(* A caller that waits for the answer to its connect has it in the oneshot,  *)
(* or its message is still with the worker: none is lost among the datagrams *)
(* and handles that share the ring with it.                                  *)
ConnectorWaitsForItsAnswer ==
    (user = "await_connect" /\ connectReply = "empty") =>
        \/ InRing("connect")
        \/ worker = "handle" /\ message = Connect

(* Nobody sleeps on work that is there, on either side of the rings. *)
NobodySleepsOnWork ==
    /\ WorkerSleepsOnNothing
    /\ SenderSleepsOnOwnDatagram /\ ReaderSleepsOnNoPacket /\ ConnectorWaitsForItsAnswer

(* Every buffer of the pool is free or carries one datagram on its way: none *)
(* is lost when a push is refused, a send fails or results are overwritten.  *)
BuffersAreConserved ==
    LET flying == {i \in 1 .. Len(sendRing) : sendRing[i].kind = "data"}
        held == IF message.kind = "data" THEN 1 ELSE 0
    IN  pool + Cardinality(flying) + held = PoolSize

(* A blocking send_to returns what became of its own datagram, in whatever   *)
(* order modes, sends and receives come, unless the error of a nonblocking   *)
(* one has been stored before.                                               *)
BlockingResultIsOwn ==
    (reported = {} /\ returned.of # 0) => outcome[returned.of] = returned.call

(* Datagrams go out in the order of their calls, each of them once, whether  *)
(* the calls blocked or not: the fate of one is decided by one step of the   *)
(* worker, after that of all the earlier ones.                               *)
DatagramsGoOnceInOrder ==
    [][\A n \in Datagram : outcome'[n] # outcome[n] =>
          outcome[n] = "none" /\ \A m \in 1 .. n - 1 : outcome[m] # "none"]_vars

(* A blocking send_to and a connect return, and a blocking recv_from returns *)
(* once a packet is there, unless the interface is stopped meanwhile.        *)
CallsAreAnswered ==
    user \in {"await_result", "park_result", "await_connect"}
        ~> (user = "idle" \/ worker = "stopped")

BlockingRecvReturns ==
    (user \in {"await_packet", "park_packet"} /\ recvRing # <<>>)
        ~> (user = "idle" \/ worker = "stopped")

(* A socket that is dropped gives up its port, unless its ring was full and  *)
(* the message was lost, or the interface is stopped.                        *)
DropUnbinds == user = "dropped" ~> (~bound \/ worker = "stopped")

(* Whatever the user thread has called takes effect, without counting on the *)
(* timeout of the worker's park.                                             *)
CallsTakeEffect == CallsAreAnswered /\ BlockingRecvReturns /\ DropUnbinds

-----------------------------------------------------------------------------
(* What the documentation and the comments say *)

(* udp.rs:130: "On success, returns the number of bytes written": a send_to  *)
(* that succeeds has handed its datagram on.  Results are stored in one word *)
(* that a blocking send does not empty first.                                *)
SuccessMeansSent == returned.call = "ok" => outcome[returned.of] = "ok"
=============================================================================
