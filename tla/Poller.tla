------------------------------- MODULE Poller -------------------------------
(***************************************************************************)
(* The Poller of src/lib/src/poller.rs with the UDP sockets registered on  *)
(* it: one thread owns the poller, the tokens and the sockets, and the     *)
(* interface worker wakes it through WakeHandles.                          *)
(*                                                                         *)
(* Tokens are numbered in the order of their registration; a token is      *)
(* alive until it is dropped.  The shared state of a token (an Arc) lives  *)
(* as long as the token or one of its handles does.                        *)
(*                                                                         *)
(* How the worker learns of a message in a socket's ring is the subject of *)
(* UdpSocket and UdpManager: here it just looks.  Its other work enters as *)
(* what it does to these sockets.                                          *)
(***************************************************************************)
EXTENDS Integers, Sequences

CONSTANTS
    Socket,
    Nobody,         \* no handle
    Thread,         \* ReadWakeHandle::Local, the handle of a blocking recv_from
    Calls,          \* bound: the halves that registrations ask for, in their order
    WordBits,       \* bits of a word (64)
    SendCapacity,   \* size of a socket's ring to the worker (1024)
    RecvCapacity,   \* size of its ring from the worker (1024)
    PoolSize,       \* buffers of a socket (64)
    MaxTokens,      \* bound: registrations
    MaxPackets,     \* bound: packets received
    MaxSends        \* bound: datagrams sent

ASSUME PollerAssumption ==
    /\ Nobody # Thread /\ {Nobody, Thread} \cap Nat = {}
    /\ Calls \subseteq {<<"read", "write">>, <<"read">>, <<"write">>}
    /\ {WordBits, SendCapacity, RecvCapacity, PoolSize} \subseteq Nat \ {0}
    /\ {MaxTokens, MaxPackets, MaxSends} \subseteq Nat

VARIABLES
    user,           \* where the thread stands
    on,             \* the socket it is busy with
    todo,           \* register: the handles it has yet to push
    at,             \* iter_ready: the atomic word it swaps next
    captured,       \* the bits taken by iter_ready and not yet iterated over
    parkToken,      \* its park token
    tokens,         \* every token so far: its slot and what it was registered for
    alive,          \* the tokens not dropped
    targets,        \* the token noted in each slot, 0 in one never used
    words,          \* length of ready_bits
    bits,           \* the bits that are set
    ring,           \* send_tx / send_rx of each socket
    pool,           \* its free buffers
    packets,        \* the packets in its receive ring
    writer,         \* "refused": a send_to found no buffer and has not been told of one since;
                    \* "missed": nor will it be, the last notice found the ring full
    readHandle,     \* read_wake_handle of its handle at the worker
    writeHandle,    \* write_wake_handle
    worker,         \* what the worker is doing
    arrived, sends  \* bounds

userVars == <<user, on, todo, at, captured>>
pollerVars == <<tokens, alive, targets, words>>
socketVars == <<ring, pool, packets, writer>>
handles == <<readHandle, writeHandle>>
counters == <<arrived, sends>>
vars == <<userVars, parkToken, pollerVars, bits, socketVars, handles, worker, counters>>

Token == 1 .. MaxTokens
Slot == 0 .. MaxTokens - 1
Kind == {"read", "write"}

InRing(s, kind) == \E n \in 1 .. Len(ring[s]) : ring[s][n].kind = kind

Data == [kind |-> "data", handle |-> Nobody]
Update(kind, handle) == [kind |-> kind, handle |-> handle]

Idle == [at |-> "idle"]
Popped(s) == [at |-> "popped", socket |-> s]
Waking(step, s, kind, handle) ==
    [at |-> step, socket |-> s, kind |-> kind, handle |-> handle]

Init ==
    /\ user = "idle" /\ on \in Socket /\ todo = <<>> /\ at = 1
    /\ captured = {}
    /\ parkToken = FALSE
    /\ tokens = <<>> /\ alive = {}
    /\ targets = [n \in Slot |-> 0] /\ words = 0
    /\ bits = {}
    /\ ring = [s \in Socket |-> <<>>]
    /\ pool = [s \in Socket |-> PoolSize]
    /\ packets = [s \in Socket |-> 0]
    /\ writer = [s \in Socket |-> "content"]
    /\ readHandle = [s \in Socket |-> Nobody]
    /\ writeHandle = [s \in Socket |-> Nobody]
    /\ worker = Idle
    /\ arrived = 0 /\ sends = 0

-----------------------------------------------------------------------------
(* Tokens and slots *)

HandlesOf(s) ==
    {readHandle[s], writeHandle[s]} \cup {ring[s][n].handle : n \in 1 .. Len(ring[s])}

(* The Arc of the token's shared state can be upgraded. *)
InUse(t) == t \in alive \/ \E s \in Socket : t \in HandlesOf(s)

(* Mutant: a slot is free as soon as its token can no longer be upgraded. *)
OccupiedByToken(n) == targets[n] \in alive

Occupied(n) == targets[n] # 0 /\ InUse(targets[n])

(* get_free_token: the first slot without a living target, or one of a new word. *)
FreeSlot ==
    CHOOSE n \in 0 .. words * WordBits :
        /\ n = words * WordBits \/ ~Occupied(n)
        /\ \A k \in 0 .. n - 1 : Occupied(k)

GetFreeToken(s) ==
    /\ tokens' = Append(tokens, [slot |-> FreeSlot, socket |-> s])
    /\ alive' = alive \cup {Len(tokens) + 1}
    /\ targets' = [targets EXCEPT ![FreeSlot] = Len(tokens) + 1]
    /\ words' = IF FreeSlot \div WordBits >= words THEN FreeSlot \div WordBits + 1 ELSE words

-----------------------------------------------------------------------------
(* The thread: registering and dropping *)

(* register, register_read and register_write: a token, then its handles. *)
Register(s) ==
    /\ user = "idle" /\ Len(tokens) < MaxTokens
    /\ todo' \in Calls
    /\ GetFreeToken(s)
    /\ user' = "register" /\ on' = s
    /\ UNCHANGED <<at, captured, parkToken, bits, socketVars, handles, worker, counters>>

(* Mutant: the last place is counted twice. *)
RingHasRoomOffByOne(s) == Len(ring[s]) <= SendCapacity

RingHasRoom(s) == Len(ring[s]) < SendCapacity

PushHandle ==
    /\ user = "register" /\ RingHasRoom(on)
    /\ ring' = [ring EXCEPT ![on] = Append(@, Update(Head(todo), Len(tokens)))]
    /\ todo' = Tail(todo)
    /\ user' = IF Len(todo) = 1 THEN "idle" ELSE "register"
    /\ UNCHANGED <<on, at, captured, parkToken, pollerVars, bits, pool, packets, writer,
                   handles, worker, counters>>

(* A full ring fails the call and drops the token; a read handle that was   *)
(* pushed before stays where it is.                                         *)
PushRefused ==
    /\ user = "register" /\ ~RingHasRoom(on)
    /\ alive' = alive \ {Len(tokens)}
    /\ todo' = <<>>
    /\ user' = "idle"
    /\ UNCHANGED <<on, at, captured, parkToken, tokens, targets, words, bits,
                   socketVars, handles, worker, counters>>

(* Drop for Token, also while the events of a poll are iterated over. *)
DropToken ==
    /\ user \in {"idle", "events"}
    /\ \E t \in alive : alive' = alive \ {t}
    /\ UNCHANGED <<userVars, parkToken, tokens, targets, words, bits, socketVars, handles,
                   worker, counters>>

-----------------------------------------------------------------------------
(* The thread: polling *)

(* poll, or poll_timeout *)
Poll ==
    /\ user = "idle"
    /\ user' = "scan"
    /\ UNCHANGED <<on, todo, at, captured, parkToken, pollerVars, bits, socketVars, handles,
                   worker, counters>>

(* poll_timeout looks at the clock before each look at the bits. *)
TimesOut ==
    /\ user \in {"scan", "park"}
    /\ user' = "idle"
    /\ UNCHANGED <<on, todo, at, captured, parkToken, pollerVars, bits, socketVars,
                   handles, worker, counters>>

(* any_ready, and the park when it finds nothing.  Others only set bits: the *)
(* loads, one after the other, find none iff there was none at the first.   *)
Scan ==
    /\ user = "scan"
    /\ user' = IF bits = {} THEN "park" ELSE "swap"
    /\ UNCHANGED <<on, todo, at, captured, parkToken, pollerVars, bits, socketVars, handles,
                   worker, counters>>

Unparked ==
    /\ user = "park" /\ parkToken
    /\ parkToken' = FALSE
    /\ user' = "scan"
    /\ UNCHANGED <<on, todo, at, captured, pollerVars, bits, socketVars, handles, worker,
                   counters>>

(* The atomic words, read before write for each index. *)
LastLine == 2 * words
BitsOf(line) ==
    {b \in bits : /\ b[1] \div WordBits = (line - 1) \div 2
                  /\ b[2] = IF line % 2 = 1 THEN "read" ELSE "write"}

(* Mutant: both kinds are cleared when the first is taken. *)
ClearsBoth(line) == {b \in bits : b[1] \div WordBits = (line - 1) \div 2}

ClearedBy(line) == BitsOf(line)

(* iter_ready swaps them one after the other. *)
SwapLine ==
    /\ user = "swap"
    /\ captured' = captured \cup BitsOf(at)
    /\ bits' = bits \ ClearedBy(at)
    /\ IF at = LastLine THEN at' = 1 /\ user' = "events" ELSE at' = at + 1 /\ UNCHANGED user
    /\ UNCHANGED <<on, todo, parkToken, pollerVars, socketVars, handles, worker, counters>>

(* ReadyTokensByBits::next: the lowest bit, the read and write bits of one  *)
(* slot together.  A token that cannot be upgraded is passed over; the      *)
(* thread acts on an event by the token it carries.                         *)
NextEvent ==
    /\ user = "events" /\ captured # {}
    /\ LET n == CHOOSE n \in {b[1] : b \in captured} : \A b \in captured : n <= b[1]
           kinds == {k \in Kind : <<n, k>> \in captured}
           t == targets[n]
       IN  /\ captured' = captured \ {<<n, k>> : k \in kinds}
           /\ IF t \in alive
              THEN /\ on' = tokens[t].socket
                   /\ user' = IF "read" \in kinds THEN "read" ELSE "events"
                   /\ writer' = IF "write" \in kinds THEN [writer EXCEPT ![on'] = "content"]
                                                     ELSE writer
              ELSE UNCHANGED <<on, user, writer>>
    /\ UNCHANGED <<todo, at, parkToken, pollerVars, bits, ring, pool, packets, handles, worker,
                   counters>>

EndEvents ==
    /\ user = "events" /\ captured = {}
    /\ user' = "idle"
    /\ UNCHANGED <<on, todo, at, captured, parkToken, pollerVars, bits, socketVars, handles,
                   worker, counters>>

(* The thread answers a read event by recv_from until WouldBlock. *)
DrainSocket ==
    /\ user = "read"
    /\ IF packets[on] > 0
       THEN packets' = [packets EXCEPT ![on] = @ - 1] /\ UNCHANGED user
       ELSE user' = "events" /\ UNCHANGED packets
    /\ UNCHANGED <<on, todo, at, captured, parkToken, pollerVars, bits, ring, pool, writer,
                   handles, worker, counters>>

-----------------------------------------------------------------------------
(* The thread: other calls of a socket *)

(* send_to, nonblocking; NoBuffer is its refusal.  A full ring refuses a     *)
(* datagram too, but with so many more places than buffers that is a ring of *)
(* control messages.                                                         *)
SendTo(s) ==
    /\ user \in {"idle", "events"} /\ sends < MaxSends
    /\ pool[s] > 0 /\ RingHasRoom(s)
    /\ pool' = [pool EXCEPT ![s] = @ - 1]
    /\ ring' = [ring EXCEPT ![s] = Append(@, Data)]
    /\ writer' = [writer EXCEPT ![s] = "content"]
    /\ sends' = sends + 1
    /\ UNCHANGED <<userVars, parkToken, pollerVars, bits, packets, handles, worker, arrived>>

NoBuffer(s) ==
    /\ user \in {"idle", "events"}
    /\ pool[s] = 0 /\ writer[s] # "refused"
    /\ writer' = [writer EXCEPT ![s] = "refused"]
    /\ UNCHANGED <<userVars, parkToken, pollerVars, bits, ring, pool, packets, handles, worker,
                   counters>>

(* recv_from on a socket in blocking mode: the thread registers itself. *)
BlockingRecv(s) ==
    /\ user = "idle"
    /\ packets[s] = 0 /\ RingHasRoom(s)
    /\ ring' = [ring EXCEPT ![s] = Append(@, Update("read", Thread))]
    /\ user' = "await" /\ on' = s
    /\ UNCHANGED <<todo, at, captured, parkToken, pollerVars, bits, pool, packets, writer,
                   handles, worker, counters>>

Await ==
    /\ user = "await"
    /\ IF packets[on] > 0
       THEN packets' = [packets EXCEPT ![on] = @ - 1] /\ user' = "idle"
       ELSE user' = "await_park" /\ UNCHANGED packets
    /\ UNCHANGED <<on, todo, at, captured, parkToken, pollerVars, bits, ring, pool, writer,
                   handles, worker, counters>>

AwaitUnparked ==
    /\ user = "await_park" /\ parkToken
    /\ parkToken' = FALSE
    /\ user' = "await"
    /\ UNCHANGED <<on, todo, at, captured, pollerVars, bits, socketVars, handles, worker,
                   counters>>

-----------------------------------------------------------------------------
(* The worker *)

(* wake on whatever handle is there. *)
BeginWake(s, kind, handle) ==
    worker' = CASE handle = Nobody -> Idle
                [] handle = Thread -> Waking("unpark", s, kind, handle)
                [] OTHER -> Waking("check", s, kind, handle)

CheckDropped ==
    /\ worker.at = "check"
    /\ worker' = IF worker.handle \in alive THEN [worker EXCEPT !.at = "set"] ELSE Idle
    /\ UNCHANGED <<userVars, parkToken, pollerVars, bits, socketVars, handles, counters>>

SetBit ==
    /\ worker.at = "set"
    /\ bits' = bits \cup {<<tokens[worker.handle].slot, worker.kind>>}
    /\ worker' = [worker EXCEPT !.at = "unpark"]
    /\ UNCHANGED <<userVars, parkToken, pollerVars, socketVars, handles, counters>>

Unpark ==
    /\ worker.at = "unpark"
    /\ parkToken' = TRUE
    /\ worker' = Idle
    /\ UNCHANGED <<userVars, pollerVars, bits, socketVars, handles, counters>>

(* UdpManager::recv: a packet is pushed, then the reader is woken. *)
Deliver(s) ==
    /\ worker = Idle
    /\ arrived < MaxPackets /\ packets[s] < RecvCapacity
    /\ packets' = [packets EXCEPT ![s] = @ + 1]
    /\ arrived' = arrived + 1
    /\ BeginWake(s, "read", readHandle[s])
    /\ UNCHANGED <<userVars, parkToken, pollerVars, bits, ring, pool, writer, handles, sends>>

PopMessage(s, kind) ==
    /\ worker = Idle
    /\ ring[s] # <<>> /\ Head(ring[s]).kind = kind
    /\ ring' = [ring EXCEPT ![s] = Tail(@)]

(* drain_send: a datagram is sent, and its buffer is free ... *)
SendDatagram(s) ==
    /\ PopMessage(s, "data")
    /\ pool' = [pool EXCEPT ![s] = @ + 1]
    /\ worker' = Popped(s)
    /\ UNCHANGED <<userVars, parkToken, pollerVars, bits, packets, writer, handles, counters>>

TellsWriter(s) == RingHasRoom(s)

(* ... and the writer is woken, unless the thread has filled the ring again  *)
(* since the pop.  Full of nothing but updates of the read handle, the ring  *)
(* holds no message that would have the worker look again.                   *)
TellWriter ==
    /\ worker.at = "popped"
    /\ LET s == worker.socket
       IN  IF TellsWriter(s)
           THEN BeginWake(s, "write", writeHandle[s]) /\ UNCHANGED writer
           ELSE /\ worker' = Idle
                /\ writer' = IF writer[s] = "refused" /\ ~InRing(s, "data") /\ ~InRing(s, "write")
                             THEN [writer EXCEPT ![s] = "missed"] ELSE writer
    /\ UNCHANGED <<userVars, parkToken, pollerVars, bits, ring, pool, packets, handles, counters>>

(* Mutant: the packets that are there already are not announced. *)
AnnouncesNothing(s) == FALSE

AnnouncesPackets(s) == packets[s] > 0

(* UpdateReadWakeHandle: packets that came before it are announced. *)
UpdateRead(s) ==
    /\ PopMessage(s, "read")
    /\ readHandle' = [readHandle EXCEPT ![s] = Head(ring[s]).handle]
    /\ IF AnnouncesPackets(s) THEN BeginWake(s, "read", readHandle'[s]) ELSE UNCHANGED worker
    /\ UNCHANGED <<userVars, parkToken, pollerVars, bits, pool, packets, writer, writeHandle,
                   counters>>

(* UpdateWriteWakeHandle: the new handle, and then the same look at the ring *)
(* before it is woken (TellWriter).                                          *)
UpdateWrite(s) ==
    /\ PopMessage(s, "write")
    /\ writeHandle' = [writeHandle EXCEPT ![s] = Head(ring[s]).handle]
    /\ worker' = Popped(s)
    /\ UNCHANGED <<userVars, parkToken, pollerVars, bits, pool, packets, writer, readHandle,
                   counters>>

-----------------------------------------------------------------------------

Call ==
    \/ Poll \/ DropToken
    \/ \E s \in Socket : Register(s) \/ SendTo(s) \/ NoBuffer(s) \/ BlockingRecv(s)

(* What a call that has begun does until it returns, and the loop over its events. *)
CallStep ==
    \/ PushHandle \/ PushRefused
    \/ Scan \/ Unparked \/ SwapLine \/ NextEvent \/ EndEvents \/ DrainSocket
    \/ Await \/ AwaitUnparked

WorkerStep ==
    \/ CheckDropped \/ SetBit \/ Unpark \/ TellWriter
    \/ \E s \in Socket : SendDatagram(s) \/ UpdateRead(s) \/ UpdateWrite(s)

Next == Call \/ CallStep \/ TimesOut \/ WorkerStep \/ \E s \in Socket : Deliver(s)

(* The thread keeps polling, and not always with a timeout that has passed  *)
(* before the first look at the bits; nothing counts on a timeout.          *)
Fairness == WF_vars(CallStep \/ Poll) /\ SF_vars(Scan) /\ WF_vars(WorkerStep)

Spec == Init /\ [][Next]_vars /\ Fairness

-----------------------------------------------------------------------------
(* Properties *)

Handle == {Nobody, Thread} \cup Token
Message == {Data} \cup [kind : Kind, handle : Handle]

(* The shapes of the state: no ring beyond its capacity, no bit beyond the words. *)
TypeOK ==
    /\ user \in {"idle", "register", "scan", "park", "swap", "events", "read", "await",
                 "await_park"}
    /\ on \in Socket /\ todo \in Calls \cup {<<>>} \cup {<<k>> : k \in Kind}
    /\ at \in {1} \cup 1 .. 2 * words /\ parkToken \in BOOLEAN
    /\ tokens \in Seq([slot : Slot, socket : Socket]) /\ Len(tokens) <= MaxTokens
    /\ alive \subseteq 1 .. Len(tokens)
    /\ targets \in [Slot -> 0 .. Len(tokens)]
    /\ words \in 0 .. MaxTokens
    /\ bits \cup captured \subseteq (0 .. words * WordBits - 1) \X Kind
    /\ ring \in [Socket -> Seq(Message)] /\ \A s \in Socket : Len(ring[s]) <= SendCapacity
    /\ pool \in [Socket -> 0 .. PoolSize] /\ packets \in [Socket -> 0 .. RecvCapacity]
    /\ writer \in [Socket -> {"content", "refused", "missed"}]
    /\ readHandle \in [Socket -> Handle] /\ writeHandle \in [Socket -> Handle]
    /\ worker = Idle \/ worker.at \in {"popped", "check", "set", "unpark"}
    /\ arrived \in 0 .. MaxPackets /\ sends \in 0 .. MaxSends

(* A slot is not given away while its token or any of its handles exists: a *)
(* wake that has looked at `dropped` sets a bit of its own token, never one *)
(* of a token registered since (poller.rs:216 counts the shared state, not  *)
(* the token).                                                              *)
SlotsAreOwn ==
    \A t \in 1 .. Len(tokens) : InUse(t) => targets[tokens[t].slot] = t

WakeUnderWay(s, kind) ==
    worker.at \in {"check", "set", "unpark"} /\ worker.socket = s /\ worker.kind = kind

(* A poller that has parked, and that nobody has unparked, is about to be   *)
(* woken for every socket with packets whose handle is that of a living     *)
(* token.  A handle replaced by a blocking recv_from, or by a registration  *)
(* that failed half way, is of no such token.                               *)
PollerSleepsOnNoPacket ==
    (user = "park" /\ ~parkToken) =>
        \A s \in Socket :
            (packets[s] > 0 /\ readHandle[s] \in alive) => WakeUnderWay(s, "read")

(* Likewise for a sender that was refused a buffer: one of its datagrams or *)
(* its handle is still to be popped, or the worker is about to look whether *)
(* there is room, or it is about to be told.  The exception is the sender   *)
(* whose last notice was skipped ("missed"): a ring full of updates of the  *)
(* read handle when the worker looked, though its buffers are free.         *)
PollerSleepsOnNoRoom ==
    (user = "park" /\ ~parkToken) =>
        \A s \in Socket :
            (writer[s] = "refused" /\ writeHandle[s] \in alive) =>
                \/ InRing(s, "data") \/ InRing(s, "write")
                \/ worker = Popped(s)
                \/ WakeUnderWay(s, "write")

PollerSleepsOnNothing == PollerSleepsOnNoPacket /\ PollerSleepsOnNoRoom

(* A program that keeps polling, and reads a socket only on its events and  *)
(* then until WouldBlock, reads every packet; and a refused sender is told. *)
(* Only the thread's own handle (or a dead one) in the place of the         *)
(* poller's, a blocking recv_from that has not returned, or the notice that *)
(* found the ring full keep it from it.                                     *)
Owed(s) ==
    \/ packets[s] > 0 /\ readHandle[s] \in alive
    \/ writer[s] = "refused" /\ writeHandle[s] \in alive

RegisteredIsServed ==
    \A s \in Socket : Owed(s) ~> (~Owed(s) \/ user \in {"await", "await_park"})
=============================================================================
