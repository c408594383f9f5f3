----------------------------- MODULE UdpManager -----------------------------
(***************************************************************************)
(* All the UDP sockets of one interface                                    *)
(* (src/lib/src/runtime/interface/l4_managers/udp/manager.rs).             *)
(*                                                                         *)
(* A bind takes the lowest free slot of socket_ids and notes the address   *)
(* there; no slot is ever freed, so slots fill in order and the n-th       *)
(* socket has slot n, which names it here.  The user thread of a socket    *)
(* pushes a message and then sets the bit of its slot.  The worker swaps   *)
(* the words of ready_bits one after the other, and for each bit it finds  *)
(* it looks the slot's ADDRESS up in the port bindings and drains whoever  *)
(* is bound there, until that socket's Drop message has it removed.        *)
(*                                                                         *)
(* Data messages stand for all that is not a Drop; what they do to a       *)
(* socket is in UdpSocket.                                                 *)
(***************************************************************************)
EXTENDS PortBindings, FiniteSets

CONSTANTS
    Port,           \* port numbers
    Requested,      \* the addresses programs ask for
    Slots,          \* length of socket_ids (16 * 64)
    WordSize,       \* bits in a word of ready_bits (64)
    SendCapacity,   \* size of a socket's ring to the worker (1024)
    MaxData         \* bound: data messages pushed, by all sockets together

ASSUME ManagerAssumption ==
    /\ Requested \subseteq Ip
    /\ {Slots, WordSize, SendCapacity} \subseteq Nat \ {0}
    /\ MaxData \in Nat

VARIABLES
    bindings,   \* PortBindings
    slots,      \* socket_ids up to the first None
    ready,      \* the slots whose bit is set in ready_bits
    user,       \* where the user thread of each socket stands
    ring,       \* each socket's send_tx / send_rx
    data,       \* data messages pushed so far
    worker,     \* where the worker stands
    word,       \* in "capture": the word to swap next
    captured,   \* the bits the iterator still holds
    current,    \* in "drain_socket": the slot whose bit led there
    removed,    \* the sockets whose Drop message has been taken
    answer      \* what the last bind of this control phase returned

userVars == <<user, data>>
workerVars == <<worker, word, captured, current>>
vars == <<bindings, slots, ready, userVars, ring, workerVars, removed, answer>>

Slot == 1 .. Slots
WordOf(slot) == (slot - 1) \div WordSize
LastWord == WordOf(Slots)

Init ==
    /\ bindings = [port \in Port |-> <<>>]
    /\ slots = <<>>
    /\ ready = {}
    /\ user = [n \in Slot |-> "unbound"]
    /\ ring = [n \in Slot |-> <<>>]
    /\ data = 0
    /\ worker = "control"
    /\ word = 0
    /\ captured = {}
    /\ current = 0
    /\ removed = {}
    /\ answer = "none"

-----------------------------------------------------------------------------
(* UdpManager::bind, as perform_control calls it.  Every request is          *)
(* exclusive and dual stack.  A request for port 0 takes any port that is    *)
(* bindable among those it tries, so it is the same step.                    *)

Bindable(ip, port) == IsBindable(bindings[port], ip, FALSE, TRUE)

(* Mutant of SlotIsFree: one slot too many. *)
SlotIsFreeOffByOne == Len(slots) <= Slots

SlotIsFree == Len(slots) < Slots

Bind(ip, port) ==
    /\ worker = "control"
    /\ IsV4Address(ip)
    /\ Bindable(ip, port)
    /\ SlotIsFree
    /\ LET n == Len(slots) + 1
       IN  /\ slots' = Append(slots, [ip |-> ip, port |-> port])
           /\ bindings' = [bindings EXCEPT ![port] = Insert(@, ip, TRUE, FALSE, n)]
           /\ user' = [user EXCEPT ![n] = "open"]
    /\ answer' = "ok"
    /\ UNCHANGED <<ready, data, ring, workerVars, removed>>

BindFails(kind) ==
    /\ worker = "control"
    /\ answer' = kind
    /\ UNCHANGED <<bindings, slots, ready, userVars, ring, workerVars, removed>>

BindUnsupported(ip) == ~IsV4Address(ip) /\ BindFails("unsupported")

BindInUse(ip, port) ==
    /\ IsV4Address(ip)
    /\ ~Bindable(ip, port)
    /\ BindFails("in_use")

BindNoSlot(ip, port) ==
    /\ IsV4Address(ip)
    /\ Bindable(ip, port)
    /\ ~SlotIsFree
    /\ BindFails("no_slot")

EndControl ==
    /\ worker = "control"
    /\ worker' = "capture"
    /\ word' = 0
    /\ answer' = "none"
    /\ UNCHANGED <<bindings, slots, ready, userVars, ring, captured, current, removed>>

-----------------------------------------------------------------------------
(* UdpSocketContext::try_push, and the drop of a socket *)

RingHasRoom(n) == Len(ring[n]) < SendCapacity

Push(n) ==
    /\ user[n] = "open"
    /\ data < MaxData
    /\ RingHasRoom(n)
    /\ ring' = [ring EXCEPT ![n] = Append(@, "data")]
    /\ data' = data + 1
    /\ user' = [user EXCEPT ![n] = "mark"]
    /\ UNCHANGED <<bindings, slots, ready, workerVars, removed, answer>>

PushDrop(n) ==
    /\ user[n] = "open"
    /\ RingHasRoom(n)
    /\ ring' = [ring EXCEPT ![n] = Append(@, "drop")]
    /\ user' = [user EXCEPT ![n] = "mark_drop"]
    /\ UNCHANGED <<bindings, slots, ready, data, workerVars, removed, answer>>

(* The ring is full: the Drop message is lost without a trace.               *)
LoseDrop(n) ==
    /\ user[n] = "open"
    /\ ~RingHasRoom(n)
    /\ user' = [user EXCEPT ![n] = "closed"]
    /\ UNCHANGED <<bindings, slots, ready, data, ring, workerVars, removed, answer>>

(* Mutant of Mark: the bit is set without regard to those that are. *)
MarkOnly(n) ==
    /\ user[n] \in {"mark", "mark_drop"}
    /\ ready' = (ready \ {i \in Slot : WordOf(i) = WordOf(n)}) \cup {n}
    /\ user' = [user EXCEPT ![n] = IF @ = "mark" THEN "open" ELSE "closed"]
    /\ UNCHANGED <<bindings, slots, data, ring, workerVars, removed, answer>>

Mark(n) ==
    /\ user[n] \in {"mark", "mark_drop"}
    /\ ready' = ready \cup {n}
    /\ user' = [user EXCEPT ![n] = IF @ = "mark" THEN "open" ELSE "closed"]
    /\ UNCHANGED <<bindings, slots, data, ring, workerVars, removed, answer>>

-----------------------------------------------------------------------------
(* UdpManager::process_buffers *)

(* capture_and_reset_ready_atomic, one word. *)
SwapWord ==
    /\ worker = "capture"
    /\ LET bits == {n \in ready : WordOf(n) = word}
       IN  /\ captured' = captured \cup bits
           /\ ready' = ready \ bits
    /\ IF word = LastWord
       THEN worker' = "drain" /\ UNCHANGED word
       ELSE word' = word + 1 /\ UNCHANGED worker
    /\ UNCHANGED <<bindings, slots, userVars, ring, current, removed, answer>>

(* Whoever is bound to the address the slot was taken for.                   *)
Served(slot) == GetMut(bindings[slots[slot].port], slots[slot].ip)

(* ReadyByBits::next, and the lookup.                                        *)
TakeBit(slot) ==
    /\ worker = "drain"
    /\ slot \in captured
    /\ \A other \in captured : slot <= other
    /\ captured' = captured \ {slot}
    /\ IF Served(slot) = NoSocket
       THEN UNCHANGED <<worker, current>>
       ELSE worker' = "drain_socket" /\ current' = slot
    /\ UNCHANGED <<bindings, slots, ready, userVars, ring, word, removed, answer>>

DrainEnds == worker' = "drain" /\ current' = 0

(* drain_send, one message.                                                  *)
PopData ==
    /\ worker = "drain_socket"
    /\ LET n == Served(current)
       IN  /\ ring[n] # <<>> /\ Head(ring[n]) = "data"
           /\ ring' = [ring EXCEPT ![n] = Tail(@)]
    /\ UNCHANGED <<bindings, slots, ready, userVars, workerVars, removed, answer>>

(* Mutant of PopDrop: the drain goes on as if the Drop were data.            *)
PopDropIgnored ==
    /\ worker = "drain_socket"
    /\ LET n == Served(current)
       IN  /\ ring[n] # <<>> /\ Head(ring[n]) = "drop"
           /\ ring' = [ring EXCEPT ![n] = Tail(@)]
           /\ removed' = removed \cup {n}
    /\ UNCHANGED <<bindings, slots, ready, userVars, workerVars, answer>>

(* DrainSendAction::Remove: what goes is the binding of the SLOT's address.  *)
PopDrop ==
    /\ worker = "drain_socket"
    /\ LET n == Served(current)
           slot == slots[current]
       IN  /\ ring[n] # <<>> /\ Head(ring[n]) = "drop"
           /\ ring' = [ring EXCEPT ![n] = Tail(@)]
           /\ bindings' = [bindings EXCEPT ![slot.port] = RemoveBinding(@, slot.ip)]
           /\ removed' = removed \cup {n}
    /\ DrainEnds
    /\ UNCHANGED <<slots, ready, userVars, word, captured, answer>>

PopNothing ==
    /\ worker = "drain_socket"
    /\ ring[Served(current)] = <<>>
    /\ DrainEnds
    /\ UNCHANGED <<bindings, slots, ready, userVars, ring, word, captured, removed, answer>>

EndDrain ==
    /\ worker = "drain"
    /\ captured = {}
    /\ worker' = "control"
    /\ UNCHANGED <<bindings, slots, ready, userVars, ring, word, captured, current, removed, answer>>

-----------------------------------------------------------------------------

User(n) == Push(n) \/ PushDrop(n) \/ LoseDrop(n) \/ Mark(n)
Control == \E ip \in Requested, port \in Port :
              Bind(ip, port) \/ BindUnsupported(ip) \/ BindInUse(ip, port) \/ BindNoSlot(ip, port)
ProcessBuffers ==
    \/ SwapWord
    \/ \E slot \in Slot : TakeBit(slot)
    \/ PopData \/ PopDrop \/ PopNothing
    \/ EndDrain

Next ==
    \/ Control
    \/ EndControl
    \/ \E n \in Slot : User(n)
    \/ ProcessBuffers

(* A push is completed, and the worker's loop goes round: bind requests      *)
(* arrive one at a time and perform_control ends when there are none.  No    *)
(* program has to send, to bind or to drop a socket.                         *)
Fairness ==
    /\ \A n \in Slot : WF_vars(Mark(n))
    /\ WF_vars(ProcessBuffers)
    /\ WF_vars(EndControl)

SafeSpec == Init /\ [][Next]_vars
Spec == SafeSpec /\ Fairness

-----------------------------------------------------------------------------
(* Properties *)

IsBound(n) == \E port \in Port : \E b \in ToSet(bindings[port]) : b.socket = n

(* What UdpManager ever puts into the bindings of a port.                    *)
ManagedBinding ==
    [target : {"any", "specific"}, original : Requested, reuse : {FALSE}, socket : Nat]

TablesTypeOK ==
    /\ slots \in Seq([ip : Requested, port : Port])
    /\ bindings \in [Port -> Seq(ManagedBinding)]

(* The shapes of the state; a socket is bound under its slot's address.      *)
TypeOK ==
    /\ TablesTypeOK
    /\ Len(slots) <= Slots
    /\ \A port \in Port : \A b \in ToSet(bindings[port]) :
          /\ b.socket \in 1 .. Len(slots)
          /\ slots[b.socket] = [ip |-> b.original, port |-> port]
    /\ ready \subseteq 1 .. Len(slots)
    /\ user \in [Slot -> {"unbound", "open", "mark", "mark_drop", "closed"}]
    /\ ring \in [Slot -> Seq({"data", "drop"})]
    /\ data \in 0 .. MaxData
    /\ worker \in {"control", "capture", "drain", "drain_socket"}
    /\ word \in 0 .. LastWord
    /\ captured \subseteq 1 .. Len(slots)
    /\ current \in 0 .. Len(slots)
    /\ worker = "drain_socket" => current # 0
    /\ removed \subseteq 1 .. Len(slots)
    /\ answer \in {"none", "ok", "unsupported", "in_use", "no_slot"}

(* No address has two listeners: whatever was bound and dropped before, a    *)
(* packet for an address finds one socket at most, so that the order in      *)
(* which get_mut looks does not matter.                                      *)
ListenersAreUnique ==
    \A port \in Port : \A i, j \in 1 .. Len(bindings[port]) :
        i # j => ~\E ip \in V4 \cup V6 :
                    Matches(bindings[port][i], ip) /\ Matches(bindings[port][j], ip)

(* The invariant that is inductive: the same, and the shape of the tables.   *)
ListenersInv == TablesTypeOK /\ ListenersAreUnique

(* Looking a socket up by the address of its own slot finds that socket and  *)
(* no other, as long as it is bound.                                         *)
SlotFindsItsSocket == \A n \in 1 .. Len(slots) : IsBound(n) => Served(n) = n

(* What a bound socket has pushed is on its way to be drained: its thread    *)
(* has yet to set the bit, or a bit that leads to it is set or captured, or  *)
(* it is being drained.                                                      *)
RingIsServed ==
    \A n \in 1 .. Len(slots) :
        IsBound(n) /\ ring[n] # <<>> =>
            \/ user[n] \in {"mark", "mark_drop"}
            \/ \E slot \in ready \cup captured : Served(slot) = n
            \/ worker = "drain_socket" /\ Served(current) = n

(* Both: the tables lead from what a socket pushed back to that socket       *)
(* (process_buffers: bit, slot, address, binding).                           *)
BoundSocketsAreServed == SlotFindsItsSocket /\ RingIsServed

(* A binding goes only when its own socket has been dropped. *)
RemovalIsOwn ==
    [][\A n \in Slot : IsBound(n) /\ ~IsBound(n)' => n \in removed']_vars

(* A socket bound to all addresses of a port for which an older socket asked *)
(* by another address: a late bit of the older one may lead to it, and has   *)
(* its Drop message taken under the older one's address.                     *)
FollowsAnother(n) ==
    /\ IsUnspecified(slots[n].ip)
    /\ \E m \in 1 .. n - 1 : slots[m].port = slots[n].port /\ slots[m].ip # slots[n].ip

(* A socket whose Drop message was pushed loses its binding in the end,      *)
(* whoever else sends or binds.                                              *)
DropUnbinds ==
    \A n \in Slot : user[n] = "mark_drop" ~> ~IsBound(n) \/ FollowsAnother(n)

(* Both: a dropped socket, and only that one, loses its binding, except      *)
(* where InUseMeansInUse fails (process_buffers removes by the address of    *)
(* the slot whose bit it followed).                                          *)
DropsUnbindTheirOwn == RemovalIsOwn /\ DropUnbinds

(* What manager.rs:69 tells the caller, "address already in use": some       *)
(* socket that is in the way has not been dropped, or its Drop message has   *)
(* not been taken yet.                                                       *)
InUseMeansInUse ==
    [][\A ip \in Requested, port \in Port :
          BindInUse(ip, port) =>
              \E b \in Rivals(bindings[port], ip, TRUE) : b.socket \notin removed]_vars

(* The same for an interface on which no socket was ever bound to all        *)
(* addresses: there a slot's address leads to its own socket or to one that  *)
(* was asked for by the very same address.                                   *)
SpecificInUseMeansInUse ==
    [][(\A n \in 1 .. Len(slots) : ~IsUnspecified(slots[n].ip)) =>
          \A ip \in Requested, port \in Port :
              BindInUse(ip, port) =>
                  \E b \in Rivals(bindings[port], ip, TRUE) : b.socket \notin removed]_vars
=============================================================================
