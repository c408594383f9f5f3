-------------------------- MODULE NetworkLifecycle --------------------------
(***************************************************************************)
(* The interfaces of a network from add_interface to their removal, and    *)
(* the frames they receive (src/lib/src/runtime/network.rs, the loop and   *)
(* the end of the worker in src/lib/src/runtime/interface/worker.rs).      *)
(*                                                                         *)
(* The program owns the Network: it adds interfaces and joins their        *)
(* workers, and while it is in run() it can do neither.  The network       *)
(* thread finds the receiver of a frame by hardware address, pushes into   *)
(* the worker's ring and then unparks the worker.  A worker that is told   *)
(* to stop sends Closed with its address through the same ring as its      *)
(* packets; the network thread removes whoever has that address when it    *)
(* comes to read it.                                                       *)
(*                                                                         *)
(* The send rings are as SendQueue promises them, one step to send and one *)
(* to take.  A slot of the network is never freed, so slots fill in order  *)
(* and the n-th interface is in slot n, which names it.  An address in use *)
(* and a full array make add_interface return an error and nothing more.   *)
(***************************************************************************)
EXTENDS Naturals, SequencesExt

CONSTANTS
    Mac,            \* hardware addresses interfaces are given, the bridge's aside
    Broadcast,      \* the broadcast address
    Slots,          \* length of InterfaceSendReceivers::senders (256)
    RecvCapacity,   \* RECV_QUEUE_SIZE (4096)
    SendCapacity,   \* SEND_QUEUE_SIZE (4096)
    MaxPackets,     \* bound: packets sent, by all interfaces together
    MaxFrames       \* bound: frames received from the bridge

ASSUME LifecycleAssumption ==
    /\ Broadcast \notin Mac
    /\ {Slots, RecvCapacity, SendCapacity} \subseteq Nat \ {0}
    /\ {MaxPackets, MaxFrames} \subseteq Nat

VARIABLES
    app,        \* what the owner of the Network is doing
    interfaces, \* Network::interfaces: address to slot
    macs,       \* the address of each interface, in the order they were added
    stopped,    \* interfaces that were sent Stop
    worker,     \* where each worker stands
    token,      \* interfaces whose worker's thread has its park token
    inbound,    \* frames in each worker's ring
    outbound,   \* what is in each ring to the network
    targets,    \* on_recv: the interfaces a frame has yet to be sent to
    unparking,  \* InterfaceHandle::send: pushed to, not yet unparked (0: nobody)
    joined,     \* interfaces whose worker has been joined
    packets,    \* packets sent so far
    frames      \* frames received so far

programVars == <<app, interfaces, macs, joined>>
workerVars == <<worker, outbound, packets>>
networkVars == <<targets, unparking, frames>>
vars == <<programVars, stopped, workerVars, token, inbound, networkVars>>

Slot == 1 .. Slots
Added == DOMAIN macs
Entries == {interfaces[mac] : mac \in DOMAIN interfaces}
Ended == {"gone", "panicked"}

Init ==
    /\ app = "idle"
    /\ interfaces = <<>>
    /\ macs = <<>>
    /\ stopped = {}
    /\ worker = [n \in Slot |-> "none"]
    /\ token = {}
    /\ inbound = [n \in Slot |-> 0]
    /\ outbound = [n \in Slot |-> <<>>]
    /\ targets = {}
    /\ unparking = 0
    /\ joined = {}
    /\ packets = 0
    /\ frames = 0

-----------------------------------------------------------------------------
(* The program *)

AddressIsFree(mac) == mac \notin DOMAIN interfaces

(* add_interface: the worker's thread is started at once. *)
Add(mac) ==
    /\ app = "idle"
    /\ AddressIsFree(mac)
    /\ Len(macs) < Slots
    /\ macs' = Append(macs, mac)
    /\ interfaces' = [m \in DOMAIN interfaces \cup {mac} |->
                         IF m = mac THEN Len(macs') ELSE interfaces[m]]
    /\ worker' = [worker EXCEPT ![Len(macs')] = "control"]
    /\ UNCHANGED <<app, joined, stopped, outbound, packets, token, inbound, networkVars>>

(* Interface::stop sends Stop and does not wake the worker. *)
Stop(n) ==
    /\ worker[n] \notin Ended
    /\ stopped' = stopped \cup {n}
    /\ UNCHANGED <<programVars, workerVars, token, inbound, networkVars>>

Run ==
    /\ app = "idle"
    /\ app' = "running"
    /\ UNCHANGED <<interfaces, macs, joined, stopped, workerVars, token, inbound, networkVars>>

JoinInterfaces ==
    /\ app = "idle"
    /\ app' = "joining"
    /\ UNCHANGED <<interfaces, macs, joined, stopped, workerVars, token, inbound, networkVars>>

(* join waits for the worker's thread; a panic there is ignored. *)
Join(n) ==
    /\ app = "joining"
    /\ n \in Entries
    /\ worker[n] \in Ended
    /\ interfaces' = RestrictValues(interfaces, LAMBDA k : k # n)
    /\ joined' = joined \cup {n}
    /\ UNCHANGED <<app, macs, stopped, workerVars, token, inbound, networkVars>>

JoinReturns ==
    /\ app = "joining"
    /\ Entries = {}
    /\ app' = "idle"
    /\ UNCHANGED <<interfaces, macs, joined, stopped, workerVars, token, inbound, networkVars>>

-----------------------------------------------------------------------------
(* The worker of interface n: InterfaceWorker::run and drop *)

Goes(n, from, to) == worker[n] = from /\ worker' = [worker EXCEPT ![n] = to]

EndControl(n) ==
    /\ Goes(n, "control", IF n \in stopped THEN "closing" ELSE "recv")
    /\ UNCHANGED <<programVars, stopped, outbound, packets, token, inbound, networkVars>>

RecvFrame(n) ==
    /\ worker[n] = "recv"
    /\ inbound[n] > 0
    /\ inbound' = [inbound EXCEPT ![n] = @ - 1]
    /\ UNCHANGED <<programVars, stopped, workerVars, token, networkVars>>

RecvEmpty(n) ==
    /\ inbound[n] = 0
    /\ Goes(n, "recv", "timers")
    /\ UNCHANGED <<programVars, stopped, outbound, packets, token, inbound, networkVars>>

(* The protocols send in answer to frames, for sockets and by timers; a full *)
(* ring loses the packet.                                                    *)
SendPacket(n) ==
    /\ worker[n] \in {"recv", "timers"}
    /\ packets < MaxPackets
    /\ packets' = packets + 1
    /\ outbound' = IF Len(outbound[n]) = SendCapacity THEN outbound
                   ELSE [outbound EXCEPT ![n] = Append(@, "packet")]
    /\ UNCHANGED <<programVars, stopped, worker, token, inbound, networkVars>>

Park(n) ==
    /\ Goes(n, "timers", "parked")
    /\ UNCHANGED <<programVars, stopped, outbound, packets, token, inbound, networkVars>>

(* The park ends with the token, or when its time is up. *)
Unparked(n) ==
    /\ n \in token
    /\ Goes(n, "parked", "control")
    /\ token' = token \ {n}
    /\ UNCHANGED <<programVars, stopped, outbound, packets, inbound, networkVars>>

ParkTimesOut(n) ==
    /\ n \notin token
    /\ Goes(n, "parked", "control")
    /\ UNCHANGED <<programVars, stopped, outbound, packets, token, inbound, networkVars>>

(* Closed goes into the ring.  When the wake after it fails the worker       *)
(* panics all the same, `expect` being for either error, and Closed stays.   *)
SendClosed(n) ==
    /\ Len(outbound[n]) < SendCapacity
    /\ \E end \in Ended : Goes(n, "closing", end)
    /\ outbound' = [outbound EXCEPT ![n] = Append(@, "closed")]
    /\ UNCHANGED <<programVars, stopped, packets, token, inbound, networkVars>>

(* expect("send closed") on a full ring. *)
ClosePanics(n) ==
    /\ Len(outbound[n]) = SendCapacity
    /\ Goes(n, "closing", "panicked")
    /\ UNCHANGED <<programVars, stopped, outbound, packets, token, inbound, networkVars>>

-----------------------------------------------------------------------------
(* The network thread *)

(* Between two frames, two messages, or a frame and a message. *)
AtRest == app = "running" /\ targets = {} /\ unparking = 0

(* on_recv: a frame for everybody, for one interface, or for none of them. *)
ReadFrame(destination) ==
    /\ AtRest
    /\ frames < MaxFrames
    /\ frames' = frames + 1
    /\ targets' = CASE destination = Broadcast              -> Entries
                    [] destination \in DOMAIN interfaces    -> {interfaces[destination]}
                    [] OTHER                                -> {}
    /\ UNCHANGED <<programVars, stopped, workerVars, token, inbound, unparking>>

(* Mutant of HasRoom: one too many. *)
HasRoomOffByOne(n) == inbound[n] <= RecvCapacity
HasRoom(n) == inbound[n] < RecvCapacity

(* Mutant of AfterPush: the push is all. *)
AfterPushSilently(n) == 0

(* After a push the worker's thread is to be unparked. *)
AfterPush(n) == n

(* InterfaceHandle::send: try_push, ... *)
Deliver(n) ==
    /\ app = "running" /\ unparking = 0
    /\ n \in targets
    /\ targets' = targets \ {n}
    /\ IF HasRoom(n)
       THEN /\ inbound' = [inbound EXCEPT ![n] = @ + 1]
            /\ unparking' = AfterPush(n)
       ELSE UNCHANGED <<inbound, unparking>>
    /\ UNCHANGED <<programVars, stopped, workerVars, token, frames>>

(* ... and unpark. *)
Unpark ==
    /\ unparking # 0
    /\ token' = token \cup {unparking}
    /\ unparking' = 0
    /\ UNCHANGED <<programVars, stopped, workerVars, inbound, targets, frames>>

TakePacket(n) ==
    /\ AtRest
    /\ outbound[n] # <<>> /\ Head(outbound[n]) = "packet"
    /\ outbound' = [outbound EXCEPT ![n] = Tail(@)]
    /\ UNCHANGED <<programVars, stopped, worker, packets, token, inbound, networkVars>>

(* Mutant of WithoutAddress: the entry stays. *)
WithoutAddressNot(mac) == interfaces
WithoutAddress(mac) == Restrict(interfaces, DOMAIN interfaces \ {mac})

(* Closed names an address, not an interface. *)
TakeClosed(n) ==
    /\ AtRest
    /\ outbound[n] # <<>> /\ Head(outbound[n]) = "closed"
    /\ outbound' = [outbound EXCEPT ![n] = Tail(@)]
    /\ interfaces' = WithoutAddress(macs[n])
    /\ UNCHANGED <<app, macs, joined, stopped, worker, packets, token, inbound, networkVars>>

(* The bridge is closed and run returns, whatever is left in the rings. *)
RunReturns ==
    /\ AtRest
    /\ app' = "idle"
    /\ UNCHANGED <<interfaces, macs, joined, stopped, workerVars, token, inbound, networkVars>>

-----------------------------------------------------------------------------
WorkerStep(n) ==
    \/ EndControl(n) \/ RecvFrame(n) \/ RecvEmpty(n) \/ Park(n)
    \/ Unparked(n) \/ ParkTimesOut(n) \/ SendClosed(n) \/ ClosePanics(n)

Take(n) == TakePacket(n) \/ TakeClosed(n)
NetworkStep == (\E n \in Added : Deliver(n) \/ Take(n)) \/ Unpark

(* What the network thread goes on to do: of the rings, the one whose Closed *)
(* woke it is surely emptied, while packets may wait for a wake that failed. *)
NetworkGoesOn ==
    \/ \E n \in Added : Deliver(n) \/ (worker[n] = "gone" /\ Take(n))
    \/ Unpark

JoinStep == (\E n \in Added : Join(n)) \/ JoinReturns

Next ==
    \/ \E mac \in Mac : Add(mac)
    \/ \E n \in Added : Stop(n) \/ WorkerStep(n) \/ SendPacket(n)
    \/ \E destination \in Mac \cup {Broadcast} : ReadFrame(destination)
    \/ NetworkStep
    \/ RunReturns
    \/ Run
    \/ JoinInterfaces
    \/ JoinStep

(* The threads go on with what they have to do.  Nobody has to call run,     *)
(* join or stop, and no frame has to come.                                   *)
Fairness ==
    /\ \A n \in Slot : WF_vars(n \in Added /\ WorkerStep(n))
    /\ WF_vars(NetworkGoesOn)
    /\ WF_vars(JoinStep)

SafeSpec == Init /\ [][Next]_vars
Spec == SafeSpec /\ Fairness

-----------------------------------------------------------------------------
(* Properties *)

WorkerPlace == {"none", "control", "recv", "timers", "parked", "closing"} \cup Ended

(* The variables have their types: rings within their sizes, one entry per   *)
(* address, each leading to an interface that was added.                     *)
TypeOK ==
    /\ app \in {"idle", "running", "joining"}
    /\ macs \in Seq(Mac) /\ Len(macs) <= Slots
    /\ DOMAIN interfaces \subseteq Mac /\ Entries \subseteq Added
    /\ stopped \subseteq Added /\ joined \subseteq Added
    /\ worker \in [Slot -> WorkerPlace]
    /\ token \subseteq Added
    /\ inbound \in [Slot -> 0 .. RecvCapacity]
    /\ DOMAIN outbound = Slot
    /\ \A n \in Slot :
        outbound[n] \in Seq({"packet", "closed"}) /\ Len(outbound[n]) <= SendCapacity
    /\ targets \subseteq Added
    /\ unparking \in Added \cup {0}
    /\ packets \in 0 .. MaxPackets
    /\ frames \in 0 .. MaxFrames

(* No worker sleeps on a frame: its ring is empty, or it has its token, or   *)
(* the network thread is between the push and the unpark (InterfaceHandle::  *)
(* send against the worker's pop-until-empty and park).                      *)
WorkerSleepsOnNoFrame ==
    \A n \in Added :
        worker[n] = "parked" /\ inbound[n] > 0 => n \in token \/ unparking = n

(* Frames for an address reach the interface that has it as long as its      *)
(* worker lives: the entry is its own, and no Closed removes it.  An older   *)
(* interface of the same address that was JOINED is the exception: its       *)
(* Closed is still to be read, and will remove the newer entry               *)
(* (add_interface, join_interfaces, read_send_receiver).                     *)
LiveKeepsItsEntry ==
    \A n \in Added :
        worker[n] \notin Ended =>
            \/ macs[n] \in DOMAIN interfaces /\ interfaces[macs[n]] = n
            \/ \E k \in joined : k < n /\ macs[k] = macs[n]

(* Both: what is read for the address of a living interface gets to its      *)
(* worker, and finds it awake (Network::on_recv, InterfaceHandle::send).     *)
FramesFindTheLiving == WorkerSleepsOnNoFrame /\ LiveKeepsItsEntry

(* An interface that was stopped loses its entry while the network runs,     *)
(* unless its Closed found no room or woke nobody; and join_interfaces       *)
(* returns once every interface has been stopped, panicked workers included. *)
StoppedInterfacesGo ==
    /\ \A n \in Slot :
        n \in stopped /\ app = "running"
            ~> n \notin Entries \/ worker[n] = "panicked" \/ app # "running"
    /\ app = "joining" /\ Entries \subseteq stopped ~> app = "idle"
=============================================================================
