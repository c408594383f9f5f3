# Formal models of narth-net

narth-net (`src/lib`) is a user-space IPv4 stack over a TAP-like bridge: one
network thread moves Ethernet frames between the bridge and any number of
interfaces, one worker thread per interface runs ARP, IPv4, ICMP and UDP, and
the threads of programs use UDP sockets, ping sessions and a poller. Nothing is
shared under a lock that matters for progress; the threads meet in lock-free
rings, arrays of atomic "ready" words and park tokens. This directory holds
TLA+ models of that meeting, the TLC configurations that check them, and proofs
checked by TLAPS.

## 1. The system

| Component | State | Operations | Talks to |
|---|---|---|---|
| Network thread (`runtime/network.rs`) | senders and receivers per interface (256 slots), the ready words, the list of MAC addresses | `run` (poll, dispatch), `read_bridge`, `read_send_receiver`, `on_recv`, `join_interfaces`, `add_interface` | the bridge; the rings of every interface; mio's waker |
| `NetworkSender` (`runtime/channel.rs`) | producer end of a ring of 4096, slot id, waker | `try_send`: push, set the ready bit, wake | network thread |
| `ReadyByBits` (`ready_by_bits.rs`) | captured copy of the words | swap the words one by one, iterate over the set bits | network thread, UDP manager |
| Interface worker (`runtime/interface/worker.rs`) | addresses, routes, pending address adds, the managers | loop: control messages, address probes, received frames, socket buffers, ARP timers, ping timers, park | everything below |
| ARP table and Ethernet handler (`l2_ethernet`) | entry per neighbour, packets waiting for a next hop | `request`, `can_send_request`, `update_only`, `update_or_insert`, `pending`; `send_ipv4`, `recv_arp`, `perform_arp_timers` | worker, IPv4 handler, network ring |
| IPv4 and ICMP handlers (`l3_ipv4.rs`) | none | dispatch to managers, route lookup on send | managers, Ethernet handler |
| UDP manager (`udp/manager.rs`, `port_binding.rs`) | bindings per port, 1024 slots with their addresses, 16 ready words | `bind`, `recv`, `process_buffers` | worker, sockets |
| UDP socket (`udp.rs`, `udp/context.rs`, `handle.rs`, `messages.rs`) | two rings of 1024, result word, park tokens, pool of 64 buffers, peer, wake handles | `send_to`, `recv_from`, `peek_from`, `connect`, `set_nonblocking`, drop; `drain_send` | worker, poller |
| Ping manager (`l4_managers/ping.rs`) | sessions with outstanding sequence numbers | `ping`, timers, echo replies, asynchronous errors | worker, program |
| Poller (`poller.rs`) | tokens, 16 ready words, a parked thread | `register`, `poll`, `iter_ready`, `WakeHandle::wake`, token drop | sockets |
| Buffer pool (`buffer_pool`) | free list, return channel | `acquire`, `expand`, drop of a buffer | sockets |
| Address and route tables | sorted vectors under a lock | insert, remove, look up | worker, control handle |
| Interface handle (`interface.rs`) | control channel | add and remove addresses and routes, `ping`, `bind_udp`, `stop` | worker |
| Encoders and parsers (`protocols/`) | none | bytes to headers and back | all |
| DHCP (`services/dhcpv4.rs`), application (`src/app`) | - | an unfinished service; a demonstration | - |

**What is hard here, and what would make it right.**

* *Push, mark, wake against swap, pop, sleep.* The same three-step protocol
  carries packets to the network thread and messages to a worker, across several
  words that are not captured as a snapshot. Right means: nobody sleeps on work
  that is there, and what was accepted arrives once and in order.
* *One ARP table, four users.* Address probes, next-hop resolution, received
  ARP and timers all move the same entries while packets wait behind them. Right
  means: packets are neither lost, reordered nor stuck behind a resolved hop,
  the requests for an address are bounded, an address is granted only after
  silence, and every add is answered once.
* *One result word for all sends of a socket*, park tokens that serve both
  sends and receives, and a wake handle registered through the same ring as
  data. Right means: a blocked caller returns, with its own result.
* *Bits to slots to addresses to sockets.* The UDP manager goes through an
  address that may by now belong to another socket. Right means: one listener
  per address, no forgotten ring, and a dropped socket gives up its port.
* *Pings by 16-bit number.* Replies, errors and timeouts name a ping by the low
  bits of its count, sessions are named by keys that are drawn again, and one
  deadline serves them all. Right means: every ping is reported under its own
  number, none is forgotten, and the session ends after the last.
* *A poller over bits and slots.* Tokens die while the worker holds handles of
  them, slots are used again, and the words are swapped one by one. Right means:
  no event is given to a slot's next owner by design, and a thread that polls
  learns of every packet and of every freed buffer.
* *Tables and bytes.* Addresses and routes come and go in any order while what
  was written by one handler must be read as meant by another. Right means: the
  longest prefix wins, a datagram reaches a listener it matches and no other, and
  a reply goes back to the ping that asked.
* *Limits*: rings, pools, slots, retry counters and frame sizes all have one.

The exact places are the list of hazards in `PROJECT.json`.

## 2. Modules

```
SendQueue  <== implemented by == NetworkChannel --- NetworkChannel_proofs
ArpTable ----- ArpResolver --- ArpResolver_proofs
Selection --/
         \------\
Ipv4Formats ---- Ipv4Tables --- Ipv4Path --- Ipv4Path_proofs
                               /
PortBindings --- PortSharing -/
             \-- UdpManager --- UdpManager_proofs
UdpSocket  --- UdpSocket_proofs
Poller  --- Poller_proofs
PingManager --- PingManager_proofs
NetworkLifecycle --- NetworkLifecycle_proofs
```

Each has an `MC...` module with the model values of its runs. Operators named
"Mutant of X" are plausible mistakes in X; each property is shown to notice one.

### SendQueue, NetworkChannel (`channel.rs`, `network.rs`, `ready_by_bits.rs`)

`SendQueue` is what the transmit side promises: a bounded FIFO per interface
that is emptied onto the bridge in order while the network is open. It has no
rings, bits or wakers. An announcement may fail: the interface is then `stalled`,
and its packets may wait until some later announcement, of any interface, gets
through.

`NetworkChannel` is how it is done. Interface side: `Push` or `PushFull`, then
`MarkReady`, then `Wake` or `WakeFails` are the three atomic steps of `try_send`.
A wake is a system call, and `channel.rs:65` hands its error to
`InterfaceContext::send`, which logs it and goes on: packet and bit stay, and nobody
is about to wake the thread. The history variable `missed` has the interfaces in this
position, until any wake succeeds or the bit is swapped. Network side:
`Poll` returns the events present (bridge readiness is edge triggered, the waker
is level like a flag), `Dispatch` picks the next one, `ReadFrame` and
`ReadBridgeReturns` are `read_bridge` up to WouldBlock or end of file,
`SwapWord` is one atomic swap of one ready word, `SendPacket` one pop,
`SenderEmpty` the end of one ring, `EndDrain` and `EndBatch` the ends of the two
loops. `captured` is the iterator's private copy of the bits. Packets are
numbered per interface; frames from the bridge are only counted, since all
they do to this part is to keep the thread busy. The bridge itself
(`BridgeReceives`, `BridgeCloses`) is external.

### ArpTable, ArpResolver (`arp_table.rs`, `l2_ethernet.rs`, `worker.rs`)

`ArpTable` holds the operations on one entry as pure operators: what `request`
returns and leaves, and what `can_send_request` does. Instants become ages in
ticks; a tick is longer than the 100 ms request timeout, so a pending entry of
age 1 has expired, and 30 s and 60 s are two numbers of ticks.

`ArpResolver` is the worker's loop around it, one phase per section of
`InterfaceWorker::run`. In "control", `AddAddress` and `RemoveAddress` are the
two address messages. In "probe" the pending adds are visited from the last to
the first with one action per answer of the table (`ProbeWait`, `ProbeAgain`,
`ProbeTimeout`, `ProbeResolved`). In "recv", frames (`RecvArp`) and packets from
the protocols (`SendUnresolved`, `SendResolved`, `SendTimeout`, the arms of
`send_ipv4`) come in any order. In "timers" `perform_arp_timers` walks its
snapshot. In "ping" packets may be sent again, and `Park` lets time pass for any
of the entries. Whether the ring to the network takes a frame is chosen freely
for every frame. `asked`, `heard`, `sentTo` and `failed` record what happened,
for the properties. `failed` has the packets that `send_ipv4` refused with an error
and those given to `forward_async_error` (which reports them to a ping session; for UDP
it only logs).

### UdpSocket (`udp.rs`, `udp/context.rs`, `udp/handle.rs`, `udp/messages.rs`)

One socket, its user thread and the worker. `user` is the program counter of the
user thread: a push is ring, bit (`MarkReady`), unpark (`UnparkWorker`), after
which `next` says whether the call returns, awaits a result, a packet or the
answer to `connect`. `TakeResult`/`NoResultYet` and `TakePacket`/`NoPacketYet`
are the check-then-park loops; `Unparked` consumes the token. The worker's
phases are "control", "recv" (`Deliver`, then `WakeReader`), "swap", "drain"
(`PopMessage`), "handle" (one action per kind of message), "unpark_sender" and
"park". What the network makes of a datagram is any of the results of
`send_datagram`; the word that stores it also remembers, for the properties
alone, which datagram it came from. `StopWorker` is a stopped interface.

### Poller (`poller.rs`, with the registrations of `udp.rs` and `handle.rs`)

One thread owns the poller, the tokens and the sockets. `Register` is
`get_free_token` (the first slot whose shared state nobody holds, or one of a new
word) and `PushHandle`/`PushRefused` the handles it sends down the socket's ring;
a second refusal leaves a read handle behind. `Poll`, `Scan`, `Unparked` and
`TimesOut` are the two polls, `SwapLine` one atomic swap of `iter_ready`,
`NextEvent` the iterator with the lowest bit first, after which the thread reads
the socket until WouldBlock (`DrainSocket`). `BlockingRecv` and `Await` are a
`recv_from` in blocking mode, which puts the thread's own handle in the place of
the poller's. The worker's side is `Deliver`, `SendDatagram`, `TellWriter`,
`UpdateRead`, `UpdateWrite`, and the three steps of `WakeHandle::wake`
(`CheckDropped`, `SetBit`, `Unpark`). After a datagram and after a write handle
`TellWriter` looks whether the ring has room, as both arms of `drain_send` do, and a
thread that has filled the ring since the pop is not told. `writer` records what
the thread has been told of a full pool: "refused", and "missed" once the last
message that could have it told was handled with the ring full. That the worker learns of a message in the ring is the
subject of `UdpSocket`; here it just looks.

### Ipv4Formats, Ipv4Tables, Ipv4Path (`protocols/`, the tables, layers 2 to 4)

`Ipv4Formats` writes and reads Ethernet (VLAN tags too), ARP, IPv4, UDP and ICMP
as sequences of bytes with the code's offsets, codes and checksums; a reader
returns what it read or Rejected. `Ipv4Tables` is the address table and the route
table, as the code's sorted vectors, with `prefix_to_mask` as arithmetic on
addresses of `AddressBits` bits.

`Ipv4Path` puts them together: `Hear...` are the `recv` functions from the frame
up, `SendIpv4`, `SendUdp` and `SendEthernet` those from the payload down. The
handlers have no state, so they are operators, and the actions are their
callers: the table changes of the worker (`GrantAddress`, `RemoveAddress`,
`AddRoute`), the binds and drops of one port (`ChangeBindings`, `PortSharing`'s
steps), `SendDatagram`, `Ping`, and the receipt of whatever a peer sends
(`WeReceive`). The peer runs the same code with fixed tables, and also sends what
other stacks do: tagged and padded frames, refusals that quote a packet
(`PeerRefuses`) and the other control messages (`PeerComplains`). A frame
carries what its sender meant beside its bytes; `last` holds what was read. The
properties compare the two, and nothing else begins before a report was read (`ReadReport`),
which keeps the state space small and delays nobody: the handlers run to their
end in one thread. One frame is on the wire at a time, and may be lost.
Next hops are resolved by fiat, which is `ArpResolver`'s subject.

### PortBindings, PortSharing, UdpManager (`port_binding.rs`, `manager.rs`)

`PortBindings` translates the rules for one port: targets, `matches`,
`is_bindable_exclusive`, `is_bindable_allow_reuse`, `insert`, `get_mut`,
`remove`. `PortSharing` puts one port through every sequence of requests its
interface allows and judges the rules by a reference: the set of specific
addresses a binding covers. `Ipv4Path` runs it.

`UdpManager` is the manager with all sockets. Slots are never freed, so they
fill in order and the n-th socket is slot n. `Push`, `PushDrop`, `LoseDrop` and
`Mark` are the user side of every socket; `Bind` and its three refusals happen
in the worker's control phase; `SwapWord`, `TakeBit`, `PopData`, `PopDrop`,
`PopNothing` and `EndDrain` are `process_buffers`, in which a bit leads to a
slot, the slot to its address and the address to whoever is bound there
(`Served`). A request for port 0 takes some bindable port, which is the step
`Bind` already is.

### PingManager (`l4_managers/ping.rs`, the deadlines in `worker.rs`)

`sessions` maps a key (target, identifier) to its entry; `owner` in the entry
and `number` in a pending ping are not in the code and say whose session it is
and what the ping ought to be reported as. `Ping` draws any identifier not in
use. `OnEchoReply` and `OnAsyncSendError` take any key and any sequence number, of a
ping that is pending, was settled, or was never sent by this session; the reply is
dropped unless it finds a pending ping, the error is reported always. `PerformTimers`
is the whole of `perform_timers`: the Stop messages (`stops`), then for every
session its timeouts and its send, then the collection and the deadline; which
sends fail is chosen freely. `Stop` stands for `stop()` and for drop. The worker
sleeps until `deadline`, or until anything wakes it; instants are ages in ticks,
and `last_sent` None is the age at which the interval has passed. It wakes at most
one tick late. `results` is what the iterator of each PingSession gets, with
Success and Timeout as one status. That every ping is decided in the end is
`OverdueIsBounded` and the passing of time.

### NetworkLifecycle (`network.rs`, the loop and the end of `worker.rs`)

The owner of the Network is `app`: idle it may `Add` an interface, `Run` or
`JoinInterfaces`; run and join hold it until they return. The n-th interface is
in the n-th slot, which is its name here, for an address can be given again.
`ReadFrame` is `on_recv` up to the choice of receivers (`targets`), `Deliver` the
push of `InterfaceHandle::send` and `Unpark` what follows it. The worker's loop
is "control", "recv", "timers" (the sockets' rings and all timers, which only
send here), "parked"; after Stop it is "closing" and sends Closed, or panics on a
full ring (`ClosePanics`) or on a wake that fails after the push (`SendClosed`,
which then ends in "panicked" with Closed in the ring). The network thread takes packets and
Closed from any ring in any order, each ring in its own; that none is forgotten
is what `SendQueue` promises, and `NetworkChannel` implements it. A Closed
removes whoever has its address (`TakeClosed`).

## 3. Runs

| Run | Instance | What it shows |
|---|---|---|
| `NetworkChannel` | 2 interfaces in 2 different words, ring of 2, 3 packets each, 1 frame, every wake may fail; 535 000 states | `NoLostWakeup`; its inductive invariant `IInv` (types, who covers a ring, who covers a bit); `ImplementsService`: `SendQueue` with its fairness is implemented |
| `ArpResolver_safety` | 2 addresses, 2 adds, 1 retry, buffer of 2, 3 packets, 2 ARP messages | packets: `PacketsKeepTheirPlace` (every one is somewhere, in order), `WaitersHaveAReason`; requests: `AskersAgree` (retries are bounded, timers visit only pending entries); adds: `WaitersAreRegistered`, `AddVerdictIsSound` |
| `ArpResolver_liveness` | 1 address, 2 adds, 3 packets, 2 ARP messages | `AddIsAnswered`, `BufferIsReleased` |
| `ArpResolver_stale` | the same kind, small | violated: `StaleEntryIsRefreshed` (finding 1) |
| `UdpSocket` | rings of 2 and 1, pool of 2, 2 sends, 1 packet, 1 connect, nonblocking at first, then blocking | `NobodySleepsOnWork` (worker, sender, reader, caller of `connect`); `BuffersAreConserved`; `BlockingResultIsOwn`; `DatagramsGoOnceInOrder`; `CallsTakeEffect` (blocking calls return, a dropped socket is unbound) |
| `UdpSocket_success` | 3 sends, pool of 2, mode changes at will | violated: `SuccessMeansSent` (finding 2) |
| `UdpManager` | 3 slots in 2 words, one port, 2 specific addresses, an IPv6 one and 0.0.0.0; rings of 2 and 2 data messages in all, so that a Drop may be lost | `ListenersAreUnique`, `BoundSocketsAreServed` (a slot leads to its socket, no ring is forgotten), `DropsUnbindTheirOwn`, `SpecificInUseMeansInUse` |
| `UdpManager_inuse` | 2 slots, 1 specific address and 0.0.0.0 | violated: `InUseMeansInUse` (finding 3) |
| `PingManager` | 2 sessions of one target, of 2 pings (interval of 2 ticks) and without end (0, at most 5 pings), 2 identifiers, 4 sequence numbers, timeout of 1, 1 error | `PingsAreAccounted`, `OverdueIsBounded`, `EndedSessionsAreComplete`; `SessionsEnd` |
| `NetworkLifecycle` | 2 interfaces with 2 addresses to choose from, rings of 1, 1 packet, 2 frames | `FramesFindTheLiving` (no worker sleeps on a frame, a living interface keeps its entry), `StoppedInterfacesGo` |
| `Poller` | 1 socket, 2 tokens in words of 1 bit, registered for both halves or for reading; ring of 2, 1 place for packets, 1 buffer, 2 packets, 1 send; 806 000 states | `SlotsAreOwn`, `PollerSleepsOnNothing`; `RegisteredIsServed` |
| `Ipv4Path` | addresses of 6 bits: two of ours in a network of 16, one perhaps in one of 4; 3 routes to add, one refused or not by the table; up to 3 changes of tables and of bindings (2 IPv4 addresses, an IPv6 one and both unspecified ones, shared or not); payloads up to the largest; MTU of 100; 210 000 states | `RoutesAreSound`, `HeardAsMeant`, `DatagramsFindTheirListener`, `FramesFit`; for the bindings `SharingIsAgreed` (sharing is mutual, refusals are justified) and `ListenersStay` |

**Why the bounds are enough.** The hazards of the push/mark/wake protocol need a
second push while the first is under way, a full ring, and a bit set in a word
already swapped while another is yet to be, and a failed wake a later one of the same
interface and one of the other; three packets, a ring of two and two
words give all of them, and the proofs of section 5 remove the bounds for the
safety part (several interfaces in one word included). In `ArpResolver` an entry
goes through its whole life (pending, retried, timed out or resolved, stale,
restarted) with one retry and lifetimes of 1 and 2 ticks; three packets overflow
a buffer of two and still leave one to overtake; two adds can be of the same
address, or one can be removed while the other waits. In `UdpSocket` two sends
are what it takes for a result to outlive its call and three for a late result
to be returned as a success of the call after the next, which is where
`SuccessMeansSent` fails. The two unreachable errors are one outcome: the code
treats them alike. In `UdpManager` the third socket is the first in the second
word, and two are enough for a slot whose address another socket has taken; a
message ahead of a Drop is what sets a bit early. Of a port's bindings
three are needed for a request whose rivals disagree. In `PingManager`
five pings wrap four sequence numbers, the endless session has two pings pending
at once, which is half of the ring and the most `unwrap_sequence` can bear, and
the interval of the other is longer than the timeout; an identifier given up by
the first session can be drawn by the second. `WindowAssumption` names what the
code relies on there: with 65536 numbers and a timeout of 10 s, that a session
does not send more than 32767 pings in 10 s. In `NetworkLifecycle` two interfaces
are the old and the new one of an address, or two with addresses of their own;
one packet fills a ring before Closed, and the second frame meets a worker that
has popped the first, or a full ring. In `Poller` words of one bit put two tokens
into two words, so that the swaps of one poll are four, and the second token
takes either a new slot or that of the first; a ring of two is filled by the
handles of one registration, and with one buffer the second send is the one
refused. In `Ipv4Path` three changes are an add, an add that contests it and a
removal, or an add and two binds of a port that overlap; six bits hold two
networks of ours, one inside the other, a stranger's, and the address of all
ones; payloads are the empty one, the two on either side of what the MTU lets
through with an Ethernet header, and the largest a socket accepts; one of the peer's pings
has an answer one byte too long. Bounds are the constants called
`Max...` and the list of `Calls`; reaching one disables an action and never
another thread's step. Symmetry is used in `ArpResolver_safety` only, where no
operator orders addresses or calls.

Deadlock is checked except where the system really may stop: the network thread
ends at end of file, a worker can be stopped, and a port whose requests are all
made has nothing left to do.

## 4. Fairness

* `NetworkChannel`: weak fairness of the network thread's own steps and of the
  rest of a `try_send` once begun. A thread of the operating system that can run
  eventually does, and no step of either waits for another thread. Nobody is
  obliged to send, the bridge to deliver, or the end of file to come, and a wake need
  not succeed, however often it is called: `SendQueue` is fair only to interfaces
  that are not stalled. Frames
  that arrive for ever would keep `read_bridge` in its loop and starve the send
  side; with the bounded number of frames of the model this does not happen, and
  the promise is limited to it.
* `ArpResolver`: weak fairness of the worker's loop as one action, and, for each
  address, strong fairness of the parks in which its entry ages. The worker always
  goes round, and real time passes whether or not traffic cuts parks short.
* `UdpSocket`: weak fairness of the steps inside a call and of the worker's own
  steps. The timeout of the worker's park is in the model (`WorkerTimesOut`) but
  nothing counts on it, so a lost unpark would be seen. No call is obliged to be
  made, no packet to arrive.
* `Poller`: weak fairness of the worker's own steps, and of the thread's: it
  finishes calls and keeps polling, which is what `RegisteredIsServed` is about.
  Strong fairness of `Scan`, since a `poll_timeout` whose time has always run out
  before the first look at the bits would never look. Nobody has to send,
  register or drop, no packet has to come, and nothing counts on a timeout.
* `UdpManager`: weak fairness of setting a bit once the message is in the ring,
  of `process_buffers`, and of leaving the control phase. The worker does not
  sleep in this model; that it is woken is the subject of `UdpSocket`.
* `PingManager`: weak fairness of the worker's phases and of its waking once its
  deadline has come, strong fairness of time: a worker that is woken again and
  again, or spins because a send fails, still lives in passing time. No reply and
  no successful send is counted on.
* `NetworkLifecycle`: weak fairness of every worker's own steps, of the network
  thread's and of the joins. The network thread's is for the network as a whole:
  the model sends finitely many packets, so no ring starves another. Of the rings it
  counts only on those whose worker is "gone", that is, whose Closed was pushed and
  woke the thread (`NetworkGoesOn`). Nobody has to
  call run, join or stop, no frame has to come, and no packet has to be sent. A
  worker that is told to stop is not woken, so that it stops at all rests on the
  deadline of its park.

## 5. Proofs

**Transmit path** (`NetworkChannel_proofs`), for any set of interfaces, any
number and width of words, any capacity and any bounds. Assumptions:
`InterfaceAssumption` (every interface has its bit in one of the words) and
`SizeAssumption` (the sizes are natural numbers, the capacity at least 1).

`NoLostWakeup` alone is not inductive: from a state in which the thread polls,
nothing says where the responsibility for a packet went while the words were
being swapped. The invariant `IInv` follows it through: `RingIsCovered` (a
packet in a ring has a sender about to mark it, a set bit, or a captured bit),
`BitIsCovered` (a set bit has a sender about to wake, a pending wake, an event
in the batch, or a swap that has yet to reach its word), `BatchShape` (the
iterator and the batch are empty outside the states that use them) and
`TypeOK`. A bit whose wake failed is in `missed`, and everything in `missed` still has
its bit (`MissedIsMarked`), which is why the next wake of anybody has the packet sent.
In "poll" nothing is captured and no event is in the batch, so with no
wake pending a packet leads to its bit and the bit to a sender about to call wake, or
to a failed wake with no successful one since: `WakeupIsNeverLost`. The preservation of each conjunct is a lemma with a step
per action. `TypeCorrect` follows as well, and `RefinesSendQueue` maps `Push` to
`Accept`, `SendPacket` to `Transmit`, the end of file to `Shutdown`, a failed wake to
`Stall`, a successful one and the swap of a word to `Resume`, and every other step to a
stutter; the types are what it needs from the invariant.

**UDP sockets** (`UdpSocket_proofs`), for any ring sizes, pool and numbers of
calls, under `UdpSocketAssumption`. `Wakefulness` (`NobodySleepsOnWork`) needs to
know where work is announced at every other moment: `WorkIsAnnounced` (what is in
the ring has its bit, and a bit its token, set or about to be, or the worker is
still to look), `SenderIsAnswered` (the datagram of the send that blocks is with the
worker, or its result is in the word and its unpark is to come) and `ReaderIsWoken`
(the handle of the receive that blocks is with the worker, or registered, and
then every packet was announced) and `ConnectorIsAnswered` (the message of the
connect that is awaited is with the worker, or its answer is in the oneshot). `DropIsLast` keeps a Drop from overtaking.
`Conservation` says where each buffer of the pool is; it is inductive by itself, by
counting the datagrams of a ring. `OwnResult` needs that a datagram number is in
one place only (`NumbersAreFresh`), and that until the first nonblocking error is
stored the word holds nothing of an earlier call (`ResultIsOfThisCall`): finding 2
is what happens after that. `OnceInOrder` (`DatagramsGoOnceInOrder`, an action
property) needs besides that a datagram without an outcome is still with the
worker, and that the ring and the message in hand are in the order of the calls
(`SendsWaitInOrder`, over `IInv`).

**UDP manager** (`UdpManager_proofs`), for any addresses, ports and slots.
Assumptions: `AddressAssumption`, `ManagerAssumption`. `OneListener` says that
no specific address is ever matched by two bindings of a port, so the packet
lookup is a function of the address alone. `GrantedIsDisjoint`: a request that
passes the exclusive dual-stack test overlaps nothing (all addresses: there is
nothing; a specific one: nothing matches it, and it matches only itself).
`RemovedIsDisjoint`: removing one element, whichever, leaves a subsequence,
from `RemoveAtProperties`; that the element is there at all needs the least
number of a set of naturals (`LeastOfNaturals`). The inductive invariant of this
part, `ListenersInv`, adds only the shape of the tables.

`BoundAreServed` says that the bit of a slot leads to the socket the slot was given
to. Its invariant `IInv` says more of the bindings than `ListenersInv` (`Apart`: one
for all addresses is alone on its port, and there are no copies, whatever the
addresses), keeps the message of a bound socket announced by the bit of its own
slot through mark, swap and drain (`OnTheWay`), and a Drop the last message of
a ring (`DropIsLast`). `RemovedAreGone` is what remains of finding 3: as long as
every slot was taken for a specific address, a Drop takes its own socket's
binding. From it follow two action properties: `InUseIsTrueOfSpecific` (the
property `SpecificInUseMeansInUse`) and `RemovalsAreOwn`, the safety half of
`DropsUnbindTheirOwn`.

**Poller** (`Poller_proofs`), for any sockets, word width, ring and pool sizes and
number of tokens, under `PollerAssumption`. `SlotsStayOwn`: a token that is alive,
or has a handle in a ring or with the worker, is the one noted in its slot, so
that no `WakeHandle` sets a bit of another token. The invariant `SlotInv` adds
what `get_free_token` relies on: the slots ever used are the first ones and lie
within the words (`SlotsFillUp`), so that the slot found exists, is in the array
after it grew (`WordOfSlot`), and is held by nobody (`FreeSlotIsFirst`); and while
`register` pushes its handles the thread still holds the token
(`RegistersTheNewest`), or a handle would outlive it. Every other step only takes
holders away (`KeepsTokens`, with a lemma for each way a ring changes).

`NothingIsSleptOn` (`PollerSleepsOnNothing`) rests on `SlotInv` and on what the worker
owes the thread wherever the thread is: `ReadersAreNoticed` (a packet the token was
not told of is about to be announced, or is announced by a bit that is set or
captured, or is being read) and `WritersAreNoticed` (a refused sender has a datagram on
its way, a message with its handle, the worker about to look at the ring, or a bit;
or its last notice was skipped, which `PollerSleepsOnNothing` excepts). `ParkedHasNoBits` turns "a bit" into
"an unpark": a thread parks only after a look that found none, so a bit set since has
its unpark to come. The buffers have to be counted for it (`BuffersAddUp`): a
refusal means that some datagram is in the ring.

**Address resolution** (`ArpResolver_proofs`), for any addresses, adds, buffer sizes,
lifetimes and limits, under `ResolverAssumption` and `ArpTableAssumption`. The latter
says that the number of retries is not zero, as in the code (5): with none, an entry
would time out before a request. `Reasons`, `Places`, `Askers` and `Registered` are the four
safety invariants of the run. They are inductive together with `BuffersAreApart` (a
packet waits for one next hop), `CallsAreInLine` (a call waits if and only if it is in
the list of pending addresses, once) and `HeardIsResolved`, which relates an entry to
the ghost `heard`: resolved entries were heard from, pending ones and those that timed
out were not since the last request. That is what makes `VerdictsAreSound`, the
action property `AddVerdictIsSound`, follow in one step. `AskersAgree` counts the adds
made so far, so that their set has to be finite. The loop over the waiting packets is
in `Selection`, whose `Ascending` has the one increasing enumeration of the places.

**Pings** (`PingManager_proofs`), for any targets, calls, ring of sequence numbers, timeout
and bounds, under `PingAssumption` and `WindowAssumption` (see section 3), which is what
`unwrap_sequence` relies on and the code does not enforce. The theorems are about
`SafeSpec`, the steps without fairness, which every behaviour of `Spec` satisfies. `NoPingIsLost` needs the
number behind the low bits: `on_echo_reply` looks for it among the pending, and an
asynchronous error, about whatever number, must leave the others alone
(`ErrorsAreAccounted`). So the window is an invariant: pings are pending in the
order of their numbers and ages (`InOrder`), at least an interval apart (`Spaced`), and
so no more than half a ring behind (`InWindow`, from `WindowAssumption` and the ages).
`NonePendsForever` needs `AgesFit`: while the worker sleeps, the age of a ping and what is
left of the sleep stay below the timeout and the longest sleep, and a worker that wakes
reports what is overdue before it sleeps again. `EndsAfterTheLast` is inductive once the
stops asked for are known to be of their own session (`StopsAreAsked`).

**Lifecycle** (`NetworkLifecycle_proofs`), for any addresses, slots, rings and numbers of
frames, under `LifecycleAssumption`. `LivingGetTheirFrames`: an entry leads to the
youngest interface of its address (`EntriesAreOfTheYoungest`), Closed is the last word
of a worker that has ended (`ClosedIsTheLastWord`), and whoever has not had its Closed read
has its entry, unless one of the same address, not younger, was joined
(`UnreadKeepsItsEntry`). The exception is the limit named in section 6.
`FramesAreAnnounced` is the other half: a frame that comes after the worker found its
ring empty comes with a token.

**Tables, shared ports and frames** (`Ipv4Path_proofs`), for any width of addresses, any
addresses, requests, payloads and MTU and any number of changes. Assumptions:
`PathAssumption`, `SharingAssumption` (both versions have addresses; with none, binding
to all of them would take nothing), `AddressAssumption`, `BitsAssumption` and
`PowersAssumption` (a power of two is a positive number, and a smaller one divides
a larger), which is arithmetic that the provers do not have. What is heard needs two
more. `WidthAssumption` is the width of the fields: an address has no more than 32 bits,
the lengths, ports and numbers of a packet 16 (the code's `u16`), the codes of a
message are those it has, and the numbers in the data of a ping keep the three bytes
that the model gives them. `HostsAssumption`: no address that is granted is 0.0.0.0 or
a group's, nor is the broadcast address of its network a group's, and none is the
peer's own (whose owner would answer the probe, which is `ArpResolver`'s subject).

* `SharingIsAgreedUpon`: the six cases of the two `is_bindable` functions are
  exactly the overlaps of what bindings cover (`RivalsOverlap`), so that a refusal is
  justified in any state, and what is granted stays mutual through every insertion and
  removal. `ListenersStayPut`, an action property: a newcomer comes last
  (`NewcomerIsLast`), and when another binding goes, those before the listener still
  do not match (`OthersMayGo`). `Ipv4Path` takes the steps of `PortSharing` and no others
  (`BindingsOnlyChange`), so both hold with packets going through.
* `RoutesStaySound`: `insert_or_update` puts a route where the order of
  `RouteInformation::cmp` wants it and replaces the one of the same network only
  (`InsertOrUpdateUpdates`), `remove_matching` keeps the order (`WithoutSourceKeeps`),
  and in order the first route that leads to a destination has the longest prefix
  (`LookupFindsTheBest`). That the networks of our addresses stay routed needs
  `CopiesAreContested`: the removal of an address takes the routes of every copy of it, and a network
  with copies has been contested.
* `FramesAlwaysFit`: the sizes of what the writers write, from Ethernet down to the data
  of a ping, whatever is in it (`SendEthernetFits`, `SendIpv4Fits`), and so the panic is
  bounded to the sizes named in section 6. An echo reply is as long as fields of a received
  header say, so the invariant keeps that every frame on the wire, ours, the peer's,
  tagged or not, has numbers where a reader looks for them (`FramesAreReadable`);
  `RequestIsSized` then gives the length of what is echoed. `PathAssumption` asks for an
  MTU of at least 68 (what IPv4 asks of a link; the code takes it from the device), so
  that ARP never meets the assertion, and for an identification and tags of 16 bits.
* `WhatIsHeardWasMeant` and `ListenersAreFound` rest on `SpeechIsUnderstood`: the
  invariant `SpeechInv` says of the frame on the wire, whoever wrote it, that its bytes
  read back as what it was meant to say (`Understood`), and of the address table that
  it has only addresses that may be granted. The argument is piece by piece: `Holds`
  says where in a frame a piece lies, a writer puts its pieces there (`HoldsParts`,
  `FourParts`), a slice keeps those inside it (`SliceKeeps`), and a reader takes its
  fields from them (`EthernetIsRead`, `ArpIsRead`, `Ipv4IsRead`, `DatagramIsRead`,
  `IcmpIsRead`, `TimeIsRead`, `UnreachableIsRead`). So an answer is made of what was
  read, a router can quote what it must (`QuoteIsRead`), and padding never gets into a
  payload. The checksum stays the sum that it is: a datagram passes because the reader
  sums the same bytes as the writer, and no step looks inside. `AcceptedIsFor` shows
  that `is_addr_acceptable` takes exactly the packets that are for the host, the
  highest address of a network being the broadcast address the code computes
  (`BroadcastIsHighest`); and `ListenerIsFound` that asking `get_mut` again for 0.0.0.0
  finds nothing that the destination did not.

The invariants were checked by TLC as invariants of the runs before they were proved, and
in larger instances: `UdpSocket` 645 000 states and, with both modes and three sends,
6 981 000; `NetworkLifecycle` with three slots 5 046 000; `ArpResolver` 1 850 000;
`UdpManager` 71 500; `Poller` 806 000 and, with three tokens and two buffers, 15 074 000;
`PingManager` 429 000; `NetworkChannel` 535 000; `Ipv4Path` 210 000.

**Model-checked only.** Liveness and anything that needs ENABLED: `AddIsAnswered`,
`BufferIsReleased`, `CallsTakeEffect`, `SessionsEnd`, `StoppedInterfacesGo`,
`RegisteredIsServed`, and the liveness halves of `ImplementsService` and
`DropsUnbindTheirOwn`. What the checksum computes is a recursive function of the
bytes, and what such a definition gives for every input needs induction over data,
which the installed provers cannot do; no theorem needs its value. The modules avoid
RECURSIVE operators, which the SMT backend does not accept.

## 6. What the checks found

1. `ArpResolver_stale`: for an entry in its stale window `send_ipv4` calls
   `send_arp_request`, but `can_send_request` refuses a resolved entry, so no
   request is sent. `arp_table.rs:23` says a new one is.
2. `UdpSocket_success`: a blocking `send_to` can take the result of an earlier
   datagram, and return success for one that later fails, because the result
   word is not emptied first. It takes a nonblocking error stored late; without
   one every result is the call's own (`BlockingResultIsOwn`).
3. `UdpManager_inuse`: the bit of a dropped socket, set after its Drop was
   taken, leads from its slot's address to a newer socket bound to all addresses.
   If that one's Drop is taken on this way, `remove` looks for the older address,
   finds nothing, and the port stays in use for ever. With specific addresses
   only it cannot happen (`SpecificInUseMeansInUse`).

Smaller things met while modelling, without a run of their own. Slots of
the UDP manager are not freed when sockets go, so the 1025th bind fails however
few sockets are open (`BindNoSlot`), and the send slot of a closed interface is
not freed either (`Add` is bounded by the slots). After a change of mode the nonblocking path
can find a kind of error that `udp.rs:367` says is never set there. A
nonblocking send that finds its pool or ring full fails with OutOfMemory
(`SendRefused`), where `udp.rs:348` says WouldBlock. A redirect code of 4 is
written for ServiceAndHost (`icmp.rs`) where 3 is read; the precedence of a type
of service is lost when it is written back; and the length of an ICMP message that is
not an echo counts four bytes its writer leaves out. None of these is ever sent.
The reply to a ping of a broadcast address has that address as its source.
`main.rs` adds a route before the interface has an address, which `AddRoute`
answers with RouteNextHopUnreachable.

The first version of `OverdueIsBounded` said that a ping waits no longer than
its own session makes it, and failed: a session that has sent its last ping asks
for no deadline, and the worker then sleeps through its timeout for as long as
the interval of any other session. Without a reply the next ping, too, goes out
at the timeout of the last and not an interval after it, because after a send
the session asks to be woken at `now + timeout` (`ping.rs:247`). A session to a
target without a route makes the worker spin, since a failed send asks for
`now` (`ping.rs:250`). No document promises better.

`FramesFit` first said that the worker survives whatever its sockets accept, and
failed: `IPv4Handler::send` admits a payload of `mtu - 20` and a UDP socket one of
`mtu - 28`, and the assertion of `l2_ethernet.rs:32`, which counts the 14 bytes of
its own header too, ends the worker for the 14 largest sizes. The answer
to a ping is as long as the ping, and other stacks count their MTU without an Ethernet
header, so a full-sized ping meets the same assertion when it is answered. `RoutesAreSound`
first promised a route to the network of every address: two addresses of one
network share a route, so that the removal of the later takes that of both
(`worker.rs:151`), and an address added twice keeps no route when one copy is
removed (`worker.rs:189`).

Limits that no document speaks of are kept in the properties, not hidden:
`AskersAgree` lets the retries grow with the number of adds (each further add of a pending
address counts as a retry), `BufferIsReleased` excepts packets behind an entry
that timed out in `send_ipv4` or in a probe, `CallsTakeEffect` excepts a Drop lost to a full
ring (`LoseDrop`, `DropLost`), `DropsUnbindTheirOwn` excepts the sockets of finding 3
(bound to all addresses of a port that an older one had asked for by another address:
`FollowsAnother`), `NoLostWakeup` and `ImplementsService` except packets whose wake
failed until another succeeds (`missed`), `PingsAreAccounted` promises nothing of the numbers that
asynchronous errors name (`on_async_send_error` reports any), `FramesFindTheLiving` excepts an interface added under
the address of one that was joined while its Closed was still unread (the network
thread reads it in the next run and removes the newer entry),
`StoppedInterfacesGo` excepts the entry of a worker that panicked because its ring
was full or the wake after Closed failed, `RoutesAreSound` excepts networks that two addresses or an added route have
claimed (`contested`), `FramesFit` allows the panic for exactly those sizes, the
`Poller` properties speak of sockets whose handle is that of a living token (not of
one that a blocking `recv_from` or a failed registration replaced) and except a sender
whose last notice found the ring full ("missed": between the worker's pop and its look
at the ring, `handle.rs:204` and `235`, the thread has filled it with read handles), and
nothing is promised
to calls in progress when the interface is stopped.

## 7. What is not modelled, and the plan

Left out of the modules above on purpose: log messages, broadcast permission, the
numbers of the real capacities, and, except in `Ipv4Path`, bytes and routes (every next
hop is handed to `send_ipv4`).

* **IPv6**: the code refuses it everywhere; only the binding rules know it.
* **Malformed and truncated frames, the bodies of IPv4 options, fragments**: the
  readers' rejections are in `Ipv4Formats`, but the frames of the model are well
  formed, as the TAP device's are in a network that behaves. The definitions are not
  to be read beyond that. Where a length is wrong, the code panics and the model rejects
  or truncates: `IPv4Header::from_bytes` indexes a header of fewer than 20 bytes or 5 words
  (`ipv4.rs:356-391`; `ReadIpv4` rejects it), `IPv4Handler::recv` slices up to a
  `total_length` that may be below the header or beyond the frame (`l3_ipv4.rs:39`,
  `PayloadOf`), and `UdpManager::recv` up to a datagram length that may be below 8 or beyond
  the payload (`manager.rs:143`, `HearUdp`).
* **Connected sockets and broadcast permission in `Ipv4Path`**: `connect` is in `UdpSocket`.
  Nor does the peer there send a UDP checksum of zero (which `udp.rs:77` does not accept),
  and the receive ring of a listener always has room (`Deliver` in `UdpSocket` and `Poller`
  is about the ring).
* **Multicast**: `is_addr_acceptable` refuses it; there are no groups yet.
* **Messages the program can write and never does** (ICMP other than echo).
* **DHCP**: the parser has no caller, and the service is not part of the build.
* **Poller**: an iterator dropped before its end loses the rest of its events, and
  a `recv_from` outside an event may take what an event announced; the thread of
  the model does neither. A bit that an old token left in a slot used again is
  a spurious event for the new one, which `NextEvent` allows and no property
  forbids. A socket is not dropped.
* **The control channel of the interface handle** and calls in progress when their
  interface stops (one hazard has no property for this reason).
* **The application**: a demonstration.

Next, in this order:

1. `BufferPool` with its return channel and `expand` (the frames that `run`
   reads), under the counter that `UdpSocket` uses.
2. `UdpManager` composed with the receive path (`recv`) of `UdpSocket`, and the
   interface handle with its channel of calls.
3. The `ReadyByBits` iterator with its shrinking slice against a reference.

Every invariant and every action property that a run checks is a theorem; what
TLC alone checks is the liveness (section 5).
