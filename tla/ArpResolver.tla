----------------------------- MODULE ArpResolver -----------------------------
(***************************************************************************)
(* Address resolution inside one interface worker                          *)
(* (src/lib/src/runtime/interface/l2_ethernet.rs,                          *)
(* src/lib/src/runtime/interface/worker.rs).                               *)
(*                                                                         *)
(* The worker thread runs one loop: it takes the control messages, looks   *)
(* at the addresses being added, drains the received frames and the        *)
(* sockets, runs the ARP timers, then the ping timers, and parks.  Four of *)
(* those phases work on the same ARP table: an address being added is      *)
(* probed with the same entries that resolve next hops, and packets wait   *)
(* for an entry in ipv4_send_buffer.                                       *)
(*                                                                         *)
(* Any frame the worker pushes may find its ring to the network full,      *)
(* whatever happened to the frame before it, since the network thread pops *)
(* concurrently.  Time passes while the worker is parked.                  *)
(***************************************************************************)
EXTENDS ArpTable, Selection, SequencesExt

CONSTANTS
    Ip,             \* the addresses around: neighbours and the ones to add
    Add,            \* the ipv4_address_add calls made
    MaxBuffer,      \* MAX_IPV4_PENDING_BUFFER_SIZE (5)
    MaxPackets,     \* bound: packets handed to send_ipv4
    MaxArps         \* bound: ARP messages received

ASSUME ResolverAssumption ==
    /\ MaxBuffer \in Nat \ {0}
    /\ MaxPackets \in Nat
    /\ MaxArps \in Nat

VARIABLES
    phase,      \* where the worker stands in its loop
    index,      \* in "probe": addresses of `adding` still to look at
    todo,       \* in "timers": the snapshot of pending() still to look at
    entry,      \* arp_table
    buffer,     \* ipv4_send_buffer: packets waiting for each next hop
    ours,       \* ipv4_addresses: how many times each address is in the table
    adding,     \* ipv4_pending_addresses
    reply,      \* what each ipv4_address_add call has been told
    sentTo,     \* packets pushed to the network for each next hop, in order
    failed,     \* packets refused with an error, or handed to forward_async_error
    packets,    \* packets handed to send_ipv4 so far; names the next one
    arps,       \* ARP messages received so far
    asked,      \* addresses the last step sent an ARP request for
    heard       \* ARP from the address seen since the last request for it

tableVars == <<entry, heard>>
packetVars == <<buffer, sentTo, failed, packets>>
addressVars == <<ours, adding, reply>>
vars == <<phase, index, todo, tableVars, packetVars, addressVars, arps, asked>>

Packet == 1 .. MaxPackets
Verdict == {"ok", "in_use", "check_failed", "removed"}

Init ==
    /\ phase = "control"
    /\ index = 0
    /\ todo = {}
    /\ entry = [ip \in Ip |-> Vacant]
    /\ buffer = [ip \in Ip |-> <<>>]
    /\ ours = [ip \in Ip |-> 0]
    /\ adding = <<>>
    /\ reply = [a \in Add |-> "none"]
    /\ sentTo = [ip \in Ip |-> <<>>]
    /\ failed = {}
    /\ packets = 0
    /\ arps = 0
    /\ asked = {}
    /\ heard = [ip \in Ip |-> FALSE]

(* send_arp_request applied to an entry for ip that is e by now; room says  *)
(* whether the ring to the network takes the frame.                         *)
SendArpRequest(ip, e, room) ==
    /\ entry' = [entry EXCEPT ![ip] = AfterSendRequest(e)]
    /\ asked' = IF CanSendRequest(e) /\ room THEN {ip} ELSE {}
    /\ heard' = [heard EXCEPT ![ip] = @ /\ ~CanSendRequest(e)]

ArpRequestFails(e, room) == CanSendRequest(e) /\ ~room

-----------------------------------------------------------------------------
(* perform_control: the messages of the control channel *)

(* handle_ipv4_address_add: the probe goes out and the address waits.       *)
AddAddress(a, ip) ==
    /\ phase = "control"
    /\ reply[a] = "none"
    /\ \E room \in BOOLEAN :
          /\ SendArpRequest(ip, entry[ip], room)
          /\ IF ArpRequestFails(entry[ip], room)
             THEN /\ reply' = [reply EXCEPT ![a] = "check_failed"]
                  /\ UNCHANGED adding
             ELSE /\ reply' = [reply EXCEPT ![a] = "waiting"]
                  /\ adding' = Append(adding, [addr |-> ip, call |-> a])
    /\ UNCHANGED <<phase, index, todo, packetVars, ours, arps>>

(* handle_ipv4_address_remove: every pending add of the address is told so, *)
(* but only one copy leaves the address table.                              *)
RemoveAddress(ip) ==
    /\ phase = "control"
    /\ ours[ip] > 0 \/ \E i \in 1 .. Len(adding) : adding[i].addr = ip
    /\ LET kept == {i \in 1 .. Len(adding) : adding[i].addr # ip}
           dropped == {adding[i].call : i \in 1 .. Len(adding) \ kept}
       IN  /\ \E at \in Ascending(kept) : adding' = Picked(adding, at)
           /\ reply' = [a \in Add |-> IF a \in dropped THEN "removed" ELSE reply[a]]
    /\ ours' = [ours EXCEPT ![ip] = IF @ > 0 THEN @ - 1 ELSE 0]
    /\ asked' = {}
    /\ UNCHANGED <<phase, index, todo, tableVars, packetVars, arps>>

EndControl ==
    /\ phase = "control"
    /\ phase' = "probe"
    /\ index' = Len(adding)
    /\ asked' = {}
    /\ UNCHANGED <<todo, tableVars, packetVars, addressVars, arps>>

-----------------------------------------------------------------------------
(* perform_control: the addresses being added, from the last to the first *)

(* The address being added that the loop looks at. *)
Candidate == adding[index].addr
Caller == adding[index].call

(* Mutant of Answer: the address stays in the list. *)
AnswerKeepsPlace(verdict) ==
    /\ reply' = [reply EXCEPT ![Caller] = verdict]
    /\ UNCHANGED adding

Answer(verdict) ==
    /\ adding' = RemoveAt(adding, index)
    /\ reply' = [reply EXCEPT ![Caller] = verdict]

ProbeWait ==
    /\ phase = "probe" /\ index > 0
    /\ RequestState(entry[Candidate]) = "PendingWait"
    /\ index' = index - 1
    /\ asked' = {}
    /\ UNCHANGED <<phase, todo, tableVars, packetVars, addressVars, arps>>

ProbeAgain ==
    /\ phase = "probe" /\ index > 0
    /\ RequestState(entry[Candidate]) \in {"PendingRetry", "ResolvedStale", "Restart"}
    /\ LET e == AfterRequest(entry[Candidate])
       IN  \E room \in BOOLEAN :
              /\ SendArpRequest(Candidate, e, room)
              /\ IF ArpRequestFails(e, room)
                 THEN Answer("check_failed")
                 ELSE UNCHANGED <<adding, reply>>
    /\ index' = index - 1
    /\ UNCHANGED <<phase, todo, packetVars, ours, arps>>

(* Nobody answered: the address is ours.  (A gratuitous ARP is sent.)       *)
ProbeTimeout ==
    /\ phase = "probe" /\ index > 0
    /\ RequestState(entry[Candidate]) = "Timeout"
    /\ entry' = [entry EXCEPT ![Candidate] = AfterRequest(@)]
    /\ ours' = [ours EXCEPT ![Candidate] = @ + 1]
    /\ Answer("ok")
    /\ index' = index - 1
    /\ asked' = {}
    /\ UNCHANGED <<phase, todo, heard, packetVars, arps>>

(* Somebody answered. *)
ProbeResolved ==
    /\ phase = "probe" /\ index > 0
    /\ RequestState(entry[Candidate]) = "Resolved"
    /\ Answer("in_use")
    /\ index' = index - 1
    /\ asked' = {}
    /\ UNCHANGED <<phase, todo, tableVars, packetVars, ours, arps>>

EndProbe ==
    /\ phase = "probe" /\ index = 0
    /\ phase' = "recv"
    /\ asked' = {}
    /\ UNCHANGED <<index, todo, tableVars, packetVars, addressVars, arps>>

-----------------------------------------------------------------------------
(* The received frames, and the packets the protocols send *)

(* Mutant of Learns: only a message about us counts, not an answer. *)
LearnsIfAsked(source, target) == ours[target] > 0

Learns(source, target) == entry[source] # Vacant \/ ours[target] > 0

(* recv_arp for a message from source about target: the table learns of a   *)
(* source it knows, and of any source that asks about us; what waited for   *)
(* the source goes out, each packet as its frame finds room.  (A request    *)
(* about us is answered with a reply, which changes nothing here.)          *)
RecvArp(source, target) ==
    /\ phase = "recv"
    /\ arps < MaxArps
    /\ arps' = arps + 1
    /\ heard' = [heard EXCEPT ![source] = TRUE]
    /\ asked' = {}
    /\ IF Learns(source, target)
       THEN /\ entry' = [entry EXCEPT ![source] = Resolved]
            /\ \E room \in SUBSET (1 .. Len(buffer[source])) :
                  /\ \E at \in Ascending(room) :
                        sentTo' = [sentTo EXCEPT ![source] = @ \o Picked(buffer[source], at)]
                  /\ failed' = failed \cup {buffer[source][i] :
                                               i \in 1 .. Len(buffer[source]) \ room}
            /\ buffer' = [buffer EXCEPT ![source] = <<>>]
       ELSE UNCHANGED <<entry, sentTo, failed, buffer>>
    /\ UNCHANGED <<phase, index, todo, packets, addressVars>>

(* send_ipv4 is called while frames and sockets are drained (echo replies,  *)
(* datagrams) and by the ping timers.                                       *)
MaySend == phase \in {"recv", "ping"} /\ packets < MaxPackets

NewPacket == packets + 1

(* Mutant of BufferHasRoom: one packet too many. *)
BufferHasRoomOffByOne(hop) == Len(buffer[hop]) <= MaxBuffer

BufferHasRoom(hop) == Len(buffer[hop]) < MaxBuffer

(* Mutant of Enqueue: the newest packet goes first. *)
EnqueueAtFront(queue, packet) == <<packet>> \o queue

Enqueue(queue, packet) == Append(queue, packet)

(* The next hop is unknown or being asked about: the packet waits, after a  *)
(* request that may itself fail or find nothing to do.                      *)
SendUnresolved(hop) ==
    LET state == RequestState(entry[hop])
        e == AfterRequest(entry[hop])
    IN  /\ MaySend
        /\ state \in {"PendingRetry", "PendingWait", "Restart"}
        /\ \E room \in BOOLEAN :
              /\ IF state = "PendingWait"
                 THEN /\ entry' = [entry EXCEPT ![hop] = e]
                      /\ asked' = {}
                      /\ UNCHANGED heard
                 ELSE SendArpRequest(hop, e, room)
              /\ IF \/ state # "PendingWait" /\ ArpRequestFails(e, room)
                    \/ ~BufferHasRoom(hop)
                 THEN /\ failed' = failed \cup {NewPacket}
                      /\ UNCHANGED buffer
                 ELSE /\ buffer' = [buffer EXCEPT ![hop] = Enqueue(@, NewPacket)]
                      /\ UNCHANGED failed
        /\ packets' = NewPacket
        /\ UNCHANGED <<phase, index, todo, sentTo, addressVars, arps>>

(* The next hop is resolved: the packet goes out; a stale entry is asked    *)
(* about again, as far as can_send_request lets it.                         *)
SendResolved(hop) ==
    LET state == RequestState(entry[hop])
        e == AfterRequest(entry[hop])
    IN  /\ MaySend
        /\ state \in {"Resolved", "ResolvedStale"}
        /\ \E room, requestRoom \in BOOLEAN :
              /\ IF state = "ResolvedStale"
                 THEN SendArpRequest(hop, e, requestRoom)
                 ELSE asked' = {} /\ UNCHANGED tableVars
              /\ IF room /\ ~(state = "ResolvedStale" /\ ArpRequestFails(e, requestRoom))
                 THEN /\ sentTo' = [sentTo EXCEPT ![hop] = Append(@, NewPacket)]
                      /\ UNCHANGED failed
                 ELSE /\ failed' = failed \cup {NewPacket}
                      /\ UNCHANGED sentTo
        /\ packets' = NewPacket
        /\ UNCHANGED <<phase, index, todo, buffer, addressVars, arps>>

(* The next hop does not answer: ArpTimeout.                                *)
SendTimeout(hop) ==
    /\ MaySend
    /\ RequestState(entry[hop]) = "Timeout"
    /\ entry' = [entry EXCEPT ![hop] = AfterRequest(@)]
    /\ failed' = failed \cup {NewPacket}
    /\ packets' = NewPacket
    /\ asked' = {}
    /\ UNCHANGED <<phase, index, todo, heard, buffer, sentTo, addressVars, arps>>

-----------------------------------------------------------------------------
(* perform_arp_timers *)

(* The sockets are drained and the timers begin: arp_table.pending().       *)
BeginTimers ==
    /\ phase = "recv"
    /\ phase' = "timers"
    /\ todo' = {ip \in Ip : IsPending(entry[ip])}
    /\ asked' = {}
    /\ UNCHANGED <<index, tableVars, packetVars, addressVars, arps>>

TimerWait(ip) ==
    /\ phase = "timers" /\ ip \in todo
    /\ RequestState(entry[ip]) = "PendingWait"
    /\ todo' = todo \ {ip}
    /\ asked' = {}
    /\ UNCHANGED <<phase, index, tableVars, packetVars, addressVars, arps>>

(* A retry; that its frame found no room is ignored, and it still counts.   *)
TimerRetry(ip) ==
    /\ phase = "timers" /\ ip \in todo
    /\ RequestState(entry[ip]) = "PendingRetry"
    /\ \E room \in BOOLEAN : SendArpRequest(ip, AfterRequest(entry[ip]), room)
    /\ todo' = todo \ {ip}
    /\ UNCHANGED <<phase, index, packetVars, addressVars, arps>>

(* The hop did not answer: what waited for it is handed, one by one, to     *)
(* forward_async_error, which tells the session of a ping and logs the rest.*)
TimerTimeout(ip) ==
    /\ phase = "timers" /\ ip \in todo
    /\ RequestState(entry[ip]) = "Timeout"
    /\ entry' = [entry EXCEPT ![ip] = AfterRequest(@)]
    /\ failed' = failed \cup ToSet(buffer[ip])
    /\ buffer' = [buffer EXCEPT ![ip] = <<>>]
    /\ todo' = todo \ {ip}
    /\ asked' = {}
    /\ UNCHANGED <<phase, index, heard, sentTo, packets, addressVars, arps>>

EndTimers ==
    /\ phase = "timers" /\ todo = {}
    /\ phase' = "ping"
    /\ asked' = {}
    /\ UNCHANGED <<index, todo, tableVars, packetVars, addressVars, arps>>

(* park_timeout: a tick goes by for the entries in aged.                    *)
Park(aged) ==
    /\ phase = "ping"
    /\ phase' = "control"
    /\ entry' = [ip \in Ip |-> IF ip \in aged THEN Older(entry[ip]) ELSE entry[ip]]
    /\ asked' = {}
    /\ UNCHANGED <<index, todo, heard, packetVars, addressVars, arps>>

-----------------------------------------------------------------------------

Control == \/ \E a \in Add, ip \in Ip : AddAddress(a, ip)
           \/ \E ip \in Ip : RemoveAddress(ip)
Probe == ProbeWait \/ ProbeAgain \/ ProbeTimeout \/ ProbeResolved
SendIpv4 == \E hop \in Ip : SendUnresolved(hop) \/ SendResolved(hop) \/ SendTimeout(hop)
Timers == \E ip \in Ip : TimerWait(ip) \/ TimerRetry(ip) \/ TimerTimeout(ip)
LoopStep == EndControl \/ Probe \/ EndProbe \/ BeginTimers \/ Timers \/ EndTimers

Next ==
    \/ Control
    \/ LoopStep
    \/ \E source, target \in Ip : RecvArp(source, target)
    \/ SendIpv4
    \/ \E aged \in SUBSET Ip : Park(aged)

(* The worker's loop goes round, and time goes by for every entry, however  *)
(* often traffic cuts a park short.                                         *)
Fairness ==
    /\ WF_vars(LoopStep)
    /\ \A ip \in Ip : SF_vars(\E aged \in SUBSET Ip : ip \in aged /\ Park(aged))

SafeSpec == Init /\ [][Next]_vars
Spec == SafeSpec /\ Fairness

-----------------------------------------------------------------------------
(* Properties *)

Entry == {Vacant}
         \cup [state : {"pending"}, retry : Nat, age : 0 .. StaleLifetime]
         \cup [state : {"resolved", "timeout"}, age : 0 .. StaleLifetime]

(* The shapes of the state; no send buffer is beyond its limit. *)
TypeOK ==
    /\ phase \in {"control", "probe", "recv", "timers", "ping"}
    /\ index \in Nat
    /\ index <= Len(adding)
    /\ todo \subseteq Ip
    /\ entry \in [Ip -> Entry]
    /\ buffer \in [Ip -> Seq(Packet)]
    /\ \A ip \in Ip : Len(buffer[ip]) <= MaxBuffer
    /\ ours \in [Ip -> Nat]
    /\ adding \in Seq([addr : Ip, call : Add])
    /\ reply \in [Add -> {"none", "waiting"} \cup Verdict]
    /\ sentTo \in [Ip -> Seq(Packet)]
    /\ failed \subseteq Packet
    /\ packets \in 0 .. MaxPackets
    /\ arps \in 0 .. MaxArps
    /\ asked \subseteq Ip
    /\ heard \in [Ip -> BOOLEAN]

(* Packets never wait for a next hop that is resolved, or that the table     *)
(* knows nothing of: whoever resolves an entry empties its buffer in the     *)
(* same step, and an outdated entry is asked about again before anything is  *)
(* buffered behind it.                                                       *)
WaitersHaveAReason ==
    \A ip \in Ip :
        buffer[ip] # <<>> => IsPending(entry[ip]) \/ IsTimedOut(entry[ip])

(* No packet is lost or sent twice: each one handed to send_ipv4 was pushed  *)
(* to the network, or is waiting, or was given up with an error, and only    *)
(* one of these.                                                             *)
EveryPacketIsSomewhere ==
    LET Sent == UNION {ToSet(sentTo[ip]) : ip \in Ip}
        Waiting == UNION {ToSet(buffer[ip]) : ip \in Ip}
    IN  /\ Sent \cup Waiting \cup failed = 1 .. packets
        /\ Sent \cap Waiting = {}
        /\ (Sent \cup Waiting) \cap failed = {}

(* The packets for one next hop go out in the order they were handed over,   *)
(* those that waited before those that did not, even across a timeout of the *)
(* resolution and its restart.                                               *)
InOrder ==
    \A ip \in Ip :
        LET line == sentTo[ip] \o buffer[ip]
        IN  \A i, j \in 1 .. Len(line) : i < j => line[i] < line[j]

(* Both: a packet handed over keeps its place in the line of its next hop    *)
(* until it is sent or reported (send_ipv4, recv_arp and the ARP timers on   *)
(* one send buffer).                                                         *)
PacketsKeepTheirPlace == EveryPacketIsSomewhere /\ InOrder

(* Between two answers an address is asked about at most ARP_REQUEST_MAX_    *)
(* RETRY times after the first, whichever of the four phases asks; only a    *)
(* further ipv4_address_add for it may ask once more.                        *)
RetriesAreBounded ==
    \A ip \in Ip :
        IsPending(entry[ip]) =>
            entry[ip].retry <= MaxRetry + Cardinality({a \in Add : reply[a] # "none"})

(* What perform_arp_timers looks at is still pending when it gets there: the *)
(* arms for a resolved or a restarted entry (l2_ethernet.rs:187 and 192) are *)
(* never taken.                                                              *)
TimersSeeOnlyPending ==
    phase = "timers" => \A ip \in todo : IsPending(entry[ip])

(* Both: the four phases that ask for an address do not get in each other's  *)
(* way (can_send_request and its callers).                                   *)
AskersAgree == RetriesAreBounded /\ TimersSeeOnlyPending

(* The calls that wait are the ones in ipv4_pending_addresses, each once. *)
WaitersAreRegistered ==
    \A a \in Add :
        (reply[a] = "waiting") =
            (Cardinality({i \in 1 .. Len(adding) : adding[i].call = a}) = 1)

(* An address becomes ours only if its last request met with silence: no     *)
(* ARP message from it has been processed since.  It is refused as in use    *)
(* only if one has.                                                          *)
AddVerdictIsSound ==
    [][\A i \in 1 .. Len(adding) :
          LET w == adding[i]
          IN  reply[w.call] = "waiting" =>
                /\ reply'[w.call] = "ok" => ~heard[w.addr]
                /\ reply'[w.call] = "in_use" => heard[w.addr]]_vars

(* Every ipv4_address_add is answered: a probe ends, whether the address     *)
(* answers, is answered for and goes stale, or stays silent.                 *)
AddIsAnswered == \A a \in Add : reply[a] = "waiting" ~> reply[a] \in Verdict

(* While its next hop is being resolved a packet does not wait for ever: it  *)
(* leaves the buffer, unless the resolution times out under the eyes of      *)
(* send_ipv4 or of an address probe rather than of the ARP timers, which     *)
(* then leaves the packet behind a timed-out entry.                          *)
BufferIsReleased ==
    \A ip \in Ip :
        buffer[ip] # <<>> ~> (buffer[ip] = <<>> \/ IsTimedOut(entry[ip]))

(* What arp_table.rs:23 says of ResolvedStale: "use this but also send a new *)
(* request please".  When send_ipv4 sends a packet on a stale entry, it has  *)
(* sent a request for the next hop as well.                                  *)
StaleEntryIsRefreshed ==
    [][\A ip \in Ip :
          LET sends == packets' > packets /\ sentTo'[ip] # sentTo[ip]
          IN  sends /\ RequestState(entry[ip]) = "ResolvedStale" => ip \in asked']_vars
=============================================================================
