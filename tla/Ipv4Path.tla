------------------------------ MODULE Ipv4Path ------------------------------
(***************************************************************************)
(* Packets between an interface of the program and a peer: the tables the  *)
(* user changes, the sockets of one UDP port (PortSharing), and the        *)
(* handlers of layers 2, 3 and 4 that write and read the frames            *)
(* (interface/l2_ethernet.rs, l3_ipv4.rs, l4_managers.rs and               *)
(* l4_managers/udp/{handle,manager}.rs).                                   *)
(*                                                                         *)
(* The handlers keep no state of their own, so they are operators; their   *)
(* callers are the actions.  The peer runs the same code with fixed        *)
(* tables, and also sends what other stacks send.  One frame is on the     *)
(* wire at a time, and may be lost.  A frame carries what it was meant to  *)
(* say, and `last` what the last step reported: the properties compare     *)
(* them.  Resolving a next hop, with everything that can go wrong, is      *)
(* ArpResolver's: here a host that has the address answers at once.        *)
(***************************************************************************)
EXTENDS PortSharing, Ipv4Tables, Ipv4Formats

CONSTANTS
    OurMac, PeerMac,        \* six bytes each
    PeerAddress, PeerPrefix,
    Port,                   \* of our sockets, and of the peer's
    Mtu, Identification,    \* the random identification of a packet
    Identifier, Sequence,   \* of a ping
    Times,                  \* what a ping may carry as its time of sending
    Grants,                 \* addresses that may be added, with their prefixes
    RouteRequests,          \* records for ipv4_route_add
    Destinations,           \* of our datagrams and pings
    PeerDestinations,       \* of the peer's
    Payloads, PeerPayloads, \* of datagrams; the peer's of pings too
    Tags,                   \* VLAN tags of the peer's frames, none included
    Codes,                  \* of the peer's Destination Unreachable messages
    Complaints,             \* its other control messages
    MaxSteps                \* bound: changes of the tables and bindings in a run

(* The control messages that name no packet of ours.                         *)
ControlMessage ==
    [kind : {"SourceQuench"}, data : Seq(0 .. 255)]
        \cup [kind : {"Redirect"}, code : 0 .. LastCode.Redirect, gateway : Addresses,
              data : Seq(0 .. 255)]
        \cup [kind : {"TimeExceeded"}, code : 0 .. LastCode.TimeExceeded, data : Seq(0 .. 255)]
        \cup [kind : {"ParameterProblem"}, pointer : 0 .. 255, data : Seq(0 .. 255)]

ASSUME PathAssumption ==
    /\ Unspecified4 = Unspecified
    /\ V4 \subseteq Addresses \ {Unspecified}
    /\ {OurMac, PeerMac} \subseteq [1 .. 6 -> 0 .. 255]
    /\ PeerAddress \in Addresses /\ PeerPrefix \in 0 .. AddressBits
    /\ Grants \subseteq [address : Addresses, prefix : 0 .. AddressBits]
    /\ RouteRequests \subseteq [target : Addresses, prefix : 0 .. AddressBits,
                                nextHop : Addresses, source : Addresses \cup {NoAddress}]
    /\ Payloads \cup PeerPayloads \subseteq Seq(0 .. 255)
    /\ Complaints \subseteq ControlMessage
    /\ Tags \subseteq {<<>>} \cup [1 .. 1 -> Words]
    /\ Identification \in Words
    /\ Mtu \in Nat /\ Mtu >= 68     \* what IPv4 asks of a link
    /\ MaxSteps \in Nat

(* What the fields of a packet can hold: an address has four octets, a       *)
(* length, a port and the numbers of a ping have two.                        *)
ASSUME WidthAssumption ==
    /\ (2^AddressBits - 1) \div 65536 \in Words
    /\ {Mtu, Port, Identifier, Sequence} \subseteq Words
    /\ \A data \in PeerPayloads : Len(data) + 28 \in Words
    /\ \A message \in Complaints : Len(message.data) + 28 \in Words
    /\ Codes \subseteq 0 .. LastCode.DestinationUnreachable
    /\ \A time \in Times :
          /\ time \in [seconds : Stamps, micros : Stamps, monotonic : {time.monotonic}]
          /\ \/ time.monotonic = <<>>
             \/ time.monotonic \in [1 .. 1 -> Stamps] /\ time.monotonic[1] # 0

(* A host has addresses of its own, and that of a group is not one.  An      *)
(* address that its owner answers for was not granted (ArpResolver).         *)
ASSUME HostsAssumption ==
    /\ \A e \in Grants \cup {[address |-> PeerAddress, prefix |-> PeerPrefix]} :
          /\ e.address # Unspecified /\ ~IsMulticast(e.address)
          /\ ~IsMulticast(BroadcastOf(e.address, e.prefix))
    /\ \A e \in Grants : e.address # PeerAddress
    /\ Destinations \cup PeerDestinations \subseteq Addresses

VARIABLES
    addresses,  \* the address table
    routes,     \* the route table
    changes,    \* changes of the tables so far
    contested,  \* networks that two addresses, or a route added by hand, have claimed
    wire,       \* the frame on the wire
    last        \* what the last step reported

tables == <<addresses, routes, changes, contested>>
path == <<addresses, routes, changes, contested, wire, last, bindings, made>>

NoFrame == [to |-> "nobody"]
Frame(to, bytes, destination, meant) ==
    [to |-> to, bytes |-> bytes, destination |-> destination, meant |-> meant]

Nothing == [kind |-> "nothing"]
Sent(result, size) == [kind |-> "sent", by |-> "us", result |-> result, size |-> size]
Heard(by, frame, heard, result, size) ==
    [kind |-> "heard", by |-> by, destination |-> frame.destination,
     meant |-> frame.meant, heard |-> heard, result |-> result, size |-> size]

(* The panic of an assertion ends the worker, whether it sends or answers.   *)
Alive == ~(last.kind \in {"sent", "heard"} /\ last.by = "us" /\ last.result = "panic")

(* Nobody begins anything new before the last report was read (ReadReport).  *)
Quiet == last = Nothing

PathInit ==
    /\ Init
    /\ addresses = <<>> /\ routes = <<>> /\ changes = 0 /\ contested = {}
    /\ wire = NoFrame /\ last = Nothing

-----------------------------------------------------------------------------
(* The two hosts, as the handlers see them *)

PeerAddresses == WithAddress(<<>>, PeerAddress, PeerPrefix)
PeerRoutes == InsertOrUpdate(<<>>, ConnectedRoute(PeerAddress, PeerPrefix))
PeerBindings == Insert(<<>>, Unspecified4, TRUE, FALSE, 1)

(* neighbours: the next hops that some other host answers for.               *)
Us == [mac |-> OurMac, neighbourMac |-> PeerMac, routes |-> routes,
       neighbours |-> {PeerAddress}]
Peer == [mac |-> PeerMac, neighbourMac |-> OurMac, routes |-> PeerRoutes,
         neighbours |-> {e.address : e \in ToSet(addresses)}]

-----------------------------------------------------------------------------
(* Sending *)

Failed(result) == [result |-> result, bytes |-> <<>>]

(* Mutant of Fits: the assertion leaves the header to the layers above.      *)
FitsWithoutHeader(header, payload) == Len(payload) <= Mtu

Fits(header, payload) == EthernetLength(header) + Len(payload) <= Mtu

(* EthernetHandler::send                                                     *)
SendEthernet(mac, destination, etherType, payload) ==
    LET header == EthernetHeader(etherType, mac, destination)
    IN  IF Fits(header, payload)
        THEN [result |-> "sent", bytes |-> WriteEthernet(header) \o payload]
        ELSE Failed("panic")

(* IPv4Handler::send; a next hop nobody answers for times out.               *)
SendIpv4(host, source, destination, protocol, payload) ==
    LET route == Lookup(host.routes, destination)
        from == IF source = Unspecified THEN route.source ELSE source
        header == Ipv4Header(protocol, from, destination, Len(payload), Identification)
        nextHop == IF route.nextHop = NoAddress THEN destination ELSE route.nextHop
    IN  IF Len(payload) < 8 THEN Failed("PayloadTooShort")
        ELSE IF Len(payload) + 20 > Mtu THEN Failed("PayloadTooLarge")
        ELSE IF route = NoRoute THEN Failed("NoRouteToHost")
        ELSE IF nextHop \notin host.neighbours THEN Failed("ArpTimeout")
        ELSE SendEthernet(host.mac, host.neighbourMac, "IPv4", WriteIpv4(header) \o payload)

(* UdpSocketHandle::send_ipv4 chooses the source itself, for the checksum.   *)
SourceFor(host, source, destination) ==
    IF source = Unspecified THEN Lookup(host.routes, destination).source ELSE source

Datagram(source, destination, data) ==
    LET header == UdpHeader(Port, Port, Len(data))
    IN  WriteUdp([header EXCEPT !.checksum = UdpChecksum(header, source, destination, data)])
            \o data

SendUdp(host, source, destination, data) ==
    LET from == SourceFor(host, source, destination)
    IN  IF from = NoAddress THEN Failed("NoRouteToHost")
        ELSE SendIpv4(host, from, destination, "UDP", Datagram(from, destination, data))

-----------------------------------------------------------------------------
(* Hearing *)

Ignored == [kind |-> "ignored"]

(* Mutant of IsAddrAcceptable: broadcasts are for the layers above.          *)
IsAddrOurs(ours, a) == ContainsAddress(ours, a)

(* IPv4Handler::is_addr_acceptable; there are no multicast groups yet.       *)
IsAddrAcceptable(ours, a) ==
    \/ a = LimitedBroadcast
    \/ ~IsMulticast(a) /\ ContainsAsAddressOrBroadcast(ours, a)

HearArp(mac, ours, bytes) ==
    LET arp == ReadArp(bytes)
        asked == ContainsAddress(ours, arp.target) /\ arp.operation = "Request"
    IN  IF arp = Rejected THEN Ignored
        ELSE [kind |-> IF asked THEN "asked" ELSE "told",
              address |-> arp.sender, mac |-> arp.senderMac,
              reply |-> IF asked THEN ArpReply(arp, mac, arp.target) ELSE Rejected]

(* UdpManager::recv, for sockets that are not connected and lengths that are *)
(* those of the datagram (the code panics on one that is below the header's  *)
(* or beyond the payload; Slice would end where the bytes do).               *)
HearUdp(sockets, ip, bytes) ==
    LET udp == ReadUdp(bytes)
        data == Slice(bytes, 8, udp.length)
        own == IF udp.destinationPort = Port THEN sockets ELSE <<>>
        exact == GetMut(own, ip.destination)
        listener == IF exact # NoSocket THEN exact ELSE GetMut(own, Unspecified4)
    IN  IF \/ udp = Rejected
           \/ UdpChecksum(udp, ip.source, ip.destination, data) # udp.checksum
           \/ listener = NoSocket
        THEN Ignored
        ELSE [kind |-> "datagram", socket |-> listener,
              source |-> <<ip.source, udp.sourcePort>>, data |-> data]

(* Managers::forward_async_error, with what PingManager::on_async_send_error *)
(* reads from the packet that was refused.                                   *)
ForwardAsyncError(m) ==
    IF m.header.protocol = "ICMP" /\ Byte(m.datagram, 0) = 8 /\ Byte(m.datagram, 1) = 0
    THEN [kind |-> "unreachable", code |-> m.code, target |-> m.header.destination,
          identifier |-> At16(m.datagram, 4), sequence |-> At16(m.datagram, 6)]
    ELSE [kind |-> "logged", code |-> m.code, target |-> m.header.destination]

(* IPv4Handler::recv_icmp; what a ping manager is given of a reply.          *)
HearIcmp(ip, bytes) ==
    LET icmp == ReadIcmp(bytes)
    IN  CASE icmp.kind = "rejected" -> Ignored
          [] icmp.kind = "EchoRequest" ->
                 [kind |-> "request", source |-> ip.source, destination |-> ip.destination,
                  message |-> icmp]
          [] icmp.kind = "EchoReply" ->
                 [kind |-> "reply", target |-> ip.source, identifier |-> icmp.identifier,
                  sequence |-> icmp.sequence, time |-> ReadUnixData(icmp.data)]
          [] icmp.kind = "DestinationUnreachable" -> ForwardAsyncError(icmp)
          [] icmp.kind \in {"SourceQuench", "Redirect", "TimeExceeded", "ParameterProblem"} ->
                 [kind |-> "control", message |-> icmp]

(* Mutant of PayloadOf: the payload is all that came after the header.       *)
PayloadWithPadding(ip, bytes) == From(bytes, Ipv4Length(ip))

(* The payload ends where total_length says.  A total_length below the      *)
(* header's or beyond the frame, which no frame of the model has, panics.    *)
PayloadOf(ip, bytes) == Slice(bytes, Ipv4Length(ip), ip.totalLength)

(* IPv4Handler::recv                                                         *)
HearIpv4(ours, sockets, bytes) ==
    LET ip == ReadIpv4(bytes)
    IN  IF \/ ip = Rejected
           \/ IsFragmented(ip)
           \/ ~IsAddrAcceptable(ours, ip.destination)
        THEN Ignored
        ELSE CASE ip.protocol = "ICMP" -> HearIcmp(ip, PayloadOf(ip, bytes))
               [] ip.protocol = "UDP" -> HearUdp(sockets, ip, PayloadOf(ip, bytes))
               [] ip.protocol \in {"TCP", "Other"} -> Ignored

(* EthernetHandler::recv                                                     *)
Hear(mac, ours, sockets, bytes) ==
    LET ethernet == ReadEthernet(bytes)
        payload == From(bytes, EthernetLength(ethernet))
    IN  IF ethernet = Rejected THEN Ignored
        ELSE CASE ethernet.etherType = "ARP" -> HearArp(mac, ours, payload)
               [] ethernet.etherType = "IPv4" -> HearIpv4(ours, sockets, payload)
               [] ethernet.etherType \in {"IPv6", "VLAN", "Other"} -> Ignored

-----------------------------------------------------------------------------
(* Changes of the tables *)

CanChange == Quiet /\ changes + made < MaxSteps

KeyOf(e) == <<Network(e.address, e.prefix), e.prefix>>

(* What a new entry makes contested: its network if another entry has it,    *)
(* and every network of an address that is entered twice.                    *)
ContestedBy(new) ==
    LET rivals == {e \in ToSet(addresses) : KeyOf(e) = KeyOf(new) \/ e.address = new.address}
    IN  IF rivals = {} THEN {} ELSE {KeyOf(e) : e \in rivals \cup {new}}

(* The probe of an address timed out: it is ours, its network is routed, and *)
(* the neighbours are told.                                                  *)
GrantAddress(a, prefix) ==
    LET arp == Gratuitous(OurMac, a)
    IN  /\ CanChange
        /\ addresses' = WithAddress(addresses, a, prefix)
        /\ routes' = InsertOrUpdate(routes, ConnectedRoute(a, prefix))
        /\ changes' = changes + 1
        /\ contested' = contested \cup ContestedBy([address |-> a, prefix |-> prefix])
        /\ wire' = Frame("peer", SendEthernet(OurMac, arp.targetMac, "ARP", WriteArp(arp)).bytes, a,
                         [kind |-> "told", address |-> a, mac |-> OurMac])
        /\ last' = Nothing
        /\ UNCHANGED <<bindings, made>>

(* handle_ipv4_address_remove, of an address that is in the table            *)
RemoveAddress(a) ==
    /\ CanChange
    /\ ContainsAddress(addresses, a)
    /\ routes' \in WithoutSource(routes, a)
    /\ addresses' = WithoutAddress(addresses, a)
    /\ changes' = changes + 1
    /\ last' = Nothing
    /\ UNCHANGED <<contested, wire, bindings, made>>

(* Interface::ipv4_route_add masks the target; handle_ipv4_route_add.        *)
AddRoute(request) ==
    LET verdict == RouteAddVerdict(addresses, request.nextHop, request.source)
        source == RouteSource(addresses, request.nextHop, request.source)
        target == Network(request.target, request.prefix)
    IN  /\ CanChange
        /\ routes' = IF verdict = "ok"
                     THEN InsertOrUpdate(routes,
                                         Route(target, request.prefix, source, request.nextHop))
                     ELSE routes
        /\ contested' = contested \cup (IF verdict = "ok" THEN {<<target, request.prefix>>} ELSE {})
        /\ changes' = changes + 1
        /\ last' = [kind |-> "route", verdict |-> verdict]
        /\ UNCHANGED <<addresses, wire, bindings, made>>

(* PortSharing's steps                                                       *)
ChangeBindings ==
    /\ CanChange
    /\ Next
    /\ last' = Nothing
    /\ UNCHANGED <<tables, wire>>

-----------------------------------------------------------------------------
(* Frames *)

(* The end of a step that tried to send: the frame, if there is one, and the *)
(* result.                                                                   *)
PutOnWire(attempt, to, destination, meant, size) ==
    /\ wire' = IF attempt.result = "sent"
               THEN Frame(to, attempt.bytes, destination, meant) ELSE NoFrame
    /\ last' = Sent(attempt.result, size)
    /\ UNCHANGED <<tables, bindings, made>>

(* A socket of ours sends; larger payloads stop at its max_payload_size.     *)
SendDatagram(b, destination, data) ==
    /\ Quiet /\ wire = NoFrame
    /\ IsV4Address(b.original)
    /\ Len(data) <= Mtu - 28
    /\ PutOnWire(SendUdp(Us, b.original, destination, data), "peer", destination,
                 [kind |-> "datagram", socket |-> 1, data |-> data,
                  source |-> <<SourceFor(Us, b.original, destination), Port>>],
                 Len(data) + 8)

(* PingManager::process_timers_session sends an echo request.                *)
Ping(target, time) ==
    LET message == Echo("EchoRequest", Identifier, Sequence, WriteUnixData(time))
    IN  /\ Quiet /\ wire = NoFrame
        /\ PutOnWire(SendIpv4(Us, Unspecified, target, "ICMP", WriteEcho(message)), "peer", target,
                     [kind |-> "request", source |-> SourceFor(Us, Unspecified, target),
                      destination |-> target, message |-> message],
                     Len(WriteEcho(message)))

(* What other stacks send: a frame built to the standards, perhaps tagged    *)
(* for a VLAN, perhaps padded to the size Ethernet asks for.                 *)
PeerFrame(destination, protocol, payload, tag, padding) ==
    WriteEthernet([EthernetHeader("IPv4", PeerMac, OurMac) EXCEPT !.vlan = tag])
        \o WriteIpv4(Ipv4Header(protocol, PeerAddress, destination, Len(payload), Identification))
        \o payload \o padding

PeerSends(bytes, destination, meant) ==
    /\ Quiet /\ wire = NoFrame
    /\ wire' = Frame("us", bytes, destination, meant)
    /\ last' = Nothing
    /\ UNCHANGED <<tables, bindings, made>>

PeerSendsDatagram(destination, data, tag, padding) ==
    PeerSends(PeerFrame(destination, "UDP", Datagram(PeerAddress, destination, data), tag, padding),
              destination,
              [kind |-> "datagram", socket |-> 0, data |-> data,
               source |-> <<PeerAddress, Port>>])

PeerPings(destination, data, padding) ==
    LET message == Echo("EchoRequest", Identifier, Sequence, data)
    IN  PeerSends(PeerFrame(destination, "ICMP", WriteEcho(message), <<>>, padding), destination,
                  [kind |-> "request", source |-> PeerAddress, destination |-> destination,
                   message |-> message])

PeerAsks(a) ==
    PeerSends(WriteEthernet(EthernetHeader("ARP", PeerMac, Broadcast6))
                  \o WriteArp(ArpRequest(PeerMac, a, PeerAddress)),
              a, [kind |-> "asked", address |-> PeerAddress, mac |-> PeerMac])

(* What a refusal of the packet on the wire says to its sender.              *)
Refusal(code) ==
    IF wire.meant.kind = "request"
    THEN [kind |-> "unreachable", code |-> code, target |-> wire.destination,
          identifier |-> Identifier, sequence |-> Sequence]
    ELSE [kind |-> "logged", code |-> code, target |-> wire.destination]

(* A router refuses the packet on the wire, and quotes what it must of it.   *)
Quoted == Slice(wire.bytes, 14, 14 + 20 + 8)
PeerRefuses(code) ==
    LET message == WriteIcmp(<<IcmpTypes.DestinationUnreachable, code>>,
                             <<0, 0, 0, 0>> \o Quoted)
    IN  /\ Alive /\ wire.to = "peer" /\ wire.meant.kind \in {"datagram", "request"}
        /\ \E ours \in ToSet(addresses) :
              wire' = Frame("us", PeerFrame(ours.address, "ICMP", message, <<>>, <<>>),
                            ours.address, Refusal(code))
        /\ last' = Nothing
        /\ UNCHANGED <<tables, bindings, made>>

(* The other control messages, from wherever on the way.                     *)
PeerComplains(message, destination) ==
    LET code == IF message.kind \in DOMAIN LastCode THEN message.code ELSE 0
        body == (CASE message.kind = "Redirect" -> Octets(message.gateway)
                   [] message.kind = "ParameterProblem" -> <<0, message.pointer, 0, 0>>
                   [] message.kind \in {"SourceQuench", "TimeExceeded"} -> <<0, 0, 0, 0>>)
                    \o message.data
    IN  PeerSends(PeerFrame(destination, "ICMP",
                            WriteIcmp(<<IcmpTypes[message.kind], code>>, body), <<>>, <<>>),
                  destination, [kind |-> "control", message |-> message])

(* The answer a host gives to what it heard, if any, and what it means.      *)
AnswerTo(host, heard) ==
    CASE heard.kind = "request" ->
             SendIpv4(host, heard.destination, heard.source, "ICMP",
                      WriteEcho([heard.message EXCEPT !.kind = "EchoReply"]))
      [] heard.kind = "asked" ->
             SendEthernet(host.mac, heard.reply.targetMac, "ARP", WriteArp(heard.reply))
      [] heard.kind \notin {"request", "asked"} -> Failed("none")

(* The time a pinger put into this data, if it was one of ours; if not, the  *)
(* reply still gets whatever such data reads as.                             *)
TimeIn(data) ==
    IF \E t \in Times : WriteUnixData(t) = data
    THEN CHOOSE t \in Times : WriteUnixData(t) = data
    ELSE ReadUnixData(data)

AnswerMeans(host, heard, meant) ==
    CASE heard.kind = "request" ->
             [kind |-> "reply", target |-> meant.destination,
              identifier |-> meant.message.identifier, sequence |-> meant.message.sequence,
              time |-> TimeIn(meant.message.data)]
      [] heard.kind = "asked" ->
             [kind |-> "told", address |-> heard.reply.sender, mac |-> host.mac]
      [] heard.kind \notin {"request", "asked"} -> Nothing

(* A frame arrives and is answered at once, or is not.                       *)
Receive(by, host, other, ours, sockets) ==
    LET heard == Hear(host.mac, ours, sockets, wire.bytes)
        answer == AnswerTo(host, heard)
        size == IF heard.kind = "request" THEN 8 + Len(heard.message.data) ELSE 0
    IN  /\ Alive /\ wire.to = by
        /\ last' = Heard(by, wire, heard, answer.result, size)
        /\ wire' = IF answer.result = "sent"
                   THEN Frame(other, answer.bytes,
                              IF heard.kind = "request" THEN heard.source ELSE heard.address,
                              AnswerMeans(host, heard, wire.meant))
                   ELSE NoFrame
        /\ UNCHANGED <<tables, bindings, made>>

WeReceive == Receive("us", Us, "peer", addresses, bindings)
PeerReceives == Receive("peer", Peer, "us", PeerAddresses, PeerBindings)

LoseFrame ==
    /\ wire # NoFrame
    /\ wire' = NoFrame /\ last' = Nothing
    /\ UNCHANGED <<tables, bindings, made>>

ReadReport ==
    /\ ~Quiet /\ Alive
    /\ last' = Nothing
    /\ UNCHANGED <<tables, wire, bindings, made>>

PathNext ==
    \/ \E g \in Grants : GrantAddress(g.address, g.prefix)
    \/ \E g \in Grants : RemoveAddress(g.address)
    \/ \E request \in RouteRequests : AddRoute(request)
    \/ ChangeBindings
    \/ \E b \in ToSet(bindings), d \in Destinations, data \in Payloads : SendDatagram(b, d, data)
    \/ \E d \in Destinations, time \in Times : Ping(d, time)
    \/ \E d \in V4, data \in PeerPayloads, tag \in Tags :
          PeerSendsDatagram(d, data, tag, <<0, 0, 0>>)
    \/ \E d \in PeerDestinations, data \in PeerPayloads : PeerPings(d, data, <<0>>)
    \/ \E d \in PeerDestinations : PeerAsks(d)
    \/ \E code \in Codes : PeerRefuses(code)
    \/ \E d \in PeerDestinations, message \in Complaints : PeerComplains(message, d)
    \/ WeReceive
    \/ PeerReceives
    \/ LoseFrame
    \/ ReadReport

PathSpec == PathInit /\ [][PathNext]_path

-----------------------------------------------------------------------------
(* Properties *)

(* After any sequence of changes the route that lookup finds first is the    *)
(* one with the longest prefix of all that lead to the destination, and it   *)
(* is sent from an address that is still ours.                               *)
LookupIsSound ==
    /\ \A r \in ToSet(routes) : ContainsAddress(addresses, r.source)
    /\ \A d \in Addresses :
          LET leading == {r \in ToSet(routes) : Network(d, r.prefix) = r.target}
              found == Lookup(routes, d)
          IN  IF leading = {} THEN found = NoRoute
              ELSE found \in leading /\ \A r \in leading \ {found} : r.prefix < found.prefix

(* The network of an address is routed directly and from that address, as    *)
(* long as no other address and no added route ever claimed the network.     *)
(* (Where one did, removing either can leave the other without a route.)     *)
UncontestedNetworksAreRouted ==
    \A e \in ToSet(addresses) :
        KeyOf(e) \notin contested
            => ConnectedRoute(e.address, e.prefix) \in ToSet(routes)

(* Both: whatever was added and removed, packets leave by the best of the    *)
(* routes, and the networks of our addresses have one.                       *)
RoutesAreSound == LookupIsSound /\ UncontestedNetworksAreRouted

(* Whose packets a host has to take: those to its addresses, to the highest  *)
(* address of each of its networks, and to everyone.                         *)
IsFor(ours, d) ==
    \/ d = LimitedBroadcast
    \/ \E e \in ToSet(ours) :
          LET network == {a \in Addresses : Network(a, e.prefix) = Network(e.address, e.prefix)}
          IN  d = e.address \/ (d \in network /\ \A a \in network : a <= d)

OursOf(by) == IF by = "us" THEN addresses ELSE PeerAddresses

(* What a frame was meant to say is what its receiver reads from it, however *)
(* it was tagged or padded: an answered ping gets its own identifier, number *)
(* and time back from the address it went to, a refused one is told apart by *)
(* the packet quoted, ARP names the right hardware; and a packet for another *)
(* host is ignored.                                                          *)
HeardAsMeant ==
    last.kind = "heard" =>
        LET heard == last.heard
            meant == last.meant
            isFor == IsFor(OursOf(last.by), last.destination)
        IN  CASE meant.kind \in {"asked", "told"} ->
                     /\ heard.address = meant.address /\ heard.mac = meant.mac
                     /\ heard.kind = "asked"
                            <=> /\ meant.kind = "asked"
                                /\ ContainsAddress(OursOf(last.by), last.destination)
              [] meant.kind = "datagram" ->
                     heard # Ignored => heard.data = meant.data /\ heard.source = meant.source
              [] meant.kind \notin {"asked", "told", "datagram"} ->
                     heard = IF isFor THEN meant ELSE Ignored

(* A datagram reaches a socket exactly when it is for this host and some     *)
(* binding of its port matches the destination, and then one of those.       *)
DatagramsFindTheirListener ==
    last.kind = "heard" /\ last.meant.kind = "datagram" =>
        LET sockets == IF last.by = "us" THEN bindings ELSE PeerBindings
            listeners == {b.socket : b \in {c \in ToSet(sockets) : Matches(c, last.destination)}}
        IN  IF IsFor(OursOf(last.by), last.destination) /\ listeners # {}
            THEN last.heard # Ignored /\ last.heard.socket \in listeners
            ELSE last.heard = Ignored

FramesAreShort == wire.to = "peer" => Len(wire.bytes) <= Mtu

OnlyTheLongestPanic == ~Alive => last.size + 20 \in Mtu - 13 .. Mtu

(* No frame of ours is longer than the MTU, and the worker does not die of a *)
(* datagram, a ping or the answer to one unless that is one of the longest   *)
(* that IPv4Handler::send accepts, within an Ethernet header of the limit.   *)
FramesFit == FramesAreShort /\ OnlyTheLongestPanic
=============================================================================
