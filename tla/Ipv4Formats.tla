---------------------------- MODULE Ipv4Formats ----------------------------
(***************************************************************************)
(* What the protocol modules write on the wire and read back               *)
(* (src/lib/src/protocols).  Bytes are numbers 0 .. 255 in sequences, and  *)
(* offsets count from 0 as they do in the source.  A reader returns the    *)
(* header or message, or Rejected.                                         *)
(*                                                                         *)
(* Addresses are numbers; a wire address has four octets.  Types that the  *)
(* code names are strings, and the ones it only carries ("Other") lose     *)
(* their value: nothing it sends has one.                                  *)
(***************************************************************************)
EXTENDS Integers, Sequences

Rejected == [kind |-> "rejected"]

-----------------------------------------------------------------------------
(* Numbers and slices *)

Slice(bytes, from, to) == SubSeq(bytes, from + 1, to)
From(bytes, from) == SubSeq(bytes, from + 1, Len(bytes))
Byte(bytes, at) == bytes[at + 1]

Be16(n) == <<n \div 256, n % 256>>
At16(bytes, at) == Byte(bytes, at) * 256 + Byte(bytes, at + 1)
Words == 0 .. 65535     \* the numbers of two bytes
Bit(n, weight) == (n \div weight) % 2

Octets(address) == Be16(address \div 65536) \o Be16(address % 65536)
AddressAt(bytes, at) == At16(bytes, at) * 65536 + At16(bytes, at + 2)

(* Little-endian numbers of the echo data; values stay below 2^24.           *)
Stamps == {n \in Nat : n \div 65536 <= 255}
Le(n, width) ==
    LET low == <<n % 256, (n \div 256) % 256, (n \div 65536) % 256>>
    IN  [i \in 1 .. width |-> IF i <= 3 THEN low[i] ELSE 0]
LeAt(bytes, at) == Byte(bytes, at) + 256 * (Byte(bytes, at + 1) + 256 * Byte(bytes, at + 2))

(* The sum of the 16-bit words, an odd byte padded with zero.                *)
SumOfWords(bytes) ==
    LET padded == IF Len(bytes) % 2 = 1 THEN Append(bytes, 0) ELSE bytes
        Sum[n \in 0 .. Len(padded) \div 2] ==
            IF n = 0 THEN 0 ELSE Sum[n - 1] + At16(padded, 2 * n - 2)
    IN  Sum[Len(padded) \div 2]

(* internet_checksum: the complement of the sum, in ones' complement.        *)
Checksum(bytes) ==
    LET total == SumOfWords(bytes)
    IN  Be16(IF total = 0 THEN 65535 ELSE 65534 - ((total - 1) % 65535))

(* The name a table of codes gives to a number.                              *)
NameIn(codes, n) ==
    IF \E name \in DOMAIN codes : codes[name] = n
    THEN CHOOSE name \in DOMAIN codes : codes[name] = n
    ELSE "Other"

-----------------------------------------------------------------------------
(* Ethernet *)

EtherTypes == [IPv4 |-> 2048, ARP |-> 2054, VLAN |-> 33024, IPv6 |-> 34525]

EthernetHeader(etherType, source, destination) ==
    [destination |-> destination, source |-> source, etherType |-> etherType, vlan |-> <<>>]

EthernetLength(h) == IF h.vlan = <<>> THEN 14 ELSE 18

WriteEthernet(h) ==
    h.destination \o h.source
        \o (IF h.vlan = <<>> THEN <<>> ELSE Be16(EtherTypes.VLAN) \o Be16(h.vlan[1]))
        \o Be16(EtherTypes[h.etherType])

ReadEthernet(bytes) ==
    IF Len(bytes) < 14 THEN Rejected
    ELSE LET tagged == NameIn(EtherTypes, At16(bytes, 12)) = "VLAN"
         IN  [destination |-> Slice(bytes, 0, 6), source |-> Slice(bytes, 6, 12),
              vlan |-> IF tagged THEN <<At16(bytes, 14)>> ELSE <<>>,
              etherType |-> NameIn(EtherTypes, At16(bytes, IF tagged THEN 16 ELSE 12))]

-----------------------------------------------------------------------------
(* ARP *)

Operations == [Request |-> 1, Reply |-> 2]
Broadcast6 == <<255, 255, 255, 255, 255, 255>>

ArpRequest(mac, target, sender) ==
    [operation |-> "Request", senderMac |-> mac, sender |-> sender,
     targetMac |-> Broadcast6, target |-> target]

Gratuitous(mac, address) == ArpRequest(mac, address, address)

ArpReply(request, mac, address) ==
    [operation |-> "Reply", senderMac |-> mac, sender |-> address,
     targetMac |-> request.senderMac, target |-> request.sender]

WriteArp(m) ==
    Be16(1) \o Be16(2048) \o <<6, 4>> \o Be16(Operations[m.operation])
        \o m.senderMac \o Octets(m.sender) \o m.targetMac \o Octets(m.target)

ReadArp(bytes) ==
    IF \/ Len(bytes) < 28
       \/ Slice(bytes, 0, 6) # Be16(1) \o Be16(2048) \o <<6, 4>>
       \/ NameIn(Operations, At16(bytes, 6)) = "Other"
    THEN Rejected
    ELSE [operation |-> NameIn(Operations, At16(bytes, 6)),
          senderMac |-> Slice(bytes, 8, 14), sender |-> AddressAt(bytes, 14),
          targetMac |-> Slice(bytes, 18, 24), target |-> AddressAt(bytes, 24)]

-----------------------------------------------------------------------------
(* IPv4 *)

Protocols == [ICMP |-> 1, TCP |-> 6, UDP |-> 17]

(* TypeOfService::parse.  Written back, the three precedence bits are taken  *)
(* from the low end of a value already shifted to the high end.              *)
ReadService(byte) ==
    [precedence |-> byte \div 32, lowDelay |-> Bit(byte, 16),
     highThroughput |-> Bit(byte, 8), highReliability |-> Bit(byte, 4)]
WriteService(s) ==
    ((s.precedence * 32) % 8) * 32 + s.lowDelay * 16 + s.highThroughput * 8
        + s.highReliability * 4

ReadFragment(bytes) ==
    [identification |-> At16(bytes, 0), doNotFragment |-> Bit(Byte(bytes, 2), 64),
     moreFragments |-> Bit(Byte(bytes, 2), 32), offset |-> At16(bytes, 2) % 8192]
WriteFragment(f) ==
    Be16(f.identification)
        \o Be16(f.doNotFragment * 16384 + f.moreFragments * 8192 + (f.offset % 8192))

(* IPv4Header::new, the identification drawn at random.                      *)
Ipv4Header(protocol, source, destination, payloadLength, identification) ==
    [words |-> 5, service |-> ReadService(0), totalLength |-> 20 + payloadLength,
     fragment |-> [identification |-> identification, doNotFragment |-> 1,
                   moreFragments |-> 0, offset |-> 0],
     timeToLive |-> 64, protocol |-> protocol, source |-> source, destination |-> destination]

Ipv4Length(h) == 4 * h.words

IsFragmented(h) == h.fragment.moreFragments = 1 \/ h.fragment.offset > 0

WriteIpv4(h) ==
    LET before == <<64 + h.words, WriteService(h.service)>> \o Be16(h.totalLength)
                      \o WriteFragment(h.fragment) \o <<h.timeToLive, Protocols[h.protocol]>>
        after == Octets(h.source) \o Octets(h.destination)
    IN  before \o Checksum(before \o <<0, 0>> \o after) \o after

(* For headers that are there: of fewer than 20 bytes, or said to be of      *)
(* fewer than 5 words, the code indexes beyond their end and panics.         *)
ReadIpv4(bytes) ==
    LET words == Byte(bytes, 0) % 16
        zeroed == Slice(bytes, 0, 10) \o <<0, 0>> \o Slice(bytes, 12, 4 * words)
    IN  IF \/ Byte(bytes, 0) \div 16 # 4
           \/ Len(bytes) < 4 * words
           \/ Slice(bytes, 10, 12) # Checksum(zeroed)
        THEN Rejected
        ELSE [words |-> words, service |-> ReadService(Byte(bytes, 1)),
              totalLength |-> At16(bytes, 2), fragment |-> ReadFragment(Slice(bytes, 4, 8)),
              timeToLive |-> Byte(bytes, 8), protocol |-> NameIn(Protocols, Byte(bytes, 9)),
              source |-> AddressAt(bytes, 12), destination |-> AddressAt(bytes, 16)]

-----------------------------------------------------------------------------
(* UDP *)

UdpHeader(sourcePort, destinationPort, payloadLength) ==
    [sourcePort |-> sourcePort, destinationPort |-> destinationPort,
     length |-> 8 + payloadLength, checksum |-> <<0, 0>>]

(* UdpHeader::compute_checksum_v4: a sum of zero is sent as all ones.        *)
UdpChecksum(h, source, destination, data) ==
    LET sum == Checksum(Octets(source) \o Octets(destination) \o <<0, Protocols.UDP>>
                   \o Be16(h.length) \o Be16(h.sourcePort) \o Be16(h.destinationPort)
                   \o Be16(h.length) \o <<0, 0>> \o Slice(data, 0, h.length - 8))
    IN  IF sum = <<0, 0>> THEN <<255, 255>> ELSE sum

WriteUdp(h) ==
    Be16(h.sourcePort) \o Be16(h.destinationPort) \o Be16(h.length) \o h.checksum

ReadUdp(bytes) ==
    IF Len(bytes) < 8 THEN Rejected
    ELSE [sourcePort |-> At16(bytes, 0), destinationPort |-> At16(bytes, 2),
          length |-> At16(bytes, 4), checksum |-> Slice(bytes, 6, 8)]

-----------------------------------------------------------------------------
(* ICMP *)

IcmpTypes == [EchoReply |-> 0, DestinationUnreachable |-> 3, SourceQuench |-> 4,
              Redirect |-> 5, EchoRequest |-> 8, TimeExceeded |-> 11, ParameterProblem |-> 12]

(* The codes that are read as one of the code's enumerations; the other      *)
(* types ignore theirs.                                                      *)
LastCode == [DestinationUnreachable |-> 5, Redirect |-> 3, TimeExceeded |-> 1]

(* EchoMessageDataUnix: 56 bytes, each unused one holding its own index.     *)
Empty56 == [i \in 1 .. 56 |-> i - 1]
WriteUnixData(d) ==
    LET stamps == Le(d.seconds, 8) \o Le(d.micros, 8)
                      \o (IF d.monotonic = <<>> THEN <<>> ELSE Le(d.monotonic[1], 16))
    IN  stamps \o From(Empty56, Len(stamps))
ReadUnixData(bytes) ==
    IF Len(bytes) < 56 THEN Rejected
    ELSE [seconds |-> LeAt(bytes, 0), micros |-> LeAt(bytes, 8),
          monotonic |-> IF \/ Slice(bytes, 16, 32) = Slice(Empty56, 16, 32)
                           \/ LeAt(bytes, 16) = 0
                        THEN <<>> ELSE <<LeAt(bytes, 16)>>]

Echo(kind, identifier, sequence, data) ==
    [kind |-> kind, identifier |-> identifier, sequence |-> sequence, data |-> data]

(* ICMPMessage::write_to_buffer after compute_checksum_and_update: type and  *)
(* code, then what follows the checksum.  Echo requests and replies are the  *)
(* messages that the program sends.                                          *)
WriteIcmp(front, body) == front \o Checksum(front \o <<0, 0>> \o body) \o body

WriteEcho(m) ==
    WriteIcmp(<<IcmpTypes[m.kind], 0>>, Be16(m.identifier) \o Be16(m.sequence) \o m.data)

(* DestinationUnreachableMessage::try_from: the header of the packet that    *)
(* was refused and the first eight bytes after it.                           *)
ReadUnreachable(code, bytes) ==
    LET header == ReadIpv4(bytes)
    IN  IF \/ header = Rejected
           \/ Len(bytes) < Ipv4Length(header) + 8
           \/ code > LastCode.DestinationUnreachable
        THEN Rejected
        ELSE [kind |-> "DestinationUnreachable", code |-> code, header |-> header,
              datagram |-> Slice(bytes, Ipv4Length(header), Ipv4Length(header) + 8)]

ReadIcmp(bytes) ==
    LET kind == NameIn(IcmpTypes, Byte(bytes, 0))
        code == Byte(bytes, 1)
        data == From(bytes, 8)
    IN  IF \/ Len(bytes) < 8
           \/ Slice(bytes, 2, 4) # Checksum(Slice(bytes, 0, 2) \o <<0, 0>> \o From(bytes, 4))
           \/ kind = "Other"
           \/ kind \in DOMAIN LastCode /\ code > LastCode[kind]
        THEN Rejected
        ELSE CASE kind \in {"EchoRequest", "EchoReply"} ->
                      Echo(kind, At16(bytes, 4), At16(bytes, 6), data)
               [] kind = "DestinationUnreachable" -> ReadUnreachable(code, data)
               [] kind = "SourceQuench" -> [kind |-> kind, data |-> data]
               [] kind = "Redirect" ->
                      [kind |-> kind, code |-> code, gateway |-> AddressAt(bytes, 4), data |-> data]
               [] kind = "TimeExceeded" -> [kind |-> kind, code |-> code, data |-> data]
               [] kind = "ParameterProblem" ->
                      [kind |-> kind, pointer |-> Byte(bytes, 5), data |-> data]
=============================================================================
