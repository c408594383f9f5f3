---------------------------- MODULE PortBindings ----------------------------
(***************************************************************************)
(* The sockets bound to one UDP port, and which of them an address finds   *)
(* (src/lib/src/runtime/interface/l4_managers/udp/port_binding.rs).        *)
(*                                                                         *)
(* The bindings of a port are a sequence, oldest first.  A binding has the *)
(* address it was asked for (`original`), a target that says which         *)
(* addresses it matches, and a handle; of the handle only the socket it    *)
(* belongs to and its allow_reuse matter here.  The port of an address is  *)
(* the index of the sequence and is left out.                              *)
(***************************************************************************)
EXTENDS Naturals, Sequences, SequencesExt

CONSTANTS
    V4, V6,                     \* the specific addresses of each IP version
    Unspecified4, Unspecified6  \* 0.0.0.0 and ::

ASSUME AddressAssumption ==
    /\ V4 \cap V6 = {}
    /\ Unspecified4 # Unspecified6
    /\ {Unspecified4, Unspecified6} \cap (V4 \cup V6) = {}

Ip == V4 \cup V6 \cup {Unspecified4, Unspecified6}
IsV4Address(ip) == ip \in V4 \cup {Unspecified4}
IsUnspecified(ip) == ip \in {Unspecified4, Unspecified6}

(* AddressBindingTarget, as AddressBindings::insert chooses it; a specific   *)
(* target is for the original address.                                       *)
TargetFor(ip, dualStack) ==
    CASE ~IsUnspecified(ip) -> "specific"
      [] IsUnspecified(ip) /\ dualStack -> "any"
      [] IsUnspecified(ip) /\ ~dualStack -> IF IsV4Address(ip) THEN "any_ipv4" ELSE "any_ipv6"

Binding(ip, dualStack, reuse, socket) ==
    [target |-> TargetFor(ip, dualStack), original |-> ip, reuse |-> reuse, socket |-> socket]

(* AddressBinding::matches *)
Matches(binding, ip) ==
    \/ binding.target = "any"
    \/ binding.target = "any_ipv4" /\ IsV4Address(ip)
    \/ binding.target = "any_ipv6" /\ ~IsV4Address(ip)
    \/ binding.target = "specific" /\ binding.original = ip

(* AddressBinding::is_ipv4, is_ipv6 *)
IsIpv4(binding) ==
    \/ binding.target \in {"any", "any_ipv4"}
    \/ binding.target = "specific" /\ IsV4Address(binding.original)
IsIpv6(binding) ==
    \/ binding.target \in {"any", "any_ipv6"}
    \/ binding.target = "specific" /\ ~IsV4Address(binding.original)

(* The bindings that a request has to get along with.                        *)
Rivals(bindings, ip, dualStack) ==
    {b \in ToSet(bindings) :
        \/ IsUnspecified(ip) /\ dualStack
        \/ IsUnspecified(ip) /\ ~dualStack /\ (IF IsV4Address(ip) THEN IsIpv4(b) ELSE IsIpv6(b))
        \/ ~IsUnspecified(ip) /\ Matches(b, ip)}

(* Mutant of IsBindableExclusive: any address is tried like a specific one.  *)
IsBindableBesideSpecific(bindings, ip, dualStack) ==
    ~\E b \in ToSet(bindings) : Matches(b, ip)

IsBindableExclusive(bindings, ip, dualStack) == Rivals(bindings, ip, dualStack) = {}

(* Mutant of IsBindableAllowReuse: one rival that allows it is enough.       *)
IsBindableIfAnyReuses(bindings, ip, dualStack) ==
    \/ Rivals(bindings, ip, dualStack) = {}
    \/ \E b \in Rivals(bindings, ip, dualStack) : b.reuse

IsBindableAllowReuse(bindings, ip, dualStack) ==
    \A b \in Rivals(bindings, ip, dualStack) : b.reuse

IsBindable(bindings, ip, allowReuse, dualStack) ==
    IF allowReuse
    THEN IsBindableAllowReuse(bindings, ip, dualStack)
    ELSE IsBindableExclusive(bindings, ip, dualStack)

(* Mutant of Insert: the newest binding is found first.                      *)
InsertFirst(bindings, ip, dualStack, reuse, socket) ==
    <<Binding(ip, dualStack, reuse, socket)>> \o bindings

(* AddressBindings::insert                                                   *)
Insert(bindings, ip, dualStack, reuse, socket) ==
    Append(bindings, Binding(ip, dualStack, reuse, socket))

(* AddressBindings::get_mut: the socket of the oldest binding that matches.  *)
NoSocket == 0
GetMut(bindings, ip) ==
    LET Hits(b) == Matches(b, ip)
        found == SelectInSeq(bindings, Hits)
    IN  IF found = 0 THEN NoSocket ELSE bindings[found].socket

(* Mutant of RemoveBinding: the oldest binding goes, whatever its address.   *)
RemoveOldestBinding(bindings, ip) == IF bindings = <<>> THEN bindings ELSE Tail(bindings)

(* AddressBindings::remove: the oldest binding that was asked for as ip.     *)
RemoveBinding(bindings, ip) ==
    LET Original(b) == b.original = ip
    IN  RemoveFirstMatch(bindings, Original)
=============================================================================
