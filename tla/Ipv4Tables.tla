---------------------------- MODULE Ipv4Tables ----------------------------
(***************************************************************************)
(* The address table and the route table of an interface                   *)
(* (src/lib/src/runtime/address_table.rs, route_table.rs) and the changes  *)
(* its worker makes to them (interface/worker.rs).                         *)
(*                                                                         *)
(* An address is a number of AddressBits bits (32 in the code) and a mask  *)
(* the length of its prefix: prefix_to_mask makes every mask.  Both tables *)
(* are sequences, as the code's vectors are.  The copies the worker shares *)
(* with the user are rewritten by every change, and equal the tables.      *)
(***************************************************************************)
EXTENDS Integers, Selection, SequencesExt

CONSTANTS AddressBits   \* 32 in the code

ASSUME BitsAssumption == AddressBits \in Nat \ (0 .. 4)

(* The sizes of the networks are numbers: arithmetic the proofs go by.       *)
ASSUME PowersAssumption ==
    \A bits \in 0 .. AddressBits : 2^bits \in Nat \ {0} /\ 2^AddressBits % 2^bits = 0

Addresses == 0 .. 2^AddressBits - 1
NoAddress == 2^AddressBits          \* None, where an address is optional
Unspecified == 0
LimitedBroadcast == 2^AddressBits - 1
IsMulticast(a) == a \div 2^(AddressBits - 4) = 14

(* address & prefix_to_mask(prefix), and the network's broadcast address     *)
HostSize(prefix) == 2^(AddressBits - prefix)
Network(a, prefix) == a - (a % HostSize(prefix))
BroadcastOf(a, prefix) == Network(a, prefix) + HostSize(prefix) - 1

-----------------------------------------------------------------------------
(* AddressTableIpv4: a sequence of addresses with their prefixes *)

ContainsAddress(addresses, a) == \E e \in ToSet(addresses) : e.address = a

ContainsAsAddressOrBroadcast(addresses, a) ==
    \E e \in ToSet(addresses) : e.address = a \/ BroadcastOf(e.address, e.prefix) = a

FirstWithSubnetContaining(addresses, a) ==
    LET Holds(e) == Network(a, e.prefix) = Network(e.address, e.prefix)
        first == SelectInSeq(addresses, Holds)
    IN  IF first = 0 THEN NoAddress ELSE addresses[first].address

WithAddress(addresses, a, prefix) == Append(addresses, [address |-> a, prefix |-> prefix])

(* AddressTableIpv4::remove takes the first of several copies.               *)
WithoutAddress(addresses, a) ==
    LET IsCopy(e) == e.address = a
    IN  RemoveFirstMatch(addresses, IsCopy)

-----------------------------------------------------------------------------
(* RouteTable: routes in order, longest prefix first *)

Route(target, prefix, source, nextHop) ==
    [target |-> target, prefix |-> prefix, source |-> source, nextHop |-> nextHop]

(* Mutant of SameKey: networks of any size are the same from one address on. *)
SameTarget(r, s) == r.target = s.target

SameKey(r, s) == r.target = s.target /\ r.prefix = s.prefix

(* RouteInformation::cmp                                                     *)
Precedes(r, s) ==
    r.prefix > s.prefix \/ (r.prefix = s.prefix /\ r.target < s.target)

(* insert_or_update: binary_search finds the equal route, or the place       *)
(* between those that precede the new one and those that follow it.          *)
InsertOrUpdate(routes, new) ==
    LET Follows(r) == ~Precedes(r, new)
        found == SelectInSeq(routes, Follows)
        place == IF found = 0 THEN Len(routes) + 1 ELSE found
    IN  IF found # 0 /\ SameKey(routes[place], new)
        THEN [routes EXCEPT ![place] = new]
        ELSE InsertAt(routes, place, new)

(* remove_matching, with the predicate of handle_ipv4_address_remove: the    *)
(* one sequence of the routes that stay.                                     *)
WithoutSource(routes, a) ==
    {Picked(routes, kept) : kept \in Ascending({i \in DOMAIN routes : routes[i].source # a})}

NoRoute == Route(NoAddress, 0, NoAddress, NoAddress)

Lookup(routes, destination) ==
    LET Leads(r) == Network(destination, r.prefix) = r.target
        first == SelectInSeq(routes, Leads)
    IN  IF first = 0 THEN NoRoute ELSE routes[first]

-----------------------------------------------------------------------------
(* What the worker does with them *)

(* An address whose probe timed out is ours, with a route to its network.    *)
ConnectedRoute(a, prefix) == Route(Network(a, prefix), prefix, a, NoAddress)

(* handle_ipv4_route_add: the source of a new route, the one given or the    *)
(* first of ours that has the next hop in its subnet; or why there is none.  *)
RouteSource(addresses, nextHop, source) ==
    IF source # NoAddress THEN source ELSE FirstWithSubnetContaining(addresses, nextHop)

RouteAddVerdict(addresses, nextHop, source) ==
    LET chosen == RouteSource(addresses, nextHop, source)
    IN  CASE chosen = NoAddress -> "RouteNextHopUnreachable"
          [] chosen # NoAddress /\ ~ContainsAddress(addresses, chosen) -> "RouteUnknownSource"
          [] OTHER -> "ok"
=============================================================================
