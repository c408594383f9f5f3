-------------------------- MODULE Ipv4Path_proofs --------------------------
(***************************************************************************)
(* For any addresses, prefixes, requests and frames: sockets share a port  *)
(* exactly when they agreed to, the listener of an address stays while it  *)
(* is there, packets leave by the best route, frames fit the MTU, and what *)
(* is heard of a frame is what it was meant to say.                        *)
(***************************************************************************)
EXTENDS Ipv4Path, SequenceTheorems, FiniteSetTheorems, WellFoundedInduction, TLAPS

-----------------------------------------------------------------------------
(* The inductive invariant *)

(* What the sequences hold.                                                *)
Entry == [address : Addresses, prefix : 0 .. AddressBits]
RouteRecord == [target : Int, prefix : 0 .. AddressBits,
                source : Addresses, nextHop : Addresses \cup {NoAddress}]
SocketBinding == {Binding(ip, dualStack, reuse, n) :
                     ip \in Ip, dualStack \in BOOLEAN, reuse \in BOOLEAN, n \in Nat}

TablesTypeOK ==
    /\ addresses \in Seq(Entry)
    /\ routes \in Seq(RouteRecord)
    /\ bindings \in Seq(SocketBinding)
    /\ made \in Nat

(* Every binding is of a socket of its own, among those made so far.       *)
SocketsAreApart ==
    /\ \A i \in 1 .. Len(bindings) : bindings[i].socket \in 1 .. made
    /\ \A i, j \in 1 .. Len(bindings) : bindings[i].socket = bindings[j].socket => i = j

(* The order the binary search of insert_or_update and lookup count on.    *)
InOrder(rs) == \A i, j \in 1 .. Len(rs) : i < j => Precedes(rs[i], rs[j])
RoutesInOrder == InOrder(routes)

SourcesAreOurs == \A r \in ToSet(routes) : ContainsAddress(addresses, r.source)

(* An address that is in the table twice has made its networks contested:  *)
(* the removal of one copy takes the routes of both.                       *)
CopiesAreContested ==
    \A i, j \in 1 .. Len(addresses) :
        i # j /\ addresses[i].address = addresses[j].address
            => KeyOf(addresses[i]) \in contested

(* Where a reader looks for what is inside, tagged or not, are numbers: the *)
(* words of an IPv4 header, its total length, and what ARP has there.      *)
Readable(bytes) ==
    /\ \E S : bytes \in Seq(S)
    /\ Len(bytes) >= 22
    /\ \A i \in {15, 17, 18, 19, 21, 22} : bytes[i] \in Int

FramesAreReadable == wire.to \in {"us", "peer"} => Readable(wire.bytes)

IInv ==
    /\ TablesTypeOK
    /\ SocketsAreApart /\ SharingIsMutual
    /\ RoutesInOrder /\ SourcesAreOurs
    /\ CopiesAreContested /\ UncontestedNetworksAreRouted
    /\ FramesAreReadable /\ FramesAreShort /\ OnlyTheLongestPanic

-----------------------------------------------------------------------------
(* Sequences *)

(* A set of naturals has a least element, so Min is what it says.          *)
LEMMA LeastIsThere ==
    ASSUME NEW T, T \subseteq Nat, T # {}
    PROVE  Min(T) \in T /\ \A y \in T : Min(T) <= y
<1>1. PICK x \in T : \A y \in T : ~(<<y, x>> \in OpToRel(<, Nat))
    BY WFMin, NatLessThanWellFounded
<1>2. \A y \in T : ~(y < x)
    BY <1>1 DEF OpToRel
<1>3. \A y \in T : x <= y
    BY <1>2
<1> QED
    BY <1>3 DEF Min

LEMMA LeastOfPlaces ==
    ASSUME NEW S, NEW s \in Seq(S), NEW T, T \subseteq 1 .. Len(s), T # {}
    PROVE  /\ Min(T) \in T /\ Min(T) \in 1 .. Len(s) /\ Min(T) # 0
           /\ \A y \in T : Min(T) <= y
<1>1. T \subseteq Nat
    BY LenProperties
<1>2. Min(T) \in T /\ \A y \in T : Min(T) <= y
    BY <1>1, LeastIsThere
<1>3. Min(T) \in 1 .. Len(s)
    BY <1>2
<1>4. \A k \in 1 .. Len(s) : k # 0
    BY LenProperties
<1> QED
    BY <1>2, <1>3, <1>4

LEMMA PlacesOfSet ==
    ASSUME NEW S, NEW s \in Seq(S)
    PROVE  /\ \A x : x \in ToSet(s) <=> \E k \in 1 .. Len(s) : x = s[k]
           /\ \A k \in 1 .. Len(s) : s[k] \in ToSet(s) /\ s[k] \in S
           /\ Len(s) \in Nat
BY ElementOfSeq, LenProperties DEF ToSet

LEMMA Appending ==
    ASSUME NEW S, NEW s \in Seq(S), NEW b \in S
    PROVE  /\ Append(s, b) \in Seq(S)
           /\ Len(Append(s, b)) = Len(s) + 1
           /\ \A k \in 1 .. Len(s) : Append(s, b)[k] = s[k]
           /\ Append(s, b)[Len(s) + 1] = b
           /\ \A x : x \in ToSet(Append(s, b)) <=> x \in ToSet(s) \/ x = b
<1>1. /\ Append(s, b) \in Seq(S)
      /\ Len(Append(s, b)) = Len(s) + 1 /\ Len(s) \in Nat
      /\ \A k \in 1 .. Len(s) : Append(s, b)[k] = s[k]
      /\ Append(s, b)[Len(s) + 1] = b
    BY AppendProperties, LenProperties
<1>2. \A k : k \in 1 .. Len(s) + 1 <=> k \in 1 .. Len(s) \/ k = Len(s) + 1
    BY <1>1
<1>3. ASSUME NEW x
      PROVE  x \in ToSet(Append(s, b)) <=> x \in ToSet(s) \/ x = b
    <2>1. x \in ToSet(Append(s, b)) <=> \E k \in 1 .. Len(s) + 1 : x = Append(s, b)[k]
        <3> DEFINE t == Append(s, b)
        <3>1. t \in Seq(S) /\ Len(t) = Len(s) + 1
            BY <1>1
        <3> HIDE DEF t
        <3>2. x \in ToSet(t) <=> \E k \in 1 .. Len(t) : x = t[k]
            BY <3>1, PlacesOfSet
        <3> QED
            BY <3>1, <3>2 DEF t
    <2>2. x \in ToSet(s) <=> \E k \in 1 .. Len(s) : x = s[k]
        BY PlacesOfSet
    <2> QED
        BY <1>1, <1>2, <2>1, <2>2
<1> QED
    BY <1>1, <1>3

(* Taking an element out: what stays keeps its order.                      *)
LEMMA TakingOut ==
    ASSUME NEW S, NEW s \in Seq(S), NEW k \in 1 .. Len(s)
    PROVE  /\ RemoveAt(s, k) \in Seq(S)
           /\ Len(RemoveAt(s, k)) = Len(s) - 1
           /\ \A i \in 1 .. Len(s) - 1 :
                 RemoveAt(s, k)[i] = s[IF i < k THEN i ELSE i + 1]
<1> DEFINE before == SubSeq(s, 1, k - 1)
           after == SubSeq(s, k + 1, Len(s))
<1>0. Len(s) \in Nat /\ k \in Nat /\ 1 <= k /\ k <= Len(s)
    BY LenProperties
<1>1. /\ before \in Seq(S)
      /\ Len(before) = k - 1
      /\ \A i \in 1 .. k - 1 : before[i] = s[i]
    BY <1>0, SubSeqProperties
<1>2. /\ after \in Seq(S)
      /\ Len(after) = Len(s) - k
      /\ \A i \in 1 .. Len(s) - k : after[i] = s[k + i]
    BY <1>0, SubSeqProperties
<1>3. RemoveAt(s, k) = before \o after
    BY DEF RemoveAt
<1> HIDE DEF before, after
<1>4. /\ before \o after \in Seq(S)
      /\ Len(before \o after) = Len(before) + Len(after)
      /\ \A i \in 1 .. Len(before) + Len(after) :
            (before \o after)[i] = IF i <= Len(before) THEN before[i]
                                                      ELSE after[i - Len(before)]
    BY <1>1, <1>2, ConcatProperties
<1>5. ASSUME NEW i \in 1 .. Len(s) - 1, i < k
      PROVE  (before \o after)[i] = s[i]
    BY <1>0, <1>1, <1>2, <1>4, <1>5
<1>6. ASSUME NEW i \in 1 .. Len(s) - 1, ~(i < k)
      PROVE  (before \o after)[i] = s[i + 1]
    <2>1. i \in 1 .. Len(before) + Len(after) /\ ~(i <= Len(before)) /\ Len(before) = k - 1
        BY <1>0, <1>1, <1>2, <1>6
    <2>2. (before \o after)[i] = after[i - (k - 1)]
        BY <1>4, <2>1
    <2>3. i - (k - 1) \in 1 .. Len(s) - k /\ k + (i - (k - 1)) = i + 1
        BY <1>0, <1>6
    <2>4. after[i - (k - 1)] = s[k + (i - (k - 1))]
        BY <1>2, <2>3
    <2> QED
        BY <2>2, <2>3, <2>4
<1>7. Len(before \o after) = Len(s) - 1
    BY <1>0, <1>1, <1>2, <1>4
<1> QED
    BY <1>3, <1>4, <1>5, <1>6, <1>7

(* Where the elements that stay came from: every other place, in order.    *)
LEMMA WhatStays ==
    ASSUME NEW S, NEW s \in Seq(S), NEW k \in 1 .. Len(s)
    PROVE  LET from == [i \in 1 .. Len(s) - 1 |-> IF i < k THEN i ELSE i + 1]
           IN  /\ \A i \in 1 .. Len(s) - 1 :
                     from[i] \in 1 .. Len(s) /\ from[i] # k /\ RemoveAt(s, k)[i] = s[from[i]]
               /\ \A i, j \in 1 .. Len(s) - 1 : i < j => from[i] < from[j]
               /\ \A m \in 1 .. Len(s) : m # k => \E i \in 1 .. Len(s) - 1 : from[i] = m
<1> DEFINE from == [i \in 1 .. Len(s) - 1 |-> IF i < k THEN i ELSE i + 1]
<1>0. Len(s) \in Nat /\ k \in Nat /\ 1 <= k /\ k <= Len(s)
    BY LenProperties
<1>1. \A i \in 1 .. Len(s) - 1 : from[i] = IF i < k THEN i ELSE i + 1
    OBVIOUS
<1>2. \A i \in 1 .. Len(s) - 1 : RemoveAt(s, k)[i] = s[from[i]]
    BY <1>1, TakingOut
<1> HIDE DEF from
<1>3. \A i \in 1 .. Len(s) - 1 : from[i] \in 1 .. Len(s) /\ from[i] # k
    BY <1>0, <1>1
<1>4. \A i, j \in 1 .. Len(s) - 1 : i < j => from[i] < from[j]
    BY <1>0, <1>1
<1>5. ASSUME NEW m \in 1 .. Len(s), m # k
      PROVE  \E i \in 1 .. Len(s) - 1 : from[i] = m
    <2>1. CASE m < k
        <3>1. m \in 1 .. Len(s) - 1 /\ from[m] = m
            BY <1>0, <1>1, <2>1
        <3> QED
            BY <3>1
    <2>2. CASE m > k
        <3>1. m - 1 \in 1 .. Len(s) - 1 /\ from[m - 1] = m
            BY <1>0, <1>1, <2>2
        <3> QED
            BY <3>1
    <2> QED
        BY <1>0, <1>5, <2>1, <2>2
<1> QED
    BY <1>2, <1>3, <1>4, <1>5 DEF from

-----------------------------------------------------------------------------
(* Sharing a port *)

(* The four kinds of bindings, and what each covers.                       *)
LEMMA KindsOfBindings ==
    ASSUME NEW b \in SocketBinding
    PROVE  /\ \/ b.target = "any" \/ b.target = "any_ipv4" \/ b.target = "any_ipv6"
              \/ b.target = "specific" /\ b.original \in V4 \cup V6
           /\ b.original \in Ip /\ b.reuse \in BOOLEAN /\ b.socket \in Nat
<1>1. PICK ip \in Ip, dualStack \in BOOLEAN, reuse \in BOOLEAN, n \in Nat :
            b = Binding(ip, dualStack, reuse, n)
    BY DEF SocketBinding
<1>2. b.target = TargetFor(ip, dualStack) /\ b.original = ip /\ b.reuse = reuse /\ b.socket = n
    BY <1>1 DEF Binding
<1>3. CASE IsUnspecified(ip)
    BY <1>2, <1>3 DEF TargetFor
<1>4. CASE ~IsUnspecified(ip)
    <2>1. TargetFor(ip, dualStack) = "specific"
        BY <1>4 DEF TargetFor
    <2> QED
        BY <1>2, <1>4, <2>1 DEF Ip, IsUnspecified
<1> QED
    BY <1>3, <1>4

LEMMA CoveredAddresses ==
    ASSUME NEW b
    PROVE  /\ b.target = "any" => Covers(b) = V4 \cup V6
           /\ b.target = "any_ipv4" => Covers(b) = V4
           /\ b.target = "any_ipv6" => Covers(b) = V6
           /\ b.target = "specific" => Covers(b) = {b.original} \cap (V4 \cup V6)
<1>1. \A ip \in V4 \cup V6 : IsV4Address(ip) <=> ip \in V4
    BY AddressAssumption DEF IsV4Address, AddressAssumption
<1>2. \A ip \in V4 \cup V6 : ip \in V6 <=> ip \notin V4
    BY AddressAssumption DEF AddressAssumption
<1> QED
    BY <1>1, <1>2 DEF Covers, Matches

(* What a request has to get along with is what it would overlap.          *)
IsRival(b, ip, dualStack) ==
    \/ IsUnspecified(ip) /\ dualStack
    \/ IsUnspecified(ip) /\ ~dualStack /\ (IF IsV4Address(ip) THEN IsIpv4(b) ELSE IsIpv6(b))
    \/ ~IsUnspecified(ip) /\ Matches(b, ip)

LEMMA RivalsOverlap ==
    ASSUME NEW b \in SocketBinding, NEW ip \in Ip, NEW dualStack \in BOOLEAN,
           NEW reuse \in BOOLEAN, NEW n
    PROVE  IsRival(b, ip, dualStack) <=> Covers(b) \cap Covers(Binding(ip, dualStack, reuse, n)) # {}
<1> DEFINE new == Binding(ip, dualStack, reuse, n)
<1>1. new.target = TargetFor(ip, dualStack) /\ new.original = ip
    BY DEF Binding
<1> HIDE DEF new
<1>2. V4 # {} /\ V6 # {} /\ V4 \cap V6 = {}
    BY SharingAssumption, AddressAssumption DEF SharingAssumption, AddressAssumption
<1>3. Covers(b) # {} /\ Covers(b) \subseteq V4 \cup V6
    BY <1>2, KindsOfBindings, CoveredAddresses
<1>4. /\ IsIpv4(b) <=> Covers(b) \cap V4 # {}
      /\ IsIpv6(b) <=> Covers(b) \cap V6 # {}
    <2>1. \A x \in V4 \cup V6 : IsV4Address(x) <=> x \in V4
        BY AddressAssumption DEF IsV4Address, AddressAssumption
    <2> QED
        BY <1>2, <2>1, KindsOfBindings, CoveredAddresses DEF IsIpv4, IsIpv6
<1>5. CASE IsUnspecified(ip) /\ dualStack
    <2>1. Covers(new) = V4 \cup V6
        BY <1>1, <1>5, CoveredAddresses DEF TargetFor
    <2> QED
        BY <1>3, <1>5, <2>1 DEF IsRival, new
<1>6. CASE IsUnspecified(ip) /\ ~dualStack
    <2>1. CASE IsV4Address(ip)
        <3>1. Covers(new) = V4
            BY <1>1, <1>6, <2>1, CoveredAddresses DEF TargetFor
        <3> QED
            BY <1>4, <1>6, <2>1, <3>1 DEF IsRival, new
    <2>2. CASE ~IsV4Address(ip)
        <3>1. Covers(new) = V6
            BY <1>1, <1>6, <2>2, CoveredAddresses DEF TargetFor
        <3> QED
            BY <1>4, <1>6, <2>2, <3>1 DEF IsRival, new
    <2> QED
        BY <2>1, <2>2
<1>7. CASE ~IsUnspecified(ip)
    <2>1. ip \in V4 \cup V6
        BY <1>7 DEF Ip, IsUnspecified
    <2>2. Covers(new) = {ip}
        BY <1>1, <1>7, <2>1, CoveredAddresses DEF TargetFor
    <2>3. Matches(b, ip) <=> ip \in Covers(b)
        BY <2>1 DEF Covers
    <2> QED
        BY <1>7, <2>2, <2>3 DEF IsRival, new
<1> QED
    BY <1>5, <1>6, <1>7

(* is_bindable refuses exactly what would be shared without consent.       *)
LEMMA RefusalsAreJustified ==
    ASSUME bindings \in Seq(SocketBinding)
    PROVE  RefusalIsJustified
<1> SUFFICES ASSUME NEW ip \in Ip, NEW reuse \in BOOLEAN, NEW dualStack \in BOOLEAN
             PROVE  LET wanted == Covers(Binding(ip, dualStack, reuse, 0))
                        Overlapping == {b \in ToSet(bindings) : Covers(b) \cap wanted # {}}
                    IN  IsBindable(bindings, ip, reuse, dualStack)
                            <=> \A b \in Overlapping : reuse /\ b.reuse
    BY DEF RefusalIsJustified
<1> DEFINE wanted == Covers(Binding(ip, dualStack, reuse, 0))
           Overlapping == {b \in ToSet(bindings) : Covers(b) \cap wanted # {}}
<1>1. \A b \in ToSet(bindings) : b \in SocketBinding
    BY PlacesOfSet
<1>2. Rivals(bindings, ip, dualStack) = {b \in ToSet(bindings) : IsRival(b, ip, dualStack)}
    BY DEF Rivals, IsRival
<1>3. \A b \in ToSet(bindings) : IsRival(b, ip, dualStack) <=> Covers(b) \cap wanted # {}
    BY <1>1, RivalsOverlap
<1>4. Rivals(bindings, ip, dualStack) = Overlapping
    BY <1>2, <1>3
<1> HIDE DEF Overlapping
<1>5. IsBindable(bindings, ip, reuse, dualStack) <=> \A b \in Overlapping : reuse /\ b.reuse
    BY <1>4, Zenon DEF IsBindable, IsBindableAllowReuse, IsBindableExclusive
<1> QED
    BY <1>5 DEF Overlapping

(* A sequence of bindings of which no two share without consent.           *)
Mutual(s) ==
    \A i, j \in 1 .. Len(s) :
        i # j /\ Covers(s[i]) \cap Covers(s[j]) # {} => s[i].reuse /\ s[j].reuse

LEMMA MutualIsMutual == SharingIsMutual <=> Mutual(bindings)
BY Zenon DEF SharingIsMutual, Mutual

LEMMA GrantedIsMutual ==
    ASSUME NEW s \in Seq(SocketBinding), Mutual(s),
           NEW ip \in Ip, NEW reuse \in BOOLEAN, NEW dualStack \in BOOLEAN, NEW n \in Nat,
           IsBindable(s, ip, reuse, dualStack)
    PROVE  Mutual(Insert(s, ip, dualStack, reuse, n))
<1> DEFINE new == Binding(ip, dualStack, reuse, n)
           t == Append(s, new)
<1>1. new \in SocketBinding /\ new.reuse = reuse
    BY DEF Binding, SocketBinding
<1>2. Insert(s, ip, dualStack, reuse, n) = t
    BY DEF Insert
<1>3. \A b \in ToSet(s) : IsRival(b, ip, dualStack) <=> Covers(b) \cap Covers(new) # {}
    BY PlacesOfSet, RivalsOverlap
<1> HIDE DEF new
<1>4. /\ Len(t) = Len(s) + 1 /\ Len(s) \in Nat
      /\ \A k \in 1 .. Len(s) : t[k] = s[k] /\ s[k] \in ToSet(s) /\ s[k] \in SocketBinding
      /\ t[Len(s) + 1] = new
    BY <1>1, Appending, PlacesOfSet
<1>5. ASSUME NEW b \in ToSet(s), Covers(b) \cap Covers(new) # {}
      PROVE  b.reuse /\ new.reuse
    <2>1. b \in Rivals(s, ip, dualStack)
        BY <1>3, <1>5 DEF Rivals, IsRival
    <2> QED
        BY <1>1, <2>1, Zenon DEF IsBindable, IsBindableAllowReuse, IsBindableExclusive
<1> HIDE DEF t
<1>6. ASSUME NEW i \in 1 .. Len(t), NEW j \in 1 .. Len(t), i # j,
             Covers(t[i]) \cap Covers(t[j]) # {}
      PROVE  t[i].reuse /\ t[j].reuse
    <2>1. CASE i = Len(s) + 1
        <3>1. j \in 1 .. Len(s) /\ t[j] \in ToSet(s) /\ t[i] = new
            BY <1>4, <1>6, <2>1
        <3>2. Covers(t[j]) \cap Covers(new) # {}
            BY <1>6, <3>1
        <3> QED
            BY <1>5, <3>1, <3>2, Zenon
    <2>2. CASE j = Len(s) + 1
        <3>1. i \in 1 .. Len(s) /\ t[i] \in ToSet(s) /\ t[j] = new
            BY <1>4, <1>6, <2>2
        <3>2. Covers(t[i]) \cap Covers(new) # {}
            BY <1>6, <3>1
        <3> QED
            BY <1>5, <3>1, <3>2, Zenon
    <2>3. CASE i # Len(s) + 1 /\ j # Len(s) + 1
        <3>1. i \in 1 .. Len(s) /\ j \in 1 .. Len(s)
            BY <1>4, <2>3
        <3>2. t[i] = s[i] /\ t[j] = s[j]
            BY <1>4, <3>1
        <3> QED
            BY <1>6, <3>1, <3>2, Zenon DEF Mutual
    <2> QED
        BY <2>1, <2>2, <2>3
<1> QED
    BY <1>2, <1>6, Zenon DEF Mutual

(* AddressBindings::remove takes out the oldest binding asked for as ip.   *)
LEMMA RemovalTakesOne ==
    ASSUME NEW S, NEW s \in Seq(S), NEW ip
    PROVE  \/ RemoveBinding(s, ip) = s
           \/ \E k \in 1 .. Len(s) : RemoveBinding(s, ip) = RemoveAt(s, k)
<1> DEFINE found == {i \in 1 .. Len(s) : s[i].original = ip}
<1>1. CASE found = {}
    BY <1>1 DEF RemoveBinding, RemoveFirstMatch
<1>2. CASE found # {}
    <2>1. Min(found) \in 1 .. Len(s)
        BY <1>2, LeastOfPlaces
    <2>2. RemoveBinding(s, ip) = RemoveAt(s, Min(found))
        BY <1>2 DEF RemoveBinding, RemoveFirstMatch, SelectInSeq
    <2> QED
        BY <2>1, <2>2
<1> QED
    BY <1>1, <1>2

LEMMA FewerAreMutual ==
    ASSUME NEW s \in Seq(SocketBinding), Mutual(s), NEW k \in 1 .. Len(s)
    PROVE  Mutual(RemoveAt(s, k))
<1> DEFINE t == RemoveAt(s, k)
           from == [i \in 1 .. Len(s) - 1 |-> IF i < k THEN i ELSE i + 1]
<1>1. Len(t) = Len(s) - 1 /\ Len(s) \in Nat
    BY TakingOut, LenProperties
<1>2. /\ \A i \in 1 .. Len(s) - 1 : from[i] \in 1 .. Len(s) /\ t[i] = s[from[i]]
      /\ \A i, j \in 1 .. Len(s) - 1 : i < j => from[i] < from[j]
    BY WhatStays
<1> HIDE DEF t, from
<1> SUFFICES ASSUME NEW i \in 1 .. Len(t), NEW j \in 1 .. Len(t), i # j,
                    Covers(t[i]) \cap Covers(t[j]) # {}
             PROVE  t[i].reuse /\ t[j].reuse
    BY Zenon DEF Mutual, t
<1>3. from[i] \in 1 .. Len(s) /\ from[j] \in 1 .. Len(s) /\ from[i] # from[j]
    BY <1>1, <1>2
<1>4. t[i] = s[from[i]] /\ t[j] = s[from[j]]
    BY <1>1, <1>2
<1> QED
    BY <1>3, <1>4, Zenon DEF Mutual

(* get_mut finds the first binding that matches, if there is one.          *)
IsListener(s, ip, k) ==
    /\ k \in 1 .. Len(s) /\ Matches(s[k], ip)
    /\ \A j \in 1 .. Len(s) : j < k => ~Matches(s[j], ip)

LEMMA ListenerFound ==
    ASSUME NEW S, NEW s \in Seq(S), NEW ip
    PROVE  \/ /\ GetMut(s, ip) = NoSocket
              /\ \A k \in 1 .. Len(s) : ~Matches(s[k], ip)
           \/ \E k : IsListener(s, ip, k) /\ GetMut(s, ip) = s[k].socket
<1> DEFINE found == {i \in 1 .. Len(s) : Matches(s[i], ip)}
<1>1. CASE found = {}
    BY <1>1 DEF GetMut, SelectInSeq
<1>2. CASE found # {}
    <2>1. Min(found) \in found /\ Min(found) # 0 /\ \A y \in found : Min(found) <= y
        BY <1>2, LeastOfPlaces
    <2>2. GetMut(s, ip) = s[Min(found)].socket
        BY <1>2, <2>1 DEF GetMut, SelectInSeq
    <2>3. \A j \in 1 .. Len(s) : j < Min(found) => j \notin found
        BY <2>1, LenProperties
    <2>4. IsListener(s, ip, Min(found))
        BY <2>1, <2>3 DEF IsListener
    <2> QED
        BY <2>2, <2>4
<1> QED
    BY <1>1, <1>2

LEMMA ListenerIsIt ==
    ASSUME NEW S, NEW s \in Seq(S), NEW ip, NEW k, IsListener(s, ip, k)
    PROVE  GetMut(s, ip) = s[k].socket
<1>1. PICK j : IsListener(s, ip, j) /\ GetMut(s, ip) = s[j].socket
    BY ListenerFound DEF IsListener
<1>2. j = k
    BY <1>1, LenProperties DEF IsListener
<1> QED
    BY <1>1, <1>2

ListenerStays(ip) ==
    GetMut(bindings, ip) # NoSocket
        /\ (\E b \in ToSet(bindings') : b.socket = GetMut(bindings, ip))
    => GetMut(bindings', ip) = GetMut(bindings, ip)

(* A newcomer comes last, and is nobody's listener yet.                    *)
LEMMA NewcomerIsLast ==
    ASSUME NEW S, NEW s \in Seq(S), NEW b \in S, NEW ip, GetMut(s, ip) # NoSocket
    PROVE  GetMut(Append(s, b), ip) = GetMut(s, ip)
<1>1. PICK k : IsListener(s, ip, k) /\ GetMut(s, ip) = s[k].socket
    BY ListenerFound
<1>2. /\ Append(s, b) \in Seq(S)
      /\ Len(Append(s, b)) = Len(s) + 1 /\ Len(s) \in Nat
      /\ \A i \in 1 .. Len(s) : Append(s, b)[i] = s[i]
    BY Appending, LenProperties
<1> DEFINE t == Append(s, b)
<1> HIDE DEF t
<1>3. k \in 1 .. Len(t) /\ t[k] = s[k]
    BY <1>1, <1>2 DEF IsListener, t
<1>4. \A j \in 1 .. Len(t) : j < k => j \in 1 .. Len(s) /\ t[j] = s[j]
    BY <1>1, <1>2 DEF IsListener, t
<1>5. IsListener(t, ip, k)
    BY <1>1, <1>3, <1>4 DEF IsListener
<1>6. GetMut(t, ip) = t[k].socket
    BY <1>2, <1>5, ListenerIsIt DEF t
<1> QED
    BY <1>1, <1>3, <1>6 DEF t

(* When another goes, those before the listener are still no match.        *)
LEMMA OthersMayGo ==
    ASSUME NEW S, NEW s \in Seq(S), NEW k \in 1 .. Len(s), NEW ip,
           \A i, j \in 1 .. Len(s) : s[i].socket = s[j].socket => i = j,
           GetMut(s, ip) # NoSocket,
           \E b \in ToSet(RemoveAt(s, k)) : b.socket = GetMut(s, ip)
    PROVE  GetMut(RemoveAt(s, k), ip) = GetMut(s, ip)
<1> DEFINE t == RemoveAt(s, k)
           from == [i \in 1 .. Len(s) - 1 |-> IF i < k THEN i ELSE i + 1]
<1>1. t \in Seq(S) /\ Len(t) = Len(s) - 1 /\ Len(s) \in Nat
    BY TakingOut, LenProperties
<1>2. /\ \A i \in 1 .. Len(s) - 1 : from[i] \in 1 .. Len(s) /\ t[i] = s[from[i]]
      /\ \A i, j \in 1 .. Len(s) - 1 : i < j => from[i] < from[j]
    BY WhatStays
<1>3. \E b \in ToSet(t) : b.socket = GetMut(s, ip)
    OBVIOUS
<1> HIDE DEF t, from
<1>4. PICK m : IsListener(s, ip, m) /\ GetMut(s, ip) = s[m].socket
    BY ListenerFound
<1>5. PICK i \in 1 .. Len(t) : t[i].socket = s[m].socket
    BY <1>1, <1>3, <1>4, PlacesOfSet
<1>6. from[i] = m
    BY <1>1, <1>2, <1>4, <1>5 DEF IsListener
<1>7. \A j \in 1 .. Len(t) : j < i => from[j] \in 1 .. Len(s) /\ from[j] < m /\ t[j] = s[from[j]]
    BY <1>1, <1>2, <1>5, <1>6
<1>8. t[i] = s[m]
    BY <1>1, <1>2, <1>5, <1>6
<1>9. IsListener(t, ip, i)
    BY <1>4, <1>5, <1>7, <1>8 DEF IsListener
<1>10. GetMut(t, ip) = t[i].socket
    BY <1>1, <1>9, ListenerIsIt
<1> QED
    BY <1>4, <1>8, <1>10 DEF t

BindingsInv ==
    /\ bindings \in Seq(SocketBinding) /\ made \in Nat
    /\ SocketsAreApart /\ Mutual(bindings)

LEMMA BindKeepsIt ==
    ASSUME BindingsInv, NEW ip \in Ip, NEW reuse \in BOOLEAN, NEW dualStack \in BOOLEAN,
           Bind(ip, reuse, dualStack)
    PROVE  BindingsInv' /\ \A x : ListenerStays(x)
<1> DEFINE new == Binding(ip, dualStack, reuse, made + 1)
<1>1. /\ IsBindable(bindings, ip, reuse, dualStack)
      /\ bindings' = Append(bindings, new) /\ made' = made + 1
      /\ bindings' = Insert(bindings, ip, dualStack, reuse, made + 1)
    BY DEF Bind, Insert
<1>2. bindings \in Seq(SocketBinding) /\ made \in Nat /\ Len(bindings) \in Nat
    BY LenProperties DEF BindingsInv
<1>3. new \in SocketBinding /\ new.socket = made + 1
    BY <1>2 DEF SocketBinding, Binding
<1>4. Mutual(bindings')
    <2>1. made + 1 \in Nat /\ Mutual(bindings)
        BY <1>2 DEF BindingsInv
    <2> QED
        BY <1>1, <1>2, <2>1, GrantedIsMutual
<1> HIDE DEF new
<1>5. /\ bindings' \in Seq(SocketBinding) /\ Len(bindings') = Len(bindings) + 1
      /\ \A k \in 1 .. Len(bindings) : bindings'[k] = bindings[k]
      /\ bindings'[Len(bindings) + 1] = new
    <2> DEFINE t == Append(bindings, new)
    <2>1. /\ t \in Seq(SocketBinding) /\ Len(t) = Len(bindings) + 1
          /\ \A k \in 1 .. Len(bindings) : t[k] = bindings[k]
          /\ t[Len(bindings) + 1] = new
        BY <1>2, <1>3, Appending
    <2>2. bindings' = t
        BY <1>1
    <2> HIDE DEF t
    <2> QED
        BY <2>1, <2>2
<1>6. SocketsAreApart'
    <2>1. \A k \in 1 .. Len(bindings') : k \in 1 .. Len(bindings) \/ k = Len(bindings) + 1
        BY <1>2, <1>5
    <2>2. /\ \A i \in 1 .. Len(bindings) : bindings[i].socket \in 1 .. made
          /\ \A i, j \in 1 .. Len(bindings) : bindings[i].socket = bindings[j].socket => i = j
        BY DEF BindingsInv, SocketsAreApart
    <2>3. \A i \in 1 .. Len(bindings') : bindings'[i].socket \in 1 .. made'
        BY <1>1, <1>2, <1>3, <1>5, <2>1, <2>2
    <2>4. \A i, j \in 1 .. Len(bindings') : bindings'[i].socket = bindings'[j].socket => i = j
        BY <1>2, <1>3, <1>5, <2>1, <2>2
    <2> QED
        BY <2>3, <2>4 DEF SocketsAreApart
<1>7. ASSUME NEW x
      PROVE  ListenerStays(x)
    <2>1. GetMut(bindings, x) # NoSocket => GetMut(Append(bindings, new), x) = GetMut(bindings, x)
        BY <1>2, <1>3, NewcomerIsLast
    <2> QED
        BY <1>1, <2>1 DEF ListenerStays
<1>8. made' \in Nat
    BY <1>1, <1>2
<1> QED
    BY <1>4, <1>5, <1>6, <1>7, <1>8 DEF BindingsInv

LEMMA UnbindKeepsIt ==
    ASSUME BindingsInv, NEW ip, Unbind(ip)
    PROVE  BindingsInv' /\ \A x : ListenerStays(x)
<1>1. bindings \in Seq(SocketBinding) /\ made \in Nat /\ Len(bindings) \in Nat
    BY LenProperties DEF BindingsInv
<1>2. bindings' = RemoveBinding(bindings, ip) /\ made' = made
    BY DEF Unbind
<1>3. CASE bindings' = bindings
    <2>1. BindingsInv'
        BY <1>2, <1>3 DEF BindingsInv, SocketsAreApart
    <2> QED
        BY <1>3, <2>1 DEF ListenerStays
<1>4. ASSUME NEW k \in 1 .. Len(bindings), bindings' = RemoveAt(bindings, k)
      PROVE  BindingsInv' /\ \A x : ListenerStays(x)
    <2> DEFINE from == [i \in 1 .. Len(bindings) - 1 |-> IF i < k THEN i ELSE i + 1]
    <2>1. bindings' \in Seq(SocketBinding) /\ Len(bindings') = Len(bindings) - 1
        BY <1>1, <1>4, TakingOut
    <2>2. \A i \in 1 .. Len(bindings) - 1 :
              from[i] \in 1 .. Len(bindings) /\ bindings'[i] = bindings[from[i]]
        BY <1>1, <1>4, WhatStays
    <2>3. \A i, j \in 1 .. Len(bindings) - 1 : i < j => from[i] < from[j]
        BY <1>1, WhatStays
    <2> HIDE DEF from
    <2>4. /\ \A i \in 1 .. Len(bindings) : bindings[i].socket \in 1 .. made
          /\ \A i, j \in 1 .. Len(bindings) : bindings[i].socket = bindings[j].socket => i = j
        BY DEF BindingsInv, SocketsAreApart
    <2>5. \A i, j \in 1 .. Len(bindings) - 1 : from[i] = from[j] => i = j
        BY <1>1, <2>2, <2>3
    <2>6. SocketsAreApart'
        <3>1. \A i \in 1 .. Len(bindings') : bindings'[i].socket \in 1 .. made'
            BY <1>1, <1>2, <2>1, <2>2, <2>4
        <3>2. ASSUME NEW i \in 1 .. Len(bindings'), NEW j \in 1 .. Len(bindings'),
                     bindings'[i].socket = bindings'[j].socket
              PROVE  i = j
            <4>1. i \in 1 .. Len(bindings) - 1 /\ j \in 1 .. Len(bindings) - 1
                BY <2>1
            <4>2. /\ from[i] \in 1 .. Len(bindings) /\ from[j] \in 1 .. Len(bindings)
                  /\ bindings'[i] = bindings[from[i]] /\ bindings'[j] = bindings[from[j]]
                BY <2>2, <4>1
            <4>3. bindings[from[i]].socket = bindings[from[j]].socket
                BY <3>2, <4>2
            <4>4. from[i] = from[j]
                BY <2>4, <4>2, <4>3
            <4> QED
                BY <2>5, <4>1, <4>4
        <3> QED
            BY <3>1, <3>2 DEF SocketsAreApart
    <2>7. Mutual(bindings')
        BY <1>1, <1>4, FewerAreMutual DEF BindingsInv
    <2>8. ASSUME NEW x
          PROVE  ListenerStays(x)
        <3> SUFFICES ASSUME GetMut(bindings, x) # NoSocket,
                            \E b \in ToSet(bindings') : b.socket = GetMut(bindings, x)
                     PROVE  GetMut(bindings', x) = GetMut(bindings, x)
            BY DEF ListenerStays
        <3>1. \E b \in ToSet(RemoveAt(bindings, k)) : b.socket = GetMut(bindings, x)
            BY <1>4
        <3>2. GetMut(RemoveAt(bindings, k), x) = GetMut(bindings, x)
            BY <1>1, <2>4, <3>1, OthersMayGo
        <3> QED
            BY <1>4, <3>2
    <2> QED
        BY <1>1, <1>2, <2>1, <2>6, <2>7, <2>8 DEF BindingsInv
<1> QED
    BY <1>1, <1>2, <1>3, <1>4, RemovalTakesOne

(* AddressBindings in any order of requests.                               *)
LEMMA BindingsStep ==
    ASSUME BindingsInv, [Next]_vars
    PROVE  BindingsInv' /\ \A x : ListenerStays(x)
<1>1. CASE UNCHANGED vars
    BY <1>1 DEF vars, BindingsInv, SocketsAreApart, ListenerStays
<1>2. CASE Next
    <2>1. \/ \E ip \in Ip, reuse, dualStack \in BOOLEAN : Bind(ip, reuse, dualStack)
          \/ \E ip \in Ip : Unbind(ip)
        BY <1>2 DEF Next
    <2> QED
        BY <2>1, BindKeepsIt, UnbindKeepsIt
<1> QED
    BY <1>1, <1>2

-----------------------------------------------------------------------------
(* The order of routes *)

LEMMA NetworkIsNumber ==
    ASSUME NEW a \in Addresses, NEW prefix \in 0 .. AddressBits
    PROVE  Network(a, prefix) \in Int
<1>1. AddressBits \in Nat
    BY BitsAssumption DEF BitsAssumption
<1>2. AddressBits - prefix \in 0 .. AddressBits
    BY <1>1
<1>3. HostSize(prefix) \in Nat \ {0}
    BY <1>2, PowersAssumption DEF PowersAssumption, HostSize
<1>4. a \in Int
    BY DEF Addresses
<1>5. a % HostSize(prefix) \in Int
    BY <1>3, <1>4
<1> QED
    BY <1>4, <1>5 DEF Network

(* RouteInformation::cmp is an order of the networks.                      *)
LEMMA PrecedesOrders ==
    ASSUME NEW r \in RouteRecord, NEW s \in RouteRecord, NEW t \in RouteRecord
    PROVE  /\ Precedes(r, s) \/ Precedes(s, r) \/ SameKey(r, s)
           /\ ~(Precedes(r, s) /\ SameKey(r, s))
           /\ ~(Precedes(r, s) /\ SameKey(s, r))
           /\ Precedes(r, s) /\ Precedes(s, t) => Precedes(r, t)
           /\ SameKey(r, s) /\ Precedes(s, t) => Precedes(r, t)
           /\ Precedes(t, s) /\ SameKey(r, s) => Precedes(t, r)
<1>1. /\ r.target \in Int /\ s.target \in Int /\ t.target \in Int
      /\ r.prefix \in Int /\ s.prefix \in Int /\ t.prefix \in Int
    BY DEF RouteRecord
<1> QED
    BY <1>1 DEF Precedes, SameKey

(* Putting an element in: the places before keep theirs, the others move up. *)
LEMMA PuttingIn ==
    ASSUME NEW S, NEW s \in Seq(S), NEW k \in 1 .. Len(s) + 1, NEW e \in S
    PROVE  /\ InsertAt(s, k, e) \in Seq(S)
           /\ Len(InsertAt(s, k, e)) = Len(s) + 1
           /\ InsertAt(s, k, e)[k] = e
           /\ \A i \in 1 .. Len(s) : i < k => InsertAt(s, k, e)[i] = s[i]
           /\ \A i \in 1 .. Len(s) : ~(i < k) => InsertAt(s, k, e)[i + 1] = s[i]
<1> DEFINE before == SubSeq(s, 1, k - 1)
           after == SubSeq(s, k, Len(s))
           front == before \o <<e>>
<1>0. Len(s) \in Nat /\ k \in Nat /\ 1 <= k /\ k <= Len(s) + 1
    BY LenProperties
<1>1. /\ before \in Seq(S)
      /\ Len(before) = k - 1
      /\ \A i \in 1 .. k - 1 : before[i] = s[i]
    BY <1>0, SubSeqProperties
<1>2. /\ after \in Seq(S)
      /\ Len(after) = Len(s) - k + 1
      /\ \A i \in 1 .. Len(s) - k + 1 : after[i] = s[k + i - 1]
    BY <1>0, SubSeqProperties
<1>3. <<e>> \in Seq(S) /\ Len(<<e>>) = 1 /\ <<e>>[1] = e
    OBVIOUS
<1>4. InsertAt(s, k, e) = front \o after
    BY DEF InsertAt
<1> HIDE DEF before, after
<1>5. /\ front \in Seq(S)
      /\ Len(front) = k
      /\ \A i \in 1 .. k - 1 : front[i] = before[i]
      /\ front[k] = e
    <2> DEFINE one == <<e>>
    <2>1. one \in Seq(S) /\ Len(one) = 1 /\ one[1] = e
        BY <1>3
    <2> HIDE DEF one
    <2>2. /\ before \o one \in Seq(S)
          /\ Len(before \o one) = Len(before) + Len(one)
          /\ \A i \in 1 .. Len(before) + Len(one) :
                (before \o one)[i] = IF i <= Len(before) THEN before[i]
                                                         ELSE one[i - Len(before)]
        BY <1>1, <2>1, ConcatProperties
    <2>3. k \in 1 .. Len(before) + Len(one) /\ ~(k <= Len(before)) /\ k - Len(before) = 1
        BY <1>0, <1>1, <2>1
    <2>4. (before \o one)[k] = e
        BY <2>1, <2>2, <2>3
    <2> QED
        BY <1>0, <1>1, <2>1, <2>2, <2>4 DEF one
<1> HIDE DEF front
<1>6. /\ front \o after \in Seq(S)
      /\ Len(front \o after) = Len(front) + Len(after)
      /\ \A i \in 1 .. Len(front) + Len(after) :
            (front \o after)[i] = IF i <= Len(front) THEN front[i]
                                                     ELSE after[i - Len(front)]
    BY <1>2, <1>5, ConcatProperties
<1>7. Len(front) + Len(after) = Len(s) + 1
    BY <1>0, <1>2, <1>5
<1>8. (front \o after)[k] = e
    BY <1>0, <1>5, <1>6, <1>7
<1>9. ASSUME NEW i \in 1 .. Len(s), i < k
      PROVE  (front \o after)[i] = s[i]
    BY <1>0, <1>1, <1>5, <1>6, <1>7, <1>9
<1>10. ASSUME NEW i \in 1 .. Len(s), ~(i < k)
       PROVE  (front \o after)[i + 1] = s[i]
    <2>1. i + 1 \in 1 .. Len(front) + Len(after) /\ ~(i + 1 <= Len(front))
        BY <1>0, <1>5, <1>7, <1>10
    <2>2. (front \o after)[i + 1] = after[i + 1 - k]
        BY <1>5, <1>6, <2>1
    <2>3. i + 1 - k \in 1 .. Len(s) - k + 1 /\ k + (i + 1 - k) - 1 = i
        BY <1>0, <1>10
    <2>4. after[i + 1 - k] = s[k + (i + 1 - k) - 1]
        BY <1>2, <2>3
    <2> QED
        BY <2>2, <2>3, <2>4
<1> QED
    BY <1>4, <1>6, <1>7, <1>8, <1>9, <1>10

(* insert_or_update keeps the order, and replaces the route of the same    *)
(* network and no other.                                                   *)
Updated(rs, new, updated) ==
    /\ updated \in Seq(RouteRecord) /\ InOrder(updated)
    /\ \A x : x \in ToSet(updated) <=> x = new \/ (x \in ToSet(rs) /\ ~SameKey(x, new))

LEMMA ReplacingRoute ==
    ASSUME NEW rs \in Seq(RouteRecord), InOrder(rs), NEW new \in RouteRecord,
           NEW k \in 1 .. Len(rs), SameKey(rs[k], new)
    PROVE  Updated(rs, new, [rs EXCEPT ![k] = new])
<1> DEFINE t == [rs EXCEPT ![k] = new]
<1>1. /\ t \in Seq(RouteRecord) /\ Len(t) = Len(rs) /\ Len(rs) \in Nat
      /\ t[k] = new /\ \A i \in 1 .. Len(rs) : i # k => t[i] = rs[i]
    BY ExceptSeq, LenProperties
<1>2. \A i \in 1 .. Len(rs) : rs[i] \in RouteRecord
    BY PlacesOfSet
<1> HIDE DEF t
<1>3. SameKey(new, rs[k])
    BY DEF SameKey
<1>4. InOrder(t)
    <2> SUFFICES ASSUME NEW i \in 1 .. Len(rs), NEW j \in 1 .. Len(rs), i < j
                 PROVE  Precedes(t[i], t[j])
        BY <1>1 DEF InOrder
    <2>1. Precedes(rs[i], rs[j])
        BY DEF InOrder
    <2>2. CASE i = k
        <3>1. j # k /\ t[i] = new /\ t[j] = rs[j]
            BY <1>1, <2>2
        <3> QED
            BY <1>2, <1>3, <2>1, <2>2, <3>1, PrecedesOrders
    <2>3. CASE j = k
        <3>1. i # k /\ t[j] = new /\ t[i] = rs[i]
            BY <1>1, <2>3
        <3> QED
            BY <1>2, <1>3, <2>1, <2>3, <3>1, PrecedesOrders
    <2>4. CASE i # k /\ j # k
        BY <1>1, <2>1, <2>4
    <2> QED
        BY <2>2, <2>3, <2>4
<1>5. ASSUME NEW i \in 1 .. Len(rs), i # k
      PROVE  ~SameKey(rs[i], new)
    <2>1. Precedes(rs[i], rs[k]) \/ Precedes(rs[k], rs[i])
        BY <1>1, <1>5 DEF InOrder
    <2>2. ~SameKey(rs[i], rs[k])
        BY <1>2, <2>1, PrecedesOrders
    <2> QED
        BY <1>3, <2>2 DEF SameKey
<1>6. ASSUME NEW x
      PROVE  x \in ToSet(t) <=> x = new \/ (x \in ToSet(rs) /\ ~SameKey(x, new))
    <2>1. x \in ToSet(t) <=> \E i \in 1 .. Len(rs) : x = t[i]
        BY <1>1, PlacesOfSet
    <2>2. x \in ToSet(rs) <=> \E i \in 1 .. Len(rs) : x = rs[i]
        BY PlacesOfSet
    <2>3. ASSUME NEW i \in 1 .. Len(rs), x = t[i]
          PROVE  x = new \/ (x \in ToSet(rs) /\ ~SameKey(x, new))
        <3>1. CASE i = k
            <4>1. x = new
                BY <1>1, <2>3, <3>1
            <4> QED
                BY <4>1
        <3>2. CASE i # k
            <4>1. x = rs[i] /\ ~SameKey(rs[i], new)
                BY <1>1, <1>5, <2>3, <3>2
            <4> QED
                BY <2>2, <4>1
        <3> QED
            BY <3>1, <3>2
    <2>4. x = new => \E i \in 1 .. Len(rs) : x = t[i]
        BY <1>1
    <2>5. ASSUME NEW i \in 1 .. Len(rs), x = rs[i], ~SameKey(x, new)
          PROVE  \E j \in 1 .. Len(rs) : x = t[j]
        <3>1. i # k
            BY <2>5
        <3>2. x = t[i]
            BY <1>1, <2>5, <3>1
        <3> QED
            BY <3>2
    <2> QED
        BY <2>1, <2>2, <2>3, <2>4, <2>5
<1> QED
    BY <1>1, <1>4, <1>6 DEF Updated, t

LEMMA InsertingRoute ==
    ASSUME NEW rs \in Seq(RouteRecord), InOrder(rs), NEW new \in RouteRecord,
           NEW k \in 1 .. Len(rs) + 1,
           \A i \in 1 .. Len(rs) : i < k => Precedes(rs[i], new),
           \A i \in 1 .. Len(rs) : ~(i < k) => Precedes(new, rs[i])
    PROVE  Updated(rs, new, InsertAt(rs, k, new))
<1> DEFINE t == InsertAt(rs, k, new)
           Old(i) == IF i < k THEN i ELSE i - 1
<1>0. Len(rs) \in Nat /\ k \in Nat /\ 1 <= k /\ k <= Len(rs) + 1
    BY LenProperties
<1>1. /\ t \in Seq(RouteRecord) /\ Len(t) = Len(rs) + 1
      /\ t[k] = new
      /\ \A i \in 1 .. Len(rs) : i < k => t[i] = rs[i]
      /\ \A i \in 1 .. Len(rs) : ~(i < k) => t[i + 1] = rs[i]
    BY PuttingIn
<1>2. \A i \in 1 .. Len(rs) : rs[i] \in RouteRecord
    BY PlacesOfSet
<1> HIDE DEF t
<1>3. ASSUME NEW i \in 1 .. Len(t), i # k
      PROVE  Old(i) \in 1 .. Len(rs) /\ t[i] = rs[Old(i)] /\ (i < k <=> Old(i) < k)
    <2>1. CASE i < k
        BY <1>0, <1>1, <2>1
    <2>2. CASE ~(i < k)
        <3>1. i - 1 \in 1 .. Len(rs) /\ ~(i - 1 < k) /\ (i - 1) + 1 = i
            BY <1>0, <1>1, <1>3, <2>2
        <3>2. t[(i - 1) + 1] = rs[i - 1]
            BY <1>1, <3>1
        <3> QED
            BY <2>2, <3>1, <3>2
    <2> QED
        BY <2>1, <2>2
<1>4. InOrder(t)
    <2> SUFFICES ASSUME NEW i \in 1 .. Len(t), NEW j \in 1 .. Len(t), i < j
                 PROVE  Precedes(t[i], t[j])
        BY DEF InOrder
    <2>1. CASE i = k
        <3>1. j # k /\ ~(j < k)
            BY <1>0, <1>1, <2>1
        <3> QED
            BY <1>1, <1>3, <2>1, <3>1
    <2>2. CASE j = k
        <3>1. i # k /\ i < k
            BY <1>0, <1>1, <2>2
        <3> QED
            BY <1>1, <1>3, <2>2, <3>1
    <2>3. CASE i # k /\ j # k
        <3>1. Old(i) < Old(j)
            BY <1>0, <1>1, <2>3
        <3>2. Old(i) \in 1 .. Len(rs) /\ Old(j) \in 1 .. Len(rs)
              /\ t[i] = rs[Old(i)] /\ t[j] = rs[Old(j)]
            BY <1>3, <2>3
        <3> HIDE DEF Old
        <3> QED
            BY <3>1, <3>2 DEF InOrder
    <2> QED
        BY <2>1, <2>2, <2>3
<1>5. ASSUME NEW i \in 1 .. Len(rs)
      PROVE  ~SameKey(rs[i], new)
    BY <1>2, PrecedesOrders
<1>6. ASSUME NEW i \in 1 .. Len(rs)
      PROVE  \E j \in 1 .. Len(t) : t[j] = rs[i]
    <2>1. CASE i < k
        <3>1. i \in 1 .. Len(t) /\ t[i] = rs[i]
            BY <1>0, <1>1, <2>1
        <3> QED
            BY <3>1
    <2>2. CASE ~(i < k)
        <3>1. i + 1 \in 1 .. Len(t) /\ t[i + 1] = rs[i]
            BY <1>0, <1>1, <2>2
        <3> QED
            BY <3>1
    <2> QED
        BY <2>1, <2>2
<1>7. ASSUME NEW x
      PROVE  x \in ToSet(t) <=> x = new \/ (x \in ToSet(rs) /\ ~SameKey(x, new))
    <2>1. x \in ToSet(t) <=> \E i \in 1 .. Len(t) : x = t[i]
        BY <1>1, PlacesOfSet
    <2>2. x \in ToSet(rs) <=> \E i \in 1 .. Len(rs) : x = rs[i]
        BY PlacesOfSet
    <2>3. k \in 1 .. Len(t)
        BY <1>0, <1>1
    <2> HIDE DEF Old
    <2>4. ASSUME NEW i \in 1 .. Len(t), x = t[i]
          PROVE  x = new \/ (x \in ToSet(rs) /\ ~SameKey(x, new))
        <3>1. CASE i = k
            <4>1. x = new
                BY <1>1, <2>4, <3>1
            <4> QED
                BY <4>1
        <3>2. CASE i # k
            <4>1. Old(i) \in 1 .. Len(rs) /\ x = rs[Old(i)]
                BY <1>3, <2>4, <3>2
            <4> QED
                BY <1>5, <2>2, <4>1
        <3> QED
            BY <3>1, <3>2
    <2>5. x = new \/ x \in ToSet(rs) => x \in ToSet(t)
        BY <1>1, <1>6, <2>1, <2>2, <2>3
    <2> QED
        BY <2>1, <2>4, <2>5
<1> QED
    BY <1>1, <1>4, <1>7 DEF Updated, t

LEMMA InsertOrUpdateUpdates ==
    ASSUME NEW rs \in Seq(RouteRecord), InOrder(rs), NEW new \in RouteRecord
    PROVE  Updated(rs, new, InsertOrUpdate(rs, new))
<1> DEFINE following == {i \in 1 .. Len(rs) : ~Precedes(rs[i], new)}
<1>0. Len(rs) \in Nat /\ \A i \in 1 .. Len(rs) : rs[i] \in RouteRecord
    BY PlacesOfSet
<1>1. CASE following = {}
    <2>1. InsertOrUpdate(rs, new) = InsertAt(rs, Len(rs) + 1, new)
        BY <1>1 DEF InsertOrUpdate, SelectInSeq
    <2>2. Len(rs) + 1 \in 1 .. Len(rs) + 1 /\ \A i \in 1 .. Len(rs) : i < Len(rs) + 1
        BY <1>0
    <2>3. \A i \in 1 .. Len(rs) : Precedes(rs[i], new)
        BY <1>1
    <2> QED
        BY <2>1, <2>2, <2>3, InsertingRoute
<1>2. CASE following # {}
    <2> DEFINE place == Min(following)
    <2>1. place \in following /\ place # 0 /\ \A y \in following : place <= y
        BY <1>2, LeastOfPlaces
    <2>2. InsertOrUpdate(rs, new) = IF SameKey(rs[place], new)
                                    THEN [rs EXCEPT ![place] = new]
                                    ELSE InsertAt(rs, place, new)
        BY <1>2, <2>1 DEF InsertOrUpdate, SelectInSeq
    <2>3. place \in 1 .. Len(rs) /\ ~Precedes(rs[place], new)
        BY <2>1
    <2>4. \A i \in 1 .. Len(rs) : i < place => Precedes(rs[i], new)
        BY <1>0, <2>1
    <2> HIDE DEF place
    <2>5. CASE SameKey(rs[place], new)
        BY <2>2, <2>3, <2>5, ReplacingRoute
    <2>6. CASE ~SameKey(rs[place], new)
        <3>1. Precedes(new, rs[place])
            BY <1>0, <2>3, <2>6, PrecedesOrders
        <3>2. ASSUME NEW i \in 1 .. Len(rs), ~(i < place)
              PROVE  Precedes(new, rs[i])
            <4>1. i = place \/ Precedes(rs[place], rs[i])
                BY <1>0, <2>3, <3>2 DEF InOrder
            <4> QED
                BY <1>0, <2>3, <3>1, <4>1, PrecedesOrders
        <3>3. place \in 1 .. Len(rs) + 1
            BY <1>0, <2>3
        <3> QED
            BY <2>2, <2>4, <2>6, <3>2, <3>3, InsertingRoute
    <2> QED
        BY <2>5, <2>6
<1> QED
    BY <1>1, <1>2

(* lookup finds a route that leads, if there is one, and all others that   *)
(* lead there are of shorter prefixes.                                     *)
LeadsTo(r, d) == Network(d, r.prefix) = r.target

LEMMA LookupFindsTheBest ==
    ASSUME NEW rs \in Seq(RouteRecord), InOrder(rs), NEW d
    PROVE  \/ Lookup(rs, d) = NoRoute /\ \A r \in ToSet(rs) : ~LeadsTo(r, d)
           \/ /\ Lookup(rs, d) \in ToSet(rs) /\ LeadsTo(Lookup(rs, d), d)
              /\ \A r \in ToSet(rs) :
                    LeadsTo(r, d) /\ r # Lookup(rs, d) => r.prefix < Lookup(rs, d).prefix
<1> DEFINE found == {i \in 1 .. Len(rs) : Network(d, rs[i].prefix) = rs[i].target}
<1>0. /\ Len(rs) \in Nat
      /\ \A i \in 1 .. Len(rs) : rs[i] \in RouteRecord /\ rs[i] \in ToSet(rs)
      /\ \A r \in ToSet(rs) : \E i \in 1 .. Len(rs) : r = rs[i]
    BY PlacesOfSet
<1>1. \A i \in 1 .. Len(rs) : i \in found <=> LeadsTo(rs[i], d)
    BY DEF LeadsTo
<1>2. CASE found = {}
    <2>1. Lookup(rs, d) = NoRoute
        BY <1>2 DEF Lookup, SelectInSeq
    <2>2. \A i \in 1 .. Len(rs) : ~LeadsTo(rs[i], d)
        BY <1>1, <1>2
    <2> QED
        BY <1>0, <2>1, <2>2
<1>3. CASE found # {}
    <2> DEFINE k == Min(found)
    <2>1. k \in found /\ k # 0 /\ \A y \in found : k <= y
        BY <1>3, LeastOfPlaces
    <2>2. Lookup(rs, d) = rs[k]
        BY <1>3, <2>1 DEF Lookup, SelectInSeq
    <2>3. k \in 1 .. Len(rs)
        BY <2>1
    <2> HIDE DEF k, found
    <2>4. LeadsTo(rs[k], d)
        BY <1>1, <2>1, <2>3
    <2>5. ASSUME NEW i \in 1 .. Len(rs), LeadsTo(rs[i], d), rs[i] # rs[k]
          PROVE  rs[i].prefix < rs[k].prefix
        <3>1. k < i
            <4>1. k <= i /\ k # i
                BY <1>1, <2>1, <2>5
            <4> QED
                BY <1>0, <2>3, <4>1
        <3>2. Precedes(rs[k], rs[i])
            BY <2>3, <3>1 DEF InOrder
        <3>3. /\ rs[i].prefix \in Int /\ rs[k].prefix \in Int
              /\ rs[i].target \in Int /\ rs[k].target \in Int
            <4>1. rs[i] \in RouteRecord /\ rs[k] \in RouteRecord
                BY <1>0, <2>3
            <4>2. \A r \in RouteRecord : r.prefix \in Int /\ r.target \in Int
                BY DEF RouteRecord
            <4> QED
                BY <4>1, <4>2
        <3>4. rs[i].prefix = rs[k].prefix => rs[i].target = rs[k].target
            BY <2>4, <2>5 DEF LeadsTo
        <3> QED
            BY <3>2, <3>3, <3>4 DEF Precedes
    <2>6. \A r \in ToSet(rs) : LeadsTo(r, d) /\ r # rs[k] => r.prefix < rs[k].prefix
        BY <1>0, <2>5
    <2> QED
        BY <1>0, <2>2, <2>3, <2>4, <2>6
<1> QED
    BY <1>2, <1>3

(* What is picked from a sequence, and that it keeps its order.            *)
LEMMA PickingInOrder ==
    ASSUME NEW S, NEW s \in Seq(S), NEW places \in SUBSET (1 .. Len(s)),
           NEW at \in Ascending(places)
    PROVE  /\ Picked(s, at) \in Seq(S) /\ Len(Picked(s, at)) \in Nat
           /\ \A k \in 1 .. Len(Picked(s, at)) :
                 at[k] \in places /\ Picked(s, at)[k] = s[at[k]]
           /\ \A j, k \in 1 .. Len(Picked(s, at)) : j < k => at[j] < at[k]
           /\ \A place \in places : \E k \in 1 .. Len(Picked(s, at)) : at[k] = place
<1>1. Len(s) \in Nat
    BY LenProperties
<1>2. IsFiniteSet(places)
    <2>1. IsFiniteSet(1 .. Len(s))
        BY <1>1, FS_Interval
    <2> QED
        BY <2>1, FS_Subset
<1> DEFINE n == Cardinality(places)
<1>3. n \in Nat
    BY <1>2, FS_CardinalityType
<1>4. /\ at \in [1 .. n -> places]
      /\ \A place \in places : \E k \in 1 .. n : at[k] = place
      /\ \A j, k \in 1 .. n : j < k => at[j] < at[k]
    BY DEF Ascending
<1> HIDE DEF n
<1>5. \A k \in 1 .. n : s[at[k]] \in S
    <2> SUFFICES ASSUME NEW k \in 1 .. n PROVE s[at[k]] \in S
        OBVIOUS
    <2>1. at[k] \in 1 .. Len(s)
        BY <1>4
    <2> QED
        BY <2>1, ElementOfSeq
<1>6. Picked(s, at) = [k \in 1 .. n |-> s[at[k]]]
    BY <1>4 DEF Picked
<1>7. Picked(s, at) \in [1 .. n -> S]
    BY <1>5, <1>6
<1>8. Picked(s, at) \in Seq(S) /\ Len(Picked(s, at)) = n
    <2>1. Picked(s, at) \in Seq(S)
        BY <1>3, <1>7, SeqDef
    <2>2. DOMAIN Picked(s, at) = 1 .. n /\ DOMAIN Picked(s, at) = 1 .. Len(Picked(s, at))
        BY <1>7, <2>1, LenProperties
    <2>3. Len(Picked(s, at)) \in Nat
        BY <2>1, LenProperties
    <2> QED
        BY <1>3, <2>1, <2>2, <2>3
<1> QED
    BY <1>3, <1>4, <1>6, <1>8

(* remove_matching takes the routes of a source and no others.             *)
LEMMA WithoutSourceKeeps ==
    ASSUME NEW rs \in Seq(RouteRecord), InOrder(rs), NEW a, NEW t \in WithoutSource(rs, a)
    PROVE  /\ t \in Seq(RouteRecord) /\ InOrder(t)
           /\ \A x : x \in ToSet(t) <=> x \in ToSet(rs) /\ x.source # a
<1> DEFINE places == {i \in 1 .. Len(rs) : rs[i].source # a}
<1>1. PICK at \in Ascending(places) : t = Picked(rs, at)
    <2>1. DOMAIN rs = 1 .. Len(rs)
        BY LenProperties
    <2> QED
        BY <2>1 DEF WithoutSource
<1>2. places \in SUBSET (1 .. Len(rs)) /\ \A i \in 1 .. Len(rs) : i \in places <=> rs[i].source # a
    OBVIOUS
<1> HIDE DEF places
<1>3. /\ t \in Seq(RouteRecord) /\ Len(t) \in Nat
      /\ \A k \in 1 .. Len(t) : at[k] \in places /\ t[k] = rs[at[k]]
      /\ \A j, k \in 1 .. Len(t) : j < k => at[j] < at[k]
      /\ \A place \in places : \E k \in 1 .. Len(t) : at[k] = place
    BY <1>1, <1>2, PickingInOrder
<1>4. InOrder(t)
    <2> SUFFICES ASSUME NEW i \in 1 .. Len(t), NEW j \in 1 .. Len(t), i < j
                 PROVE  Precedes(t[i], t[j])
        BY DEF InOrder
    <2>1. at[i] \in 1 .. Len(rs) /\ at[j] \in 1 .. Len(rs) /\ at[i] < at[j]
        BY <1>2, <1>3
    <2>2. Precedes(rs[at[i]], rs[at[j]])
        BY <2>1 DEF InOrder
    <2> QED
        BY <1>3, <2>2
<1>5. ASSUME NEW x
      PROVE  x \in ToSet(t) <=> x \in ToSet(rs) /\ x.source # a
    <2>1. x \in ToSet(t) <=> \E i \in 1 .. Len(t) : x = t[i]
        BY <1>3, PlacesOfSet
    <2>2. x \in ToSet(rs) <=> \E i \in 1 .. Len(rs) : x = rs[i]
        BY PlacesOfSet
    <2>3. ASSUME NEW i \in 1 .. Len(t), x = t[i]
          PROVE  x \in ToSet(rs) /\ x.source # a
        <3>1. at[i] \in 1 .. Len(rs) /\ x = rs[at[i]] /\ rs[at[i]].source # a
            BY <1>2, <1>3, <2>3
        <3> QED
            BY <2>2, <3>1
    <2>4. ASSUME NEW i \in 1 .. Len(rs), x = rs[i], x.source # a
          PROVE  \E k \in 1 .. Len(t) : x = t[k]
        <3>1. PICK k \in 1 .. Len(t) : at[k] = i
            BY <1>2, <1>3, <2>4
        <3>2. x = t[k]
            BY <1>3, <2>4, <3>1
        <3> QED
            BY <3>2
    <2> QED
        BY <2>1, <2>2, <2>3, <2>4
<1> QED
    BY <1>3, <1>4, <1>5

-----------------------------------------------------------------------------
(* The changes of the tables *)

RoutesInv ==
    /\ addresses \in Seq(Entry) /\ routes \in Seq(RouteRecord)
    /\ RoutesInOrder /\ SourcesAreOurs
    /\ CopiesAreContested /\ UncontestedNetworksAreRouted

LEMMA RouteMade ==
    ASSUME NEW target \in Addresses, NEW prefix \in 0 .. AddressBits,
           NEW source \in Addresses, NEW nextHop \in Addresses \cup {NoAddress}
    PROVE  Route(Network(target, prefix), prefix, source, nextHop) \in RouteRecord
<1>1. Network(target, prefix) \in Int
    BY NetworkIsNumber
<1> QED
    BY <1>1 DEF Route, RouteRecord

(* The route of an address, and the key of its network.                    *)
OwnRoute(e) == ConnectedRoute(e.address, e.prefix)

LEMMA OwnRouteProperties ==
    ASSUME NEW e \in Entry
    PROVE  /\ OwnRoute(e) \in RouteRecord /\ OwnRoute(e).source = e.address
           /\ KeyOf(e) = <<OwnRoute(e).target, OwnRoute(e).prefix>>
           /\ e = [address |-> e.address, prefix |-> e.prefix]
<1>1. e.address \in Addresses /\ e.prefix \in 0 .. AddressBits
      /\ e = [address |-> e.address, prefix |-> e.prefix]
    BY DEF Entry
<1>2. OwnRoute(e) \in RouteRecord
    BY <1>1, RouteMade DEF OwnRoute, ConnectedRoute
<1>3. /\ OwnRoute(e).source = e.address
      /\ OwnRoute(e).target = Network(e.address, e.prefix) /\ OwnRoute(e).prefix = e.prefix
    BY DEF OwnRoute, ConnectedRoute, Route
<1> QED
    BY <1>1, <1>2, <1>3 DEF KeyOf

(* A route that is written takes no network that is not contested by then. *)
LEMMA RouteWritten ==
    ASSUME NEW new \in RouteRecord, routes \in Seq(RouteRecord), RoutesInOrder,
           routes' = InsertOrUpdate(routes, new),
           NEW e \in Entry, OwnRoute(e) \in ToSet(routes),
           KeyOf(e) # <<new.target, new.prefix>>
    PROVE  OwnRoute(e) \in ToSet(routes')
<1>1. Updated(routes, new, routes')
    BY InsertOrUpdateUpdates DEF RoutesInOrder
<1>2. ~SameKey(OwnRoute(e), new)
    BY OwnRouteProperties DEF SameKey
<1> QED
    BY <1>1, <1>2 DEF Updated

LEMMA GrantKeepsRoutes ==
    ASSUME RoutesInv, NEW a \in Addresses, NEW prefix \in 0 .. AddressBits, GrantAddress(a, prefix)
    PROVE  RoutesInv'
<1> DEFINE e == [address |-> a, prefix |-> prefix]
           new == ConnectedRoute(a, prefix)
<1>1. /\ addresses' = Append(addresses, e)
      /\ routes' = InsertOrUpdate(routes, new)
      /\ contested' = contested \cup ContestedBy(e)
    BY DEF GrantAddress, WithAddress
<1>2. /\ e \in Entry /\ e.address = a /\ new = OwnRoute(e)
      /\ new \in RouteRecord /\ new.source = a /\ KeyOf(e) = <<new.target, new.prefix>>
    <2>1. e \in Entry /\ e.address = a /\ e.prefix = prefix
        BY DEF Entry
    <2>2. new = OwnRoute(e)
        BY <2>1 DEF OwnRoute
    <2> HIDE DEF e, new
    <2> QED
        BY <2>1, <2>2, OwnRouteProperties
<1> HIDE DEF e, new
<1>3. /\ addresses \in Seq(Entry) /\ routes \in Seq(RouteRecord) /\ RoutesInOrder
      /\ Len(addresses) \in Nat /\ \A i \in 1 .. Len(addresses) : addresses[i] \in Entry
                                           /\ addresses[i] \in ToSet(addresses)
    BY PlacesOfSet DEF RoutesInv
<1>4. /\ addresses' \in Seq(Entry) /\ Len(addresses') = Len(addresses) + 1
      /\ \A k \in 1 .. Len(addresses) : addresses'[k] = addresses[k]
      /\ addresses'[Len(addresses) + 1] = e
      /\ \A x : x \in ToSet(addresses') <=> x \in ToSet(addresses) \/ x = e
    <2> DEFINE t == Append(addresses, e)
    <2>1. /\ t \in Seq(Entry) /\ Len(t) = Len(addresses) + 1
          /\ \A k \in 1 .. Len(addresses) : t[k] = addresses[k]
          /\ t[Len(addresses) + 1] = e
          /\ \A x : x \in ToSet(t) <=> x \in ToSet(addresses) \/ x = e
        BY <1>2, <1>3, Appending
    <2>2. addresses' = t
        BY <1>1
    <2> HIDE DEF t
    <2> QED
        BY <2>1, <2>2
<1>5. Updated(routes, new, routes')
    BY <1>1, <1>2, <1>3, InsertOrUpdateUpdates DEF RoutesInOrder
<1>6. routes' \in Seq(RouteRecord) /\ RoutesInOrder'
    BY <1>5 DEF Updated, RoutesInOrder
<1>7. SourcesAreOurs'
    <2> SUFFICES ASSUME NEW r \in ToSet(routes')
                 PROVE  \E x \in ToSet(addresses') : x.address = r.source
        BY DEF SourcesAreOurs, ContainsAddress
    <2>1. r = new \/ r \in ToSet(routes)
        BY <1>5 DEF Updated
    <2>2. CASE r = new
        BY <1>2, <1>4, <2>2
    <2>3. CASE r \in ToSet(routes)
        BY <1>4, <2>3 DEF RoutesInv, SourcesAreOurs, ContainsAddress
    <2> QED
        BY <2>1, <2>2, <2>3
<1>8. ASSUME NEW x \in ToSet(addresses), KeyOf(x) = KeyOf(e) \/ x.address = a
      PROVE  KeyOf(x) \in ContestedBy(e) /\ KeyOf(e) \in ContestedBy(e)
    <2> DEFINE rivals == {y \in ToSet(addresses) : KeyOf(y) = KeyOf(e) \/ y.address = e.address}
    <2>1. x \in rivals
        BY <1>2, <1>8
    <2>2. ContestedBy(e) = {KeyOf(y) : y \in rivals \cup {e}}
        BY <2>1 DEF ContestedBy
    <2> HIDE DEF rivals
    <2> QED
        BY <2>1, <2>2
<1>9. CopiesAreContested'
    <2> SUFFICES ASSUME NEW i \in 1 .. Len(addresses'), NEW j \in 1 .. Len(addresses'), i # j,
                        addresses'[i].address = addresses'[j].address
                 PROVE  KeyOf(addresses'[i]) \in contested'
        BY DEF CopiesAreContested, KeyOf
    <2>1. CASE i = Len(addresses) + 1
        <3>1. j \in 1 .. Len(addresses)
            BY <1>3, <1>4, <2>1
        <3>2. addresses[j] \in ToSet(addresses) /\ addresses[j].address = a /\ addresses'[i] = e
            BY <1>2, <1>3, <1>4, <2>1, <3>1
        <3> QED
            BY <1>1, <1>8, <3>2
    <2>2. CASE j = Len(addresses) + 1
        <3>1. i \in 1 .. Len(addresses)
            BY <1>3, <1>4, <2>2
        <3>2. /\ addresses[i] \in ToSet(addresses) /\ addresses[i].address = a
              /\ addresses'[i] = addresses[i]
            BY <1>2, <1>3, <1>4, <2>2, <3>1
        <3> QED
            BY <1>1, <1>8, <3>2
    <2>3. CASE i # Len(addresses) + 1 /\ j # Len(addresses) + 1
        <3>1. i \in 1 .. Len(addresses) /\ j \in 1 .. Len(addresses)
            BY <1>3, <1>4, <2>3
        <3>2. addresses'[i] = addresses[i] /\ addresses'[j] = addresses[j]
            BY <1>4, <3>1
        <3>3. KeyOf(addresses[i]) \in contested
            BY <3>1, <3>2 DEF RoutesInv, CopiesAreContested
        <3> QED
            BY <1>1, <3>2, <3>3
    <2> QED
        BY <2>1, <2>2, <2>3
<1>10. UncontestedNetworksAreRouted'
    <2> SUFFICES ASSUME NEW x \in ToSet(addresses'), KeyOf(x) \notin contested'
                 PROVE  OwnRoute(x) \in ToSet(routes')
        BY DEF UncontestedNetworksAreRouted, OwnRoute, KeyOf
    <2>1. CASE x = e
        BY <1>2, <1>5, <2>1 DEF Updated
    <2>2. CASE x \in ToSet(addresses)
        <3>1. KeyOf(x) # KeyOf(e) /\ KeyOf(x) \notin contested
            BY <1>1, <1>8, <2>2
        <3>2. x \in Entry
            BY <1>3, <2>2, PlacesOfSet
        <3>3. OwnRoute(x) \in ToSet(routes)
            BY <2>2, <3>1 DEF RoutesInv, UncontestedNetworksAreRouted, OwnRoute
        <3> QED
            BY <1>1, <1>2, <1>3, <3>1, <3>2, <3>3, RouteWritten
    <2> QED
        BY <1>4, <2>1, <2>2
<1> QED
    BY <1>4, <1>6, <1>7, <1>9, <1>10 DEF RoutesInv

LEMMA AddressTakenOut ==
    ASSUME NEW s \in Seq(Entry), NEW a, ContainsAddress(s, a)
    PROVE  \E k \in 1 .. Len(s) : s[k].address = a /\ WithoutAddress(s, a) = RemoveAt(s, k)
<1> DEFINE found == {i \in 1 .. Len(s) : s[i].address = a}
<1>1. found # {}
    BY PlacesOfSet DEF ContainsAddress
<1>2. Min(found) \in found
    BY <1>1, LeastOfPlaces
<1>3. WithoutAddress(s, a) = RemoveAt(s, Min(found))
    BY <1>1 DEF WithoutAddress, RemoveFirstMatch, SelectInSeq
<1> QED
    BY <1>2, <1>3

LEMMA RemoveKeepsRoutes ==
    ASSUME RoutesInv, NEW a, RemoveAddress(a)
    PROVE  RoutesInv'
<1>1. /\ addresses \in Seq(Entry) /\ routes \in Seq(RouteRecord) /\ RoutesInOrder
      /\ Len(addresses) \in Nat
    BY LenProperties DEF RoutesInv
<1>2. /\ ContainsAddress(addresses, a) /\ routes' \in WithoutSource(routes, a)
      /\ addresses' = WithoutAddress(addresses, a) /\ contested' = contested
    BY DEF RemoveAddress
<1>3. PICK k \in 1 .. Len(addresses) :
            addresses[k].address = a /\ addresses' = RemoveAt(addresses, k)
    BY <1>1, <1>2, AddressTakenOut
<1> DEFINE from == [i \in 1 .. Len(addresses) - 1 |-> IF i < k THEN i ELSE i + 1]
<1>4. addresses' \in Seq(Entry) /\ Len(addresses') = Len(addresses) - 1
    BY <1>1, <1>3, TakingOut
<1>5. /\ \A i \in 1 .. Len(addresses) - 1 :
             from[i] \in 1 .. Len(addresses) /\ from[i] # k /\ addresses'[i] = addresses[from[i]]
      /\ \A i, j \in 1 .. Len(addresses) - 1 : i < j => from[i] < from[j]
      /\ \A m \in 1 .. Len(addresses) : m # k => \E i \in 1 .. Len(addresses) - 1 : from[i] = m
    BY <1>1, <1>3, WhatStays
<1> HIDE DEF from
<1>6. /\ routes' \in Seq(RouteRecord) /\ InOrder(routes')
      /\ \A x : x \in ToSet(routes') <=> x \in ToSet(routes) /\ x.source # a
    BY <1>1, <1>2, WithoutSourceKeeps DEF RoutesInOrder
<1>7. SourcesAreOurs'
    <2> SUFFICES ASSUME NEW r \in ToSet(routes')
                 PROVE  \E x \in ToSet(addresses') : x.address = r.source
        BY DEF SourcesAreOurs, ContainsAddress
    <2>1. r \in ToSet(routes) /\ r.source # a
        BY <1>6
    <2>2. PICK x \in ToSet(addresses) : x.address = r.source
        BY <2>1 DEF RoutesInv, SourcesAreOurs, ContainsAddress
    <2>3. PICK m \in 1 .. Len(addresses) : x = addresses[m]
        BY <1>1, PlacesOfSet
    <2>4. m # k
        BY <1>3, <2>1, <2>2, <2>3
    <2>5. PICK i \in 1 .. Len(addresses) - 1 : from[i] = m
        BY <1>5, <2>4
    <2>6. addresses'[i] = x /\ i \in 1 .. Len(addresses')
        BY <1>4, <1>5, <2>3, <2>5
    <2>7. addresses'[i] \in ToSet(addresses')
        BY <1>4, <2>6, PlacesOfSet
    <2> QED
        BY <2>2, <2>6, <2>7
<1>8. CopiesAreContested'
    <2> SUFFICES ASSUME NEW i \in 1 .. Len(addresses'), NEW j \in 1 .. Len(addresses'), i # j,
                        addresses'[i].address = addresses'[j].address
                 PROVE  KeyOf(addresses'[i]) \in contested'
        BY DEF CopiesAreContested, KeyOf
    <2>1. i \in 1 .. Len(addresses) - 1 /\ j \in 1 .. Len(addresses) - 1
        BY <1>4
    <2>2. /\ from[i] \in 1 .. Len(addresses) /\ from[j] \in 1 .. Len(addresses)
          /\ addresses'[i] = addresses[from[i]] /\ addresses'[j] = addresses[from[j]]
        BY <1>5, <2>1
    <2>3. from[i] # from[j]
        BY <1>1, <1>5, <2>1, <2>2
    <2>4. KeyOf(addresses[from[i]]) \in contested
        BY <2>2, <2>3 DEF RoutesInv, CopiesAreContested
    <2> QED
        BY <1>2, <2>2, <2>4
<1>9. UncontestedNetworksAreRouted'
    <2> SUFFICES ASSUME NEW x \in ToSet(addresses'), KeyOf(x) \notin contested'
                 PROVE  OwnRoute(x) \in ToSet(routes')
        BY DEF UncontestedNetworksAreRouted, OwnRoute, KeyOf
    <2>1. PICK i \in 1 .. Len(addresses) - 1 : x = addresses'[i]
        BY <1>4, PlacesOfSet
    <2>2. from[i] \in 1 .. Len(addresses) /\ from[i] # k /\ x = addresses[from[i]]
        BY <1>5, <2>1
    <2>3. x \in ToSet(addresses) /\ x \in Entry
        BY <1>1, <2>2, PlacesOfSet
    <2>4. x.address # a
        BY <1>2, <1>3, <2>2 DEF RoutesInv, CopiesAreContested
    <2>5. OwnRoute(x) \in ToSet(routes)
        BY <1>2, <2>3 DEF RoutesInv, UncontestedNetworksAreRouted, OwnRoute
    <2>6. OwnRoute(x).source # a
        BY <2>3, <2>4, OwnRouteProperties
    <2> QED
        BY <1>6, <2>5, <2>6
<1>10. RoutesInOrder'
    BY <1>6 DEF RoutesInOrder
<1> QED
    BY <1>4, <1>6, <1>7, <1>8, <1>9, <1>10 DEF RoutesInv

LEMMA AddRouteKeepsRoutes ==
    ASSUME RoutesInv, NEW request \in RouteRequests, AddRoute(request)
    PROVE  RoutesInv'
<1> DEFINE source == RouteSource(addresses, request.nextHop, request.source)
           target == Network(request.target, request.prefix)
           new == Route(target, request.prefix, source, request.nextHop)
           verdict == RouteAddVerdict(addresses, request.nextHop, request.source)
<1>1. /\ routes' = IF verdict = "ok" THEN InsertOrUpdate(routes, new) ELSE routes
      /\ contested' = contested \cup (IF verdict = "ok" THEN {<<target, request.prefix>>} ELSE {})
      /\ addresses' = addresses
    BY DEF AddRoute
<1>2. /\ addresses \in Seq(Entry) /\ routes \in Seq(RouteRecord) /\ RoutesInOrder
      /\ \A x \in ToSet(addresses) : x \in Entry
    BY PlacesOfSet DEF RoutesInv
<1>3. verdict = "ok" => ContainsAddress(addresses, source)
    BY DEF RouteAddVerdict
<1>4. /\ request.target \in Addresses /\ request.prefix \in 0 .. AddressBits
      /\ request.nextHop \in Addresses
    BY PathAssumption DEF PathAssumption
<1>5. new.source = source /\ new.target = target /\ new.prefix = request.prefix
    BY DEF Route
<1>6. ASSUME verdict = "ok"
      PROVE  new \in RouteRecord
    <2> HIDE DEF source
    <2>1. PICK x \in ToSet(addresses) : x.address = source
        BY <1>3, <1>6 DEF ContainsAddress
    <2>2. x \in Entry
        BY <1>2
    <2>3. source \in Addresses
        BY <2>1, <2>2 DEF Entry
    <2> QED
        BY <1>4, <2>3, RouteMade
<1> HIDE DEF source, target, new, verdict
<1>7. CASE verdict # "ok"
    <2>1. routes' = routes /\ contested' = contested
        BY <1>1, <1>7
    <2> QED
        BY <1>1, <2>1
           DEF RoutesInv, RoutesInOrder, SourcesAreOurs, ContainsAddress, CopiesAreContested,
               UncontestedNetworksAreRouted, KeyOf
<1>8. CASE verdict = "ok"
    <2>1. routes' = InsertOrUpdate(routes, new)
          /\ contested' = contested \cup {<<target, request.prefix>>}
        BY <1>1, <1>8
    <2>2. Updated(routes, new, routes') /\ new \in RouteRecord
        BY <1>2, <1>6, <1>8, <2>1, InsertOrUpdateUpdates DEF RoutesInOrder
    <2>3. routes' \in Seq(RouteRecord) /\ RoutesInOrder'
        BY <2>2 DEF Updated, RoutesInOrder
    <2>4. SourcesAreOurs'
        <3> SUFFICES ASSUME NEW r \in ToSet(routes')
                     PROVE  \E x \in ToSet(addresses) : x.address = r.source
            BY <1>1 DEF SourcesAreOurs, ContainsAddress
        <3>1. r = new \/ r \in ToSet(routes)
            BY <2>2 DEF Updated
        <3>2. CASE r = new
            BY <1>3, <1>5, <1>8, <3>2 DEF ContainsAddress
        <3>3. CASE r \in ToSet(routes)
            BY <3>3 DEF RoutesInv, SourcesAreOurs, ContainsAddress
        <3> QED
            BY <3>1, <3>2, <3>3
    <2>5. CopiesAreContested'
        BY <1>1, <2>1 DEF RoutesInv, CopiesAreContested, KeyOf
    <2>6. UncontestedNetworksAreRouted'
        <3> SUFFICES ASSUME NEW x \in ToSet(addresses), KeyOf(x) \notin contested'
                     PROVE  OwnRoute(x) \in ToSet(routes')
            BY <1>1 DEF UncontestedNetworksAreRouted, OwnRoute, KeyOf
        <3>1. KeyOf(x) # <<new.target, new.prefix>> /\ KeyOf(x) \notin contested
            BY <1>5, <2>1
        <3>2. OwnRoute(x) \in ToSet(routes)
            BY <3>1 DEF RoutesInv, UncontestedNetworksAreRouted, OwnRoute
        <3>3. x \in Entry
            BY <1>2
        <3> QED
            BY <1>2, <2>1, <2>2, <3>1, <3>2, <3>3, RouteWritten
    <2>7. addresses' \in Seq(Entry)
        BY <1>1, <1>2
    <2> QED
        BY <2>3, <2>4, <2>5, <2>6, <2>7 DEF RoutesInv
<1> QED
    BY <1>7, <1>8

-----------------------------------------------------------------------------
(* The sizes of frames *)

(* A sequence of n bytes, whatever they are.                               *)
Sized(s, n) == n \in Nat /\ Len(s) = n /\ \E S : s \in Seq(S)

LEMMA SizedSequence ==
    ASSUME NEW S, NEW s \in Seq(S)
    PROVE  Sized(s, Len(s))
BY LenProperties DEF Sized

LEMMA SizedConcat ==
    ASSUME NEW s, NEW m, Sized(s, m), NEW t, NEW n, Sized(t, n)
    PROVE  Sized(s \o t, m + n)
<1>1. PICK S : s \in Seq(S)
    BY DEF Sized
<1>2. PICK T : t \in Seq(T)
    BY DEF Sized
<1>3. s \in Seq(S \cup T) /\ t \in Seq(S \cup T)
    BY <1>1, <1>2, SeqMonotonic
<1>4. s \o t \in Seq(S \cup T) /\ Len(s \o t) = Len(s) + Len(t)
    BY <1>3, ConcatProperties
<1>5. m \in Nat /\ n \in Nat /\ Len(s) = m /\ Len(t) = n
    BY DEF Sized
<1>6. m + n \in Nat /\ Len(s \o t) = m + n
    BY <1>4, <1>5
<1> QED
    BY <1>4, <1>6 DEF Sized

(* w is s and then t, place by place.                                      *)
Joins(w, s, m, t, n) ==
    /\ Sized(w, m + n)
    /\ \A i \in 1 .. m : w[i] = s[i]
    /\ \A i \in 1 .. n : w[m + i] = t[i]

LEMMA ConcatJoins ==
    ASSUME NEW s, NEW m, Sized(s, m), NEW t, NEW n, Sized(t, n)
    PROVE  Joins(s \o t, s, m, t, n)
<1>1. PICK S : s \in Seq(S)
    BY DEF Sized
<1>2. PICK T : t \in Seq(T)
    BY DEF Sized
<1>3. s \in Seq(S \cup T) /\ t \in Seq(S \cup T)
    BY <1>1, <1>2, SeqMonotonic
<1>4. m \in Nat /\ n \in Nat /\ Len(s) = m /\ Len(t) = n
    BY DEF Sized
<1>5. \A i \in 1 .. m + n : (s \o t)[i] = IF i <= m THEN s[i] ELSE t[i - m]
    BY <1>3, <1>4, ConcatProperties
<1>6. \A i \in 1 .. m : i \in 1 .. m + n /\ i <= m
    BY <1>4
<1>7. \A i \in 1 .. n : m + i \in 1 .. m + n /\ ~(m + i <= m) /\ (m + i) - m = i
    BY <1>4
<1>8. Sized(s \o t, m + n)
    BY SizedConcat
<1> DEFINE w == s \o t
<1>9. \A i \in 1 .. m + n : w[i] = IF i <= m THEN s[i] ELSE t[i - m]
    BY <1>5
<1>10. Sized(w, m + n)
    BY <1>8
<1> HIDE DEF w
<1>11. (\A i \in 1 .. m : w[i] = s[i]) /\ (\A i \in 1 .. n : w[m + i] = t[i])
    BY <1>6, <1>7, <1>9
<1>12. Joins(w, s, m, t, n)
    BY <1>10, <1>11 DEF Joins
<1> QED
    BY <1>12 DEF w

LEMMA SizedFunction ==
    ASSUME NEW n \in Nat, NEW f, f = [i \in 1 .. n |-> f[i]]
    PROVE  Sized(f, n)
<1>1. f \in [1 .. n -> {f[i] : i \in 1 .. n}]
    OBVIOUS
<1>2. f \in Seq({f[i] : i \in 1 .. n})
    BY <1>1, SeqDef
<1>3. Len(f) = n
    BY <1>1, <1>2, LenProperties
<1> QED
    BY <1>2, <1>3 DEF Sized

LEMMA SizedTuples ==
    /\ Sized(<<>>, 0)
    /\ \A a : Sized(<<a>>, 1)
    /\ \A a, b : Sized(<<a, b>>, 2)
    /\ \A a, b, c : Sized(<<a, b, c>>, 3)
    /\ \A a, b, c, d : Sized(<<a, b, c, d>>, 4)
<1>1. <<>> \in Seq({}) /\ Len(<<>>) = 0
    OBVIOUS
<1>2. ASSUME NEW a
      PROVE  Sized(<<a>>, 1)
    <2>1. <<a>> \in Seq({a}) /\ Len(<<a>>) = 1
        OBVIOUS
    <2> QED
        BY <2>1 DEF Sized
<1>3. ASSUME NEW a, NEW b
      PROVE  Sized(<<a, b>>, 2)
    <2>1. <<a, b>> \in Seq({a, b}) /\ Len(<<a, b>>) = 2
        OBVIOUS
    <2> QED
        BY <2>1 DEF Sized
<1>4. Sized(<<>>, 0)
    BY <1>1 DEF Sized
<1>5. ASSUME NEW a, NEW b, NEW c
      PROVE  Sized(<<a, b, c>>, 3)
    <2>1. <<a, b, c>> \in Seq({a, b, c}) /\ Len(<<a, b, c>>) = 3
        OBVIOUS
    <2> QED
        BY <2>1 DEF Sized
<1>6. ASSUME NEW a, NEW b, NEW c, NEW d
      PROVE  Sized(<<a, b, c, d>>, 4)
    <2>1. <<a, b, c, d>> \in Seq({a, b, c, d}) /\ Len(<<a, b, c, d>>) = 4
        OBVIOUS
    <2> QED
        BY <2>1 DEF Sized
<1> QED
    BY <1>2, <1>3, <1>4, <1>5, <1>6

LEMMA SizedNumbers ==
    /\ \A n : Sized(Be16(n), 2)
    /\ \A a : Sized(Octets(a), 4)
    /\ \A bytes : Sized(Checksum(bytes), 2)
    /\ \A n, width : width \in Nat => Sized(Le(n, width), width)
<1>1. \A n : Sized(Be16(n), 2)
    BY SizedTuples DEF Be16
<1>2. ASSUME NEW a
      PROVE  Sized(Octets(a), 4)
    <2>1. Sized(Be16(a \div 65536) \o Be16(a % 65536), 2 + 2)
        BY <1>1, SizedConcat
    <2>2. 2 + 2 = 4
        OBVIOUS
    <2> QED
        BY <2>1, <2>2 DEF Octets
<1>3. ASSUME NEW bytes
      PROVE  \E n : Checksum(bytes) = Be16(n)
    BY DEF Checksum
<1>4. ASSUME NEW n, NEW width \in Nat
      PROVE  Sized(Le(n, width), width)
    <2>1. Le(n, width) = [i \in 1 .. width |-> Le(n, width)[i]]
        BY DEF Le
    <2> QED
        BY <2>1, SizedFunction
<1>5. \A bytes : Sized(Checksum(bytes), 2)
    BY <1>1, <1>3
<1> QED
    BY <1>1, <1>2, <1>4, <1>5

Mac == [1 .. 6 -> 0 .. 255]

LEMMA MacsAreSized ==
    ASSUME NEW mac \in Mac
    PROVE  Sized(mac, 6)
<1>1. mac = [i \in 1 .. 6 |-> mac[i]]
    BY DEF Mac
<1> QED
    BY <1>1, SizedFunction

(* A part of anything is a sequence of that many bytes.                    *)
LEMMA SliceIsSized ==
    ASSUME NEW bytes, NEW m \in Int, NEW n \in Int
    PROVE  Sized(SubSeq(bytes, m, n), IF m <= n THEN n - m + 1 ELSE 0)
<1> DEFINE S == {bytes[i] : i \in m .. n}
<1>1. \A i \in m .. n : bytes[i] \in S
    OBVIOUS
<1> HIDE DEF S
<1>2. /\ SubSeq(bytes, m, n) \in Seq(S)
      /\ Len(SubSeq(bytes, m, n)) = IF m <= n THEN n - m + 1 ELSE 0
    BY <1>1, SubSeqProperties
<1>3. (IF m <= n THEN n - m + 1 ELSE 0) \in Nat
    OBVIOUS
<1> QED
    BY <1>2, <1>3 DEF Sized

(* The places of what Ethernet carries that become those of Readable.      *)
Leading(payload) == \A i \in {1, 3, 4, 5, 7, 8} : payload[i] \in Int

LEMMA LeadingReads ==
    ASSUME NEW front, Sized(front, 14), NEW payload, NEW n, Sized(payload, n), n >= 8,
           Leading(payload)
    PROVE  Readable(front \o payload)
<1> DEFINE whole == front \o payload
<1>1. Joins(whole, front, 14, payload, n)
    BY ConcatJoins
<1> HIDE DEF whole
<1>2. n \in Nat
    BY DEF Sized
<1>3. Sized(whole, 14 + n) /\ \A i \in 1 .. n : whole[14 + i] = payload[i]
    BY <1>1 DEF Joins
<1>4. ASSUME NEW i \in {15, 17, 18, 19, 21, 22}
      PROVE  whole[i] \in Int
    <2>1. i - 14 \in 1 .. n /\ i - 14 \in {1, 3, 4, 5, 7, 8} /\ 14 + (i - 14) = i
        BY <1>2
    <2>2. whole[14 + (i - 14)] = payload[i - 14]
        BY <1>3, <2>1
    <2> QED
        BY <2>1, <2>2 DEF Leading
<1>5. Len(whole) >= 22 /\ \E S : whole \in Seq(S)
    BY <1>2, <1>3 DEF Sized
<1>6. Readable(whole)
    BY <1>4, <1>5 DEF Readable
<1> QED
    BY <1>6 DEF whole

(* EthernetHandler::send: a frame fits, or the assertion fails.            *)
LEMMA SendEthernetFits ==
    ASSUME NEW mac, Sized(mac, 6), NEW destination, Sized(destination, 6), NEW etherType,
           NEW payload, NEW n, Sized(payload, n), n >= 8, Leading(payload)
    PROVE  LET attempt == SendEthernet(mac, destination, etherType, payload)
           IN  \/ /\ attempt.result = "sent"
                  /\ Len(attempt.bytes) <= Mtu /\ Readable(attempt.bytes)
               \/ attempt.result = "panic" /\ 14 + n > Mtu
<1> DEFINE header == EthernetHeader(etherType, mac, destination)
           type == Be16(EtherTypes[etherType])
<1>1. header.vlan = <<>> /\ header.destination = destination /\ header.source = mac
      /\ header.etherType = etherType
    BY DEF EthernetHeader
<1>2. EthernetLength(header) = 14
    BY <1>1 DEF EthernetLength
<1>3. WriteEthernet(header) = ((destination \o mac) \o <<>>) \o type
    BY <1>1 DEF WriteEthernet
<1>4. Sized(WriteEthernet(header), 14)
    <2>1. Sized(type, 2) /\ Sized(<<>>, 0)
        BY SizedNumbers, SizedTuples
    <2> HIDE DEF type
    <2>2. Sized(destination \o mac, 6 + 6)
        BY SizedConcat
    <2>3. Sized((destination \o mac) \o <<>>, (6 + 6) + 0)
        BY <2>1, <2>2, SizedConcat
    <2>4. Sized(((destination \o mac) \o <<>>) \o type, ((6 + 6) + 0) + 2)
        BY <2>1, <2>3, SizedConcat
    <2>5. ((6 + 6) + 0) + 2 = 14
        OBVIOUS
    <2> QED
        BY <1>3, <2>4, <2>5
<1>5. Sized(WriteEthernet(header) \o payload, 14 + n)
    BY <1>4, SizedConcat
<1>6. /\ Len(WriteEthernet(header) \o payload) = 14 + n
      /\ Len(payload) = n /\ n \in Nat /\ Mtu \in Nat
    BY <1>5, PathAssumption DEF Sized, PathAssumption
<1>7. Fits(header, payload) <=> 14 + n <= Mtu
    BY <1>2, <1>6 DEF Fits
<1>8. SendEthernet(mac, destination, etherType, payload) =
          IF Fits(header, payload)
          THEN [result |-> "sent", bytes |-> WriteEthernet(header) \o payload]
          ELSE Failed("panic")
    BY DEF SendEthernet
<1>11. Readable(WriteEthernet(header) \o payload)
    BY <1>4, LeadingReads
<1> HIDE DEF header
<1>9. CASE Fits(header, payload)
    BY <1>6, <1>7, <1>8, <1>9, <1>11
<1>10. CASE ~Fits(header, payload)
    <2>1. SendEthernet(mac, destination, etherType, payload) = [result |-> "panic", bytes |-> <<>>]
        BY <1>8, <1>10 DEF Failed
    <2> QED
        BY <1>6, <1>7, <1>10, <2>1
<1> QED
    BY <1>9, <1>10

(* Two bytes after two, and four after four.                               *)
LEMMA JoinedPairs ==
    ASSUME NEW w, NEW s, NEW t, Joins(w, s, 2, t, 2)
    PROVE  /\ Sized(w, 2 + 2) /\ Sized(w, 4)
           /\ w[1] = s[1] /\ w[2] = s[2] /\ w[3] = t[1] /\ w[4] = t[2]
<1>1. /\ Sized(w, 2 + 2)
      /\ \A i \in 1 .. 2 : w[i] = s[i]
      /\ \A i \in 1 .. 2 : w[2 + i] = t[i]
    BY DEF Joins
<1>2. w[2 + 1] = t[1] /\ w[2 + 2] = t[2] /\ w[1] = s[1] /\ w[2] = s[2]
    BY <1>1
<1>3. 2 + 1 = 3 /\ 2 + 2 = 4
    OBVIOUS
<1> QED
    BY <1>1, <1>2, <1>3

(* The first eight places, four by four; what follows leaves them alone.    *)
LEMMA FoursLead ==
    ASSUME NEW s, Sized(s, 4), s[1] \in Int, s[3] \in Int, s[4] \in Int,
           NEW t, Sized(t, 4), t[1] \in Int, t[3] \in Int, t[4] \in Int
    PROVE  Sized(s \o t, 8) /\ Leading(s \o t)
<1> DEFINE w == s \o t
<1>1. Joins(w, s, 4, t, 4)
    BY ConcatJoins
<1> HIDE DEF w
<1>2. Sized(w, 4 + 4) /\ w[1] = s[1] /\ w[3] = s[3] /\ w[4] = s[4]
    BY <1>1 DEF Joins
<1>3. w[4 + 1] = t[1] /\ w[4 + 3] = t[3] /\ w[4 + 4] = t[4]
    BY <1>1 DEF Joins
<1>4. 4 + 4 = 8 /\ 4 + 1 = 5 /\ 4 + 3 = 7
    OBVIOUS
<1>5. Sized(w, 8)
    BY <1>2, <1>4
<1>6. /\ w[1] \in Int /\ w[3] \in Int /\ w[4] \in Int
      /\ w[5] \in Int /\ w[7] \in Int /\ w[8] \in Int
    BY <1>2, <1>3, <1>4
<1>7. Leading(w)
    BY <1>6 DEF Leading
<1> QED
    BY <1>5, <1>7 DEF w

LEMMA StillLeading ==
    ASSUME NEW s, NEW m, Sized(s, m), m >= 8, Leading(s), NEW t, NEW n, Sized(t, n)
    PROVE  Sized(s \o t, m + n) /\ Leading(s \o t) /\ m + n >= 8
<1> DEFINE w == s \o t
<1>1. Joins(w, s, m, t, n)
    BY ConcatJoins
<1> HIDE DEF w
<1>2. m \in Nat /\ n \in Nat
    BY DEF Sized
<1>3. Sized(w, m + n) /\ \A i \in 1 .. m : w[i] = s[i]
    BY <1>1 DEF Joins
<1>4. \A i \in {1, 3, 4, 5, 7, 8} : i \in 1 .. m
    BY <1>2
<1>5. Leading(w)
    BY <1>3, <1>4 DEF Leading
<1>6. m + n >= 8
    BY <1>2
<1> QED
    BY <1>3, <1>5, <1>6 DEF w

LEMMA WordsAreNumbers == Words \subseteq Int
BY DEF Words

LEMMA NumbersAreBytes ==
    ASSUME NEW n \in Int
    PROVE  Be16(n)[1] \in Int /\ Be16(n)[2] \in Int
<1>1. Be16(n)[1] = n \div 256 /\ Be16(n)[2] = n % 256
    BY DEF Be16
<1>2. n \div 256 \in Int /\ n % 256 \in Int
    OBVIOUS
<1> QED
    BY <1>1, <1>2

LEMMA Ipv4HeaderIsSized ==
    ASSUME NEW protocol, NEW source, NEW destination, NEW length \in Nat
    PROVE  LET written == WriteIpv4(Ipv4Header(protocol, source, destination, length, Identification))
           IN  Sized(written, 20) /\ Leading(written)
<1> DEFINE h == Ipv4Header(protocol, source, destination, length, Identification)
<1>h. /\ h.words = 5 /\ h.totalLength = 20 + length
      /\ h.fragment.identification = Identification
      /\ h.fragment.doNotFragment = 1 /\ h.fragment.moreFragments = 0 /\ h.fragment.offset = 0
    BY DEF Ipv4Header
<1> HIDE DEF h
<1> DEFINE fragment == WriteFragment(h.fragment)
           first == <<64 + h.words, WriteService(h.service)>>
           second == Be16(h.totalLength)
           fourth == <<h.timeToLive, Protocols[h.protocol]>>
           flags == h.fragment.doNotFragment * 16384 + h.fragment.moreFragments * 8192
                        + (h.fragment.offset % 8192)
           eight == (first \o second) \o fragment
           before == eight \o fourth
           after == Octets(h.source) \o Octets(h.destination)
           sum == Checksum((before \o <<0, 0>>) \o after)
<1>1. WriteIpv4(h) = (before \o sum) \o after
    BY DEF WriteIpv4
<1>2. /\ Sized(fragment, 2 + 2)
      /\ fragment[1] \in Int /\ fragment[3] \in Int /\ fragment[4] \in Int
    <2> DEFINE id == Be16(h.fragment.identification)
               rest == Be16(flags)
    <2>1. fragment = id \o rest
        BY DEF WriteFragment
    <2>2. Sized(id, 2) /\ Sized(rest, 2)
        BY SizedNumbers
    <2>3. Identification \in Int /\ flags \in Int
        BY <1>h, PathAssumption, WordsAreNumbers DEF PathAssumption
    <2>4. id[1] \in Int /\ rest[1] \in Int /\ rest[2] \in Int
        BY <1>h, <2>3, NumbersAreBytes
    <2> HIDE DEF id, rest
    <2>5. Joins(fragment, id, 2, rest, 2)
        BY <2>1, <2>2, ConcatJoins
    <2> HIDE DEF fragment
    <2>6. Sized(fragment, 2 + 2) /\ fragment[1] = id[1] /\ fragment[3] = rest[1]
          /\ fragment[4] = rest[2]
        BY <2>5, JoinedPairs
    <2> QED
        BY <2>4, <2>6
<1>3. Sized(first, 2) /\ Sized(second, 2) /\ Sized(fourth, 2) /\ Sized(sum, 2)
    BY SizedNumbers, SizedTuples
<1>11. first[1] \in Int /\ second[1] \in Int /\ second[2] \in Int
    <2>1. first[1] = 64 + h.words
        OBVIOUS
    <2>2. 64 + h.words \in Int /\ h.totalLength \in Int
        BY <1>h
    <2> QED
        BY <2>1, <2>2, NumbersAreBytes
<1>4. Sized(after, 4 + 4)
    BY SizedNumbers, SizedConcat
<1> HIDE DEF flags, fragment, first, second, fourth, after, sum
<1>5. Sized(eight, 8) /\ Leading(eight)
    <2> DEFINE four == first \o second
    <2>1. Joins(four, first, 2, second, 2)
        BY <1>3, ConcatJoins
    <2> HIDE DEF four
    <2>2. Sized(four, 4) /\ four[1] = first[1] /\ four[3] = second[1] /\ four[4] = second[2]
        BY <2>1, JoinedPairs
    <2>3. four[1] \in Int /\ four[3] \in Int /\ four[4] \in Int
        BY <1>11, <2>2
    <2>4. Sized(four \o fragment, 8) /\ Leading(four \o fragment)
        BY <1>2, <2>2, <2>3, FoursLead
    <2> QED
        BY <2>4 DEF four
<1> HIDE DEF eight
<1>6. Sized(before, 8 + 2) /\ Leading(before) /\ 8 + 2 >= 8
    BY <1>3, <1>5, StillLeading
<1> HIDE DEF before
<1>7. Sized(before \o sum, (8 + 2) + 2) /\ Leading(before \o sum) /\ (8 + 2) + 2 >= 8
    BY <1>3, <1>6, StillLeading
<1> DEFINE most == before \o sum
<1> HIDE DEF most
<1>8. Sized(most, 12) /\ Leading(most)
    BY <1>7 DEF most
<1>9. Sized(most \o after, 12 + (4 + 4)) /\ Leading(most \o after)
    BY <1>4, <1>8, StillLeading
<1>10. Sized(WriteIpv4(h), 20) /\ Leading(WriteIpv4(h))
    BY <1>1, <1>9 DEF most
<1> QED
    BY <1>10 DEF h

LEMMA PacketLeads ==
    ASSUME NEW protocol, NEW source, NEW destination, NEW payload, NEW n, Sized(payload, n)
    PROVE  LET header == Ipv4Header(protocol, source, destination, Len(payload), Identification)
           IN  Sized(WriteIpv4(header) \o payload, 20 + n) /\ Leading(WriteIpv4(header) \o payload)
<1> DEFINE header == Ipv4Header(protocol, source, destination, Len(payload), Identification)
           written == WriteIpv4(header)
<1>1. Len(payload) \in Nat
    BY DEF Sized
<1>2. Sized(written, 20) /\ Leading(written) /\ 20 >= 8
    BY <1>1, Ipv4HeaderIsSized
<1> HIDE DEF written
<1>3. Sized(written \o payload, 20 + n) /\ Leading(written \o payload)
    BY <1>2, StillLeading
<1> QED
    BY <1>3 DEF written

(* IPv4Handler::send lets through what leaves no room for the header below. *)
LEMMA SendIpv4Fits ==
    ASSUME NEW host, host.mac \in Mac, host.neighbourMac \in Mac,
           NEW source, NEW destination, NEW protocol, NEW payload, NEW n, Sized(payload, n)
    PROVE  LET attempt == SendIpv4(host, source, destination, protocol, payload)
           IN  /\ attempt.result = "sent" => Len(attempt.bytes) <= Mtu /\ Readable(attempt.bytes)
               /\ attempt.result = "panic" => n + 20 <= Mtu /\ n + 34 > Mtu
<1> DEFINE route == Lookup(host.routes, destination)
           from == IF source = Unspecified THEN route.source ELSE source
           header == Ipv4Header(protocol, from, destination, Len(payload), Identification)
           nextHop == IF route.nextHop = NoAddress THEN destination ELSE route.nextHop
           below == SendEthernet(host.mac, host.neighbourMac, "IPv4", WriteIpv4(header) \o payload)
           attempt == SendIpv4(host, source, destination, protocol, payload)
<1>1. attempt =
          IF Len(payload) < 8 THEN Failed("PayloadTooShort")
          ELSE IF Len(payload) + 20 > Mtu THEN Failed("PayloadTooLarge")
          ELSE IF route = NoRoute THEN Failed("NoRouteToHost")
          ELSE IF nextHop \notin host.neighbours THEN Failed("ArpTimeout")
          ELSE below
    BY DEF SendIpv4
<1>2. n \in Nat /\ Len(payload) = n /\ Mtu \in Nat
    BY PathAssumption DEF Sized, PathAssumption
<1>3. \/ below.result = "sent" /\ Len(below.bytes) <= Mtu /\ Readable(below.bytes)
      \/ below.result = "panic" /\ 14 + (20 + n) > Mtu
    <2>1. Sized(WriteIpv4(header) \o payload, 20 + n) /\ Leading(WriteIpv4(header) \o payload)
        BY <1>2, PacketLeads
    <2>2. Sized(host.mac, 6) /\ Sized(host.neighbourMac, 6)
        BY MacsAreSized
    <2>3. 20 + n >= 8
        BY <1>2
    <2> HIDE DEF header
    <2> QED
        BY <2>1, <2>2, <2>3, SendEthernetFits
<1>4. \A result : Failed(result).result = result
    BY DEF Failed
<1> HIDE DEF below, attempt, route, nextHop
<1>5. CASE attempt = below /\ ~(Len(payload) + 20 > Mtu)
    BY <1>2, <1>3, <1>5 DEF attempt
<1>6. CASE \E result \in {"PayloadTooShort", "PayloadTooLarge", "NoRouteToHost", "ArpTimeout"} :
              attempt = Failed(result)
    BY <1>4, <1>6 DEF attempt
<1> QED
    BY <1>1, <1>5, <1>6

LEMMA DatagramIsSized ==
    ASSUME NEW source, NEW destination, NEW data, NEW n, Sized(data, n)
    PROVE  Sized(Datagram(source, destination, data), 8 + n)
<1> DEFINE plain == UdpHeader(Port, Port, Len(data))
           sum == UdpChecksum(plain, source, destination, data)
           header == [plain EXCEPT !.checksum = sum]
<1>1. Sized(sum, 2)
    <2>1. \A bytes : Sized(Checksum(bytes), 2)
        BY SizedNumbers
    <2>2. Sized(<<255, 255>>, 2)
        BY SizedTuples
    <2> QED
        BY <2>1, <2>2 DEF UdpChecksum
<1>2. header.checksum = sum
    BY DEF UdpHeader
<1> HIDE DEF sum, plain
<1>3. Sized(WriteUdp(header), 8)
    <2> HIDE DEF header
    <2>1. /\ Sized(Be16(header.sourcePort), 2) /\ Sized(Be16(header.destinationPort), 2)
          /\ Sized(Be16(header.length), 2)
        BY SizedNumbers
    <2>2. Sized(Be16(header.sourcePort) \o Be16(header.destinationPort), 2 + 2)
        BY <2>1, SizedConcat
    <2>3. Sized((Be16(header.sourcePort) \o Be16(header.destinationPort)) \o Be16(header.length),
                (2 + 2) + 2)
        BY <2>1, <2>2, SizedConcat
    <2>4. Sized(WriteUdp(header), ((2 + 2) + 2) + 2)
        BY <1>1, <1>2, <2>3, SizedConcat DEF WriteUdp
    <2>5. ((2 + 2) + 2) + 2 = 8
        OBVIOUS
    <2> QED
        BY <2>4, <2>5
<1>4. Datagram(source, destination, data) = WriteUdp(header) \o data
    BY DEF Datagram, sum, plain
<1> HIDE DEF header
<1> QED
    BY <1>3, <1>4, SizedConcat

LEMMA IcmpIsSized ==
    ASSUME NEW front, Sized(front, 2), NEW body, NEW n, Sized(body, n)
    PROVE  Sized(WriteIcmp(front, body), 4 + n)
<1> DEFINE sum == Checksum((front \o <<0, 0>>) \o body)
<1>1. WriteIcmp(front, body) = (front \o sum) \o body
    BY DEF WriteIcmp
<1>2. Sized(sum, 2)
    BY SizedNumbers
<1> HIDE DEF sum
<1>3. Sized(front \o sum, 2 + 2)
    BY <1>2, SizedConcat
<1>4. Sized((front \o sum) \o body, (2 + 2) + n)
    BY <1>3, SizedConcat
<1>5. 2 + 2 = 4
    OBVIOUS
<1> QED
    BY <1>1, <1>4, <1>5

LEMMA EchoIsSized ==
    ASSUME NEW kind, NEW identifier, NEW sequence, NEW data, NEW n, Sized(data, n)
    PROVE  Sized(WriteEcho(Echo(kind, identifier, sequence, data)), 8 + n)
<1> DEFINE front == <<IcmpTypes[kind], 0>>
           body == (Be16(identifier) \o Be16(sequence)) \o data
<1>1. WriteEcho(Echo(kind, identifier, sequence, data)) = WriteIcmp(front, body)
    BY DEF WriteEcho, Echo
<1>2. Sized(front, 2) /\ Sized(Be16(identifier), 2) /\ Sized(Be16(sequence), 2)
    BY SizedTuples, SizedNumbers
<1> HIDE DEF front
<1>3. Sized(body, (2 + 2) + n)
    <2>1. Sized(Be16(identifier) \o Be16(sequence), 2 + 2)
        BY <1>2, SizedConcat
    <2> QED
        BY <2>1, SizedConcat
<1> HIDE DEF body
<1>4. Sized(WriteIcmp(front, body), 4 + ((2 + 2) + n))
    BY <1>2, <1>3, IcmpIsSized
<1>5. 4 + ((2 + 2) + n) = 8 + n
    BY DEF Sized
<1> QED
    BY <1>1, <1>4, <1>5

(* EchoMessageDataUnix::write_to_buffer                                    *)
LEMMA UnixDataIsSized ==
    ASSUME NEW d
    PROVE  \E n : Sized(WriteUnixData(d), n)
<1> DEFINE clock == IF d.monotonic = <<>> THEN <<>> ELSE Le(d.monotonic[1], 16)
           stamps == (Le(d.seconds, 8) \o Le(d.micros, 8)) \o clock
           rest == From(Empty56, Len(stamps))
<1>1. WriteUnixData(d) = stamps \o rest
    BY DEF WriteUnixData
<1>2. Sized(Le(d.seconds, 8), 8) /\ Sized(Le(d.micros, 8), 8)
      /\ Sized(Le(d.monotonic[1], 16), 16) /\ Sized(<<>>, 0)
    BY SizedNumbers, SizedTuples
<1>3. \E m : Sized(clock, m)
    BY <1>2
<1> HIDE DEF clock
<1>4. PICK m : Sized(clock, m)
    BY <1>3
<1>5. Sized(Le(d.seconds, 8) \o Le(d.micros, 8), 8 + 8)
    BY <1>2, SizedConcat
<1>6. Sized(stamps, (8 + 8) + m)
    BY <1>4, <1>5, SizedConcat
<1> HIDE DEF stamps
<1>7. Len(stamps) \in Int /\ Len(Empty56) = 56
    <2>1. Empty56 = [i \in 1 .. 56 |-> Empty56[i]]
        BY DEF Empty56
    <2>2. Sized(Empty56, 56)
        BY <2>1, SizedFunction
    <2> QED
        BY <1>6, <2>2 DEF Sized
<1>8. \E k : Sized(rest, k)
    <2>1. rest = SubSeq(Empty56, Len(stamps) + 1, 56)
        BY <1>7 DEF From
    <2>2. Len(stamps) + 1 \in Int /\ 56 \in Int
        BY <1>7
    <2> QED
        BY <2>1, <2>2, SliceIsSized
<1>9. PICK k : Sized(rest, k)
    BY <1>8
<1> HIDE DEF rest
<1>10. Sized(stamps \o rest, ((8 + 8) + m) + k)
    BY <1>6, <1>9, SizedConcat
<1> QED
    BY <1>1, <1>10

LEMMA ArpIsSized ==
    ASSUME NEW m, Sized(m.senderMac, 6), Sized(m.targetMac, 6),
           m.operation \in {"Request", "Reply"}
    PROVE  Sized(WriteArp(m), 28) /\ Leading(WriteArp(m))
<1> DEFINE operation == Be16(Operations[m.operation])
           front == ((Be16(1) \o Be16(2048)) \o <<6, 4>>) \o operation
<1>1. WriteArp(m) =
          (((front \o m.senderMac) \o Octets(m.sender)) \o m.targetMac) \o Octets(m.target)
    BY DEF WriteArp
<1>2. /\ Sized(Be16(1), 2) /\ Sized(Be16(2048), 2) /\ Sized(<<6, 4>>, 2)
      /\ Sized(operation, 2)
      /\ Sized(Octets(m.sender), 4) /\ Sized(Octets(m.target), 4)
    BY SizedNumbers, SizedTuples
<1>10. operation[1] \in Int /\ operation[2] \in Int
    <2>1. Operations[m.operation] \in Int
        BY DEF Operations
    <2> QED
        BY <2>1, NumbersAreBytes
<1> DEFINE one == Be16(1)
           ip == Be16(2048)
           lengths == <<6, 4>>
           four == one \o ip
           six == four \o lengths
<1>3. front = six \o operation
    OBVIOUS
<1>4. one[1] \in Int /\ ip[1] \in Int /\ ip[2] \in Int /\ lengths[1] \in Int
    BY NumbersAreBytes
<1>5. Sized(one, 2) /\ Sized(ip, 2) /\ Sized(lengths, 2)
    BY <1>2
<1> HIDE DEF operation, front, one, ip, lengths
<1>6. Joins(four, one, 2, ip, 2)
    BY <1>5, ConcatJoins
<1> HIDE DEF four
<1>7. Sized(four, 4) /\ four[1] = one[1] /\ four[3] = ip[1] /\ four[4] = ip[2]
    BY <1>6, JoinedPairs
<1>8. Joins(six, four, 4, lengths, 2)
    BY <1>5, <1>7, ConcatJoins
<1> HIDE DEF six
<1>9. /\ Sized(six, 6) /\ six[1] = four[1] /\ six[3] = four[3] /\ six[4] = four[4]
      /\ six[5] = lengths[1]
    <2>1. /\ Sized(six, 4 + 2) /\ six[1] = four[1] /\ six[3] = four[3] /\ six[4] = four[4]
          /\ six[4 + 1] = lengths[1]
        BY <1>8 DEF Joins
    <2>2. 4 + 2 = 6 /\ 4 + 1 = 5
        OBVIOUS
    <2> QED
        BY <2>1, <2>2
<1>11. Joins(front, six, 6, operation, 2)
    BY <1>2, <1>3, <1>9, ConcatJoins
<1>12. Sized(front, 8) /\ Leading(front) /\ 8 >= 8
    <2>1. /\ Sized(front, 6 + 2)
          /\ front[1] = six[1] /\ front[3] = six[3] /\ front[4] = six[4] /\ front[5] = six[5]
          /\ front[6 + 1] = operation[1] /\ front[6 + 2] = operation[2]
        BY <1>11 DEF Joins
    <2>2. 6 + 2 = 8 /\ 6 + 1 = 7
        OBVIOUS
    <2>3. /\ front[1] \in Int /\ front[3] \in Int /\ front[4] \in Int
          /\ front[5] \in Int /\ front[7] \in Int /\ front[8] \in Int
        BY <1>4, <1>7, <1>9, <1>10, <2>1, <2>2
    <2>4. Leading(front)
        BY <2>3 DEF Leading
    <2> QED
        BY <2>1, <2>2, <2>4
<1> DEFINE third == front \o m.senderMac
           second == third \o Octets(m.sender)
           first == second \o m.targetMac
           whole == first \o Octets(m.target)
<1>13. WriteArp(m) = whole
    BY <1>1
<1>14. Sized(third, 8 + 6) /\ Leading(third) /\ 8 + 6 >= 8
    BY <1>12, StillLeading
<1> HIDE DEF third
<1>15. Sized(second, (8 + 6) + 4) /\ Leading(second) /\ (8 + 6) + 4 >= 8
    BY <1>2, <1>14, StillLeading
<1> HIDE DEF second
<1>16. Sized(first, ((8 + 6) + 4) + 6) /\ Leading(first) /\ ((8 + 6) + 4) + 6 >= 8
    BY <1>15, StillLeading
<1> HIDE DEF first
<1>17. Sized(whole, (((8 + 6) + 4) + 6) + 4) /\ Leading(whole)
    BY <1>2, <1>16, StillLeading
<1>18. (((8 + 6) + 4) + 6) + 4 = 28
    OBVIOUS
<1> QED
    BY <1>13, <1>17, <1>18

(* A name read from a table of codes is one of the table's, or "Other".    *)
LEMMA NamesAreKnown ==
    ASSUME NEW codes, NEW n
    PROVE  NameIn(codes, n) \in DOMAIN codes \cup {"Other"}
BY DEF NameIn

LEMMA IcmpKinds ==
    ASSUME NEW bytes
    PROVE  ReadIcmp(bytes).kind \in
              {"rejected", "EchoRequest", "EchoReply", "DestinationUnreachable", "SourceQuench",
               "Redirect", "TimeExceeded", "ParameterProblem"}
<1> DEFINE kind == NameIn(IcmpTypes, Byte(bytes, 0))
           code == Byte(bytes, 1)
           data == From(bytes, 8)
<1>1. CASE ReadIcmp(bytes) = Rejected
    BY <1>1 DEF Rejected
<1>2. CASE ReadIcmp(bytes) # Rejected
    <2>1. kind \in {"EchoReply", "DestinationUnreachable", "SourceQuench", "Redirect",
                    "EchoRequest", "TimeExceeded", "ParameterProblem"}
        <3>1. kind # "Other"
            BY <1>2 DEF ReadIcmp
        <3>2. kind \in DOMAIN IcmpTypes \cup {"Other"}
            BY NamesAreKnown
        <3> HIDE DEF kind
        <3> QED
            BY <3>1, <3>2 DEF IcmpTypes
    <2>2. ReadIcmp(bytes) =
              CASE kind \in {"EchoRequest", "EchoReply"} ->
                       Echo(kind, At16(bytes, 4), At16(bytes, 6), data)
                [] kind = "DestinationUnreachable" -> ReadUnreachable(code, data)
                [] kind = "SourceQuench" -> [kind |-> kind, data |-> data]
                [] kind = "Redirect" ->
                       [kind |-> kind, code |-> code, gateway |-> AddressAt(bytes, 4), data |-> data]
                [] kind = "TimeExceeded" -> [kind |-> kind, code |-> code, data |-> data]
                [] kind = "ParameterProblem" ->
                       [kind |-> kind, pointer |-> Byte(bytes, 5), data |-> data]
        BY <1>2 DEF ReadIcmp
    <2> HIDE DEF kind, code, data
    <2>3. \A a, b, c : Echo(kind, a, b, c).kind = kind
        BY DEF Echo
    <2>4. ReadUnreachable(code, data).kind \in {"rejected", "DestinationUnreachable"}
        BY DEF ReadUnreachable, Rejected
    <2>5. CASE kind \in {"EchoRequest", "EchoReply"}
        BY <2>2, <2>3, <2>5
    <2>6. CASE kind = "DestinationUnreachable"
        BY <2>2, <2>4, <2>6
    <2>7. CASE kind \in {"SourceQuench", "Redirect", "TimeExceeded", "ParameterProblem"}
        BY <2>2, <2>7
    <2> QED
        BY <2>1, <2>5, <2>6, <2>7
<1> QED
    BY <1>1, <1>2

LEMMA UdpKinds ==
    ASSUME NEW sockets, NEW ip, NEW bytes
    PROVE  HearUdp(sockets, ip, bytes).kind \in {"ignored", "datagram"}
BY DEF HearUdp, Ignored

LEMMA ControlKinds ==
    ASSUME NEW ip, NEW bytes
    PROVE  HearIcmp(ip, bytes).kind \in
              {"ignored", "request", "reply", "control", "unreachable", "logged"}
<1> DEFINE icmp == ReadIcmp(bytes)
           heard == HearIcmp(ip, bytes)
           request == [kind |-> "request", source |-> ip.source, destination |-> ip.destination,
                       message |-> icmp]
           reply == [kind |-> "reply", target |-> ip.source, identifier |-> icmp.identifier,
                     sequence |-> icmp.sequence, time |-> ReadUnixData(icmp.data)]
           control == [kind |-> "control", message |-> icmp]
<1>1. heard =
          CASE icmp.kind = "rejected" -> Ignored
            [] icmp.kind = "EchoRequest" -> request
            [] icmp.kind = "EchoReply" -> reply
            [] icmp.kind = "DestinationUnreachable" -> ForwardAsyncError(icmp)
            [] icmp.kind \in {"SourceQuench", "Redirect", "TimeExceeded", "ParameterProblem"} ->
                   control
    BY DEF HearIcmp
<1>2. icmp.kind \in
          {"rejected", "EchoRequest", "EchoReply", "DestinationUnreachable", "SourceQuench",
           "Redirect", "TimeExceeded", "ParameterProblem"}
    BY IcmpKinds
<1>3. request.kind = "request" /\ reply.kind = "reply" /\ control.kind = "control"
      /\ Ignored.kind = "ignored"
    BY DEF Ignored
<1>4. ForwardAsyncError(icmp).kind \in {"unreachable", "logged"}
    BY DEF ForwardAsyncError
<1> HIDE DEF icmp, request, reply, control
<1>5. heard \in {Ignored, request, reply, ForwardAsyncError(icmp), control}
    BY <1>1, <1>2
<1> QED
    BY <1>3, <1>4, <1>5

LEMMA Ipv4Kinds ==
    ASSUME NEW ours, NEW sockets, NEW bytes
    PROVE  HearIpv4(ours, sockets, bytes).kind # "asked"
<1> DEFINE ip == ReadIpv4(bytes)
           heard == HearIpv4(ours, sockets, bytes)
           payload == PayloadOf(ip, bytes)
<1>1. Ignored.kind # "asked" /\ HearIcmp(ip, payload).kind # "asked"
      /\ HearUdp(sockets, ip, payload).kind # "asked"
    BY UdpKinds, ControlKinds DEF Ignored
<1>2. CASE heard = Ignored
    BY <1>1, <1>2
<1>3. CASE heard # Ignored
    <2>1. ip # Rejected
        BY <1>3 DEF HearIpv4
    <2>2. ip.protocol \in DOMAIN Protocols \cup {"Other"}
        <3>1. ip.protocol = NameIn(Protocols, Byte(bytes, 9))
            BY <2>1 DEF ReadIpv4
        <3> QED
            BY <3>1, NamesAreKnown
    <2>3. ip.protocol \in {"ICMP", "TCP", "UDP", "Other"}
        BY <2>2 DEF Protocols
    <2>4. heard =
              CASE ip.protocol = "ICMP" -> HearIcmp(ip, payload)
                [] ip.protocol = "UDP" -> HearUdp(sockets, ip, payload)
                [] ip.protocol \in {"TCP", "Other"} -> Ignored
        BY <1>3 DEF HearIpv4
    <2> HIDE DEF ip, heard, payload
    <2>5. heard \in {HearIcmp(ip, payload), HearUdp(sockets, ip, payload), Ignored}
        BY <2>3, <2>4
    <2> QED
        BY <1>1, <2>5 DEF heard
<1> QED
    BY <1>2, <1>3

(* An echo request has the data behind its first eight bytes.              *)
LEMMA PingIsRead ==
    ASSUME NEW bytes, ReadIcmp(bytes).kind = "EchoRequest"
    PROVE  \E identifier, sequence :
              ReadIcmp(bytes) = Echo("EchoRequest", identifier, sequence, From(bytes, 8))
<1> DEFINE kind == NameIn(IcmpTypes, Byte(bytes, 0))
           code == Byte(bytes, 1)
           data == From(bytes, 8)
<1>1. ReadIcmp(bytes) # Rejected
    BY DEF Rejected
<1>2. kind \in {"EchoReply", "DestinationUnreachable", "SourceQuench", "Redirect",
                "EchoRequest", "TimeExceeded", "ParameterProblem"}
    <2>1. kind # "Other"
        BY <1>1 DEF ReadIcmp
    <2>2. kind \in DOMAIN IcmpTypes \cup {"Other"}
        BY NamesAreKnown
    <2> HIDE DEF kind
    <2> QED
        BY <2>1, <2>2 DEF IcmpTypes
<1>3. ReadIcmp(bytes) =
          CASE kind \in {"EchoRequest", "EchoReply"} ->
                   Echo(kind, At16(bytes, 4), At16(bytes, 6), data)
            [] kind = "DestinationUnreachable" -> ReadUnreachable(code, data)
            [] kind = "SourceQuench" -> [kind |-> kind, data |-> data]
            [] kind = "Redirect" ->
                   [kind |-> kind, code |-> code, gateway |-> AddressAt(bytes, 4), data |-> data]
            [] kind = "TimeExceeded" -> [kind |-> kind, code |-> code, data |-> data]
            [] kind = "ParameterProblem" ->
                   [kind |-> kind, pointer |-> Byte(bytes, 5), data |-> data]
    BY <1>1 DEF ReadIcmp
<1> DEFINE icmp == ReadIcmp(bytes)
<1>4. icmp.kind = "EchoRequest"
    OBVIOUS
<1>5. icmp = ReadIcmp(bytes)
    OBVIOUS
<1> HIDE DEF kind, code, data, icmp
<1>6. \A a, b, c : Echo(kind, a, b, c).kind = kind
    BY DEF Echo
<1>7. ReadUnreachable(code, data).kind \in {"rejected", "DestinationUnreachable"}
    BY DEF ReadUnreachable, Rejected
<1>8. kind \in {"EchoRequest", "EchoReply"}
    <2>1. CASE kind = "DestinationUnreachable"
        BY <1>3, <1>4, <1>5, <1>7, <2>1
    <2>2. CASE kind \in {"SourceQuench", "Redirect", "TimeExceeded", "ParameterProblem"}
        BY <1>3, <1>4, <1>5, <2>2
    <2> QED
        BY <1>2, <2>1, <2>2
<1>9. icmp = Echo(kind, At16(bytes, 4), At16(bytes, 6), data)
    BY <1>3, <1>5, <1>8
<1>10. kind = "EchoRequest"
    BY <1>4, <1>6, <1>9
<1> QED
    BY <1>5, <1>9, <1>10 DEF data

LEMMA RequestIsEcho ==
    ASSUME NEW ip, NEW bytes, HearIcmp(ip, bytes).kind = "request"
    PROVE  \E identifier, sequence :
              HearIcmp(ip, bytes).message =
                  Echo("EchoRequest", identifier, sequence, From(bytes, 8))
<1> DEFINE icmp == ReadIcmp(bytes)
           heard == HearIcmp(ip, bytes)
           request == [kind |-> "request", source |-> ip.source, destination |-> ip.destination,
                       message |-> icmp]
           reply == [kind |-> "reply", target |-> ip.source, identifier |-> icmp.identifier,
                     sequence |-> icmp.sequence, time |-> ReadUnixData(icmp.data)]
           control == [kind |-> "control", message |-> icmp]
<1>1. heard =
          CASE icmp.kind = "rejected" -> Ignored
            [] icmp.kind = "EchoRequest" -> request
            [] icmp.kind = "EchoReply" -> reply
            [] icmp.kind = "DestinationUnreachable" -> ForwardAsyncError(icmp)
            [] icmp.kind \in {"SourceQuench", "Redirect", "TimeExceeded", "ParameterProblem"} ->
                   control
    BY DEF HearIcmp
<1>2. icmp.kind \in
          {"rejected", "EchoRequest", "EchoReply", "DestinationUnreachable", "SourceQuench",
           "Redirect", "TimeExceeded", "ParameterProblem"}
    BY IcmpKinds
<1>3. reply.kind = "reply" /\ control.kind = "control" /\ Ignored.kind = "ignored"
      /\ request.message = icmp
    BY DEF Ignored
<1>4. ForwardAsyncError(icmp).kind \in {"unreachable", "logged"}
    BY DEF ForwardAsyncError
<1>5. heard.kind = "request"
    OBVIOUS
<1> HIDE DEF request, reply, control, heard
<1>6. icmp.kind = "EchoRequest"
    <2> HIDE DEF icmp
    <2> QED
        BY <1>1, <1>2, <1>3, <1>4, <1>5
<1>7. heard.message = icmp
    <2> HIDE DEF icmp
    <2> QED
        BY <1>1, <1>3, <1>6
<1> QED
    BY <1>6, <1>7, PingIsRead DEF heard

(* What Ethernet carries, from the places of Readable.                     *)
LEMMA PayloadLeads ==
    ASSUME NEW bytes, Readable(bytes), NEW start \in {14, 18}
    PROVE  LET payload == From(bytes, start)
           IN  payload[1] \in Int /\ payload[3] \in Int /\ payload[4] \in Int
<1> DEFINE n == Len(bytes)
           S == {bytes[i] : i \in start + 1 .. n}
           payload == SubSeq(bytes, start + 1, n)
<1>1. n \in Nat /\ n >= 22
    BY LenProperties DEF Readable
<1>2. \A i \in start + 1 .. n : bytes[i] \in S
    OBVIOUS
<1>3. start + 1 \in Int /\ n \in Int
    BY <1>1
<1>4. \A i \in 1 .. n - (start + 1) + 1 : payload[i] = bytes[start + 1 + i - 1]
    <2> HIDE DEF n, S, payload
    <2> QED
        BY <1>2, <1>3, SubSeqProperties DEF payload
<1>5. From(bytes, start) = payload
    BY DEF From
<1>6. /\ payload[1] = bytes[start + 1] /\ payload[3] = bytes[start + 3]
      /\ payload[4] = bytes[start + 4]
    <2> HIDE DEF n, S, payload
    <2>1. \A i \in {1, 3, 4} : i \in 1 .. n - (start + 1) + 1 /\ start + 1 + i - 1 = start + i
        BY <1>1
    <2> QED
        BY <1>4, <2>1
<1>7. start + 1 \in {15, 19} /\ start + 3 \in {17, 21} /\ start + 4 \in {18, 22}
    OBVIOUS
<1>8. bytes[start + 1] \in Int /\ bytes[start + 3] \in Int /\ bytes[start + 4] \in Int
    BY <1>7 DEF Readable
<1> QED
    BY <1>5, <1>6, <1>8

LEMMA SenderIsRead ==
    ASSUME NEW bytes, ReadArp(bytes) # Rejected
    PROVE  ReadArp(bytes).senderMac = Slice(bytes, 8, 14)
<1> DEFINE prelude == Be16(1) \o Be16(2048) \o <<6, 4>>
           operation == NameIn(Operations, At16(bytes, 6))
           arp == [operation |-> operation,
                   senderMac |-> Slice(bytes, 8, 14), sender |-> AddressAt(bytes, 14),
                   targetMac |-> Slice(bytes, 18, 24), target |-> AddressAt(bytes, 24)]
<1>1. ReadArp(bytes) =
          IF \/ Len(bytes) < 28
             \/ Slice(bytes, 0, 6) # prelude
             \/ operation = "Other"
          THEN Rejected ELSE arp
    BY DEF ReadArp
<1>2. arp.senderMac = Slice(bytes, 8, 14)
    OBVIOUS
<1> HIDE DEF prelude, operation, arp
<1> QED
    BY <1>1, <1>2

(* Only an ARP request is answered by ARP, to the hardware that sent it.   *)
LEMMA OnlyArpAsks ==
    ASSUME NEW mac, mac \in Mac, NEW ours, NEW sockets, NEW bytes,
           Hear(mac, ours, sockets, bytes).kind = "asked"
    PROVE  LET reply == Hear(mac, ours, sockets, bytes).reply
           IN  /\ Sized(reply.senderMac, 6) /\ Sized(reply.targetMac, 6)
               /\ reply.operation = "Reply"
<1> DEFINE ethernet == ReadEthernet(bytes)
           payload == From(bytes, EthernetLength(ethernet))
           heard == Hear(mac, ours, sockets, bytes)
           arp == ReadArp(payload)
<1>1. Ignored.kind # "asked"
    BY DEF Ignored
<1>2. ethernet # Rejected
    BY <1>1 DEF Hear
<1>3. ethernet.etherType \in {"IPv4", "ARP", "VLAN", "IPv6", "Other"}
    <2>1. \E n : ethernet.etherType = NameIn(EtherTypes, n)
        BY <1>2 DEF ReadEthernet
    <2>2. PICK n : ethernet.etherType = NameIn(EtherTypes, n)
        BY <2>1
    <2>3. ethernet.etherType \in DOMAIN EtherTypes \cup {"Other"}
        BY <2>2, NamesAreKnown
    <2> QED
        BY <2>3 DEF EtherTypes
<1>4. heard =
          CASE ethernet.etherType = "ARP" -> HearArp(mac, ours, payload)
            [] ethernet.etherType = "IPv4" -> HearIpv4(ours, sockets, payload)
            [] ethernet.etherType \in {"IPv6", "VLAN", "Other"} -> Ignored
    BY <1>2 DEF Hear
<1>5. heard = HearArp(mac, ours, payload)
    <2>1. HearIpv4(ours, sockets, payload).kind # "asked"
        BY Ipv4Kinds
    <2>2. heard.kind = "asked"
        OBVIOUS
    <2> HIDE DEF ethernet, payload, heard
    <2> QED
        BY <1>1, <1>3, <1>4, <2>1, <2>2
<1>6. arp # Rejected /\ heard.reply = ArpReply(arp, mac, arp.target)
    <2>1. heard.kind = "asked"
        OBVIOUS
    <2>2. HearArp(mac, ours, payload).kind = "asked"
        BY <1>5, <2>1
    <2>3. arp # Rejected
        BY <1>1, <2>2 DEF HearArp
    <2>4. HearArp(mac, ours, payload).reply = ArpReply(arp, mac, arp.target)
        BY <2>2, <2>3 DEF HearArp
    <2> QED
        BY <1>5, <2>3, <2>4
<1>7. /\ heard.reply.senderMac = mac /\ heard.reply.targetMac = arp.senderMac
      /\ heard.reply.operation = "Reply"
    BY <1>6 DEF ArpReply
<1>8. arp.senderMac = SubSeq(payload, 9, 14)
    <2>1. arp.senderMac = Slice(payload, 8, 14)
        BY <1>6, SenderIsRead
    <2>2. Slice(payload, 8, 14) = SubSeq(payload, 8 + 1, 14)
        BY DEF Slice
    <2> HIDE DEF arp, payload
    <2>3. 8 + 1 = 9
        OBVIOUS
    <2> QED
        BY <2>1, <2>2, <2>3
<1>9. Sized(arp.senderMac, 6)
    <2>1. Sized(SubSeq(payload, 9, 14), IF 9 <= 14 THEN 14 - 9 + 1 ELSE 0)
        BY SliceIsSized
    <2>2. (IF 9 <= 14 THEN 14 - 9 + 1 ELSE 0) = 6
        OBVIOUS
    <2> QED
        BY <1>8, <2>1, <2>2
<1> QED
    BY <1>7, <1>9, MacsAreSized

(* HearArp and HearUdp never ask for an echo.                              *)
LEMMA RequestIsIpv4 ==
    ASSUME NEW mac, NEW ours, NEW sockets, NEW bytes,
           Hear(mac, ours, sockets, bytes).kind = "request"
    PROVE  \E start \in {14, 18} :
              HearIpv4(ours, sockets, From(bytes, start)) = Hear(mac, ours, sockets, bytes)
<1> DEFINE ethernet == ReadEthernet(bytes)
           start == EthernetLength(ethernet)
           payload == From(bytes, start)
           heard == Hear(mac, ours, sockets, bytes)
<1>1. Ignored.kind # "request"
    BY DEF Ignored
<1>2. ethernet # Rejected
    BY <1>1 DEF Hear
<1>3. ethernet.etherType \in {"IPv4", "ARP", "VLAN", "IPv6", "Other"}
    <2>1. \E n : ethernet.etherType = NameIn(EtherTypes, n)
        BY <1>2 DEF ReadEthernet
    <2>2. PICK n : ethernet.etherType = NameIn(EtherTypes, n)
        BY <2>1
    <2>3. ethernet.etherType \in DOMAIN EtherTypes \cup {"Other"}
        BY <2>2, NamesAreKnown
    <2> QED
        BY <2>3 DEF EtherTypes
<1>4. heard =
          CASE ethernet.etherType = "ARP" -> HearArp(mac, ours, payload)
            [] ethernet.etherType = "IPv4" -> HearIpv4(ours, sockets, payload)
            [] ethernet.etherType \in {"IPv6", "VLAN", "Other"} -> Ignored
    BY <1>2 DEF Hear
<1>5. HearArp(mac, ours, payload).kind # "request"
    BY DEF HearArp, Ignored
<1>6. start \in {14, 18}
    BY DEF EthernetLength
<1>7. heard.kind = "request"
    OBVIOUS
<1>8. heard = HearIpv4(ours, sockets, payload)
    <2> HIDE DEF ethernet, payload, heard
    <2> QED
        BY <1>1, <1>3, <1>4, <1>5, <1>7
<1> HIDE DEF start, heard
<1> QED
    BY <1>6, <1>8 DEF heard

(* The length of what is echoed is known, even if it is nonsense.          *)
LEMMA RequestIsSized ==
    ASSUME NEW mac, NEW ours, NEW sockets, NEW bytes, Readable(bytes),
           Hear(mac, ours, sockets, bytes).kind = "request"
    PROVE  \E identifier, sequence, data, n :
              /\ Sized(data, n)
              /\ Hear(mac, ours, sockets, bytes).message =
                     Echo("EchoRequest", identifier, sequence, data)
<1>1. PICK start \in {14, 18} :
          HearIpv4(ours, sockets, From(bytes, start)) = Hear(mac, ours, sockets, bytes)
    BY RequestIsIpv4
<1> DEFINE payload == From(bytes, start)
           ip == ReadIpv4(payload)
           inner == PayloadOf(ip, payload)
           heard == HearIpv4(ours, sockets, payload)
<1>2. heard = Hear(mac, ours, sockets, bytes) /\ heard.kind = "request"
    BY <1>1
<1>3. heard # Ignored
    BY <1>2 DEF Ignored
<1>4. ip # Rejected
    BY <1>3 DEF HearIpv4
<1>5. heard = HearIcmp(ip, inner)
    <2>1. ip.protocol \in DOMAIN Protocols \cup {"Other"}
        <3>1. ip.protocol = NameIn(Protocols, Byte(payload, 9))
            BY <1>4 DEF ReadIpv4
        <3> QED
            BY <3>1, NamesAreKnown
    <2>2. ip.protocol \in {"ICMP", "TCP", "UDP", "Other"}
        BY <2>1 DEF Protocols
    <2>3. heard =
              CASE ip.protocol = "ICMP" -> HearIcmp(ip, inner)
                [] ip.protocol = "UDP" -> HearUdp(sockets, ip, inner)
                [] ip.protocol \in {"TCP", "Other"} -> Ignored
        BY <1>3 DEF HearIpv4
    <2>4. HearUdp(sockets, ip, inner).kind # "request"
        BY UdpKinds
    <2> HIDE DEF ip, inner, heard, payload
    <2> QED
        BY <1>2, <1>3, <2>2, <2>3, <2>4
<1>6. ip.words \in Int /\ ip.totalLength \in Int
    <2>1. payload[1] \in Int /\ payload[3] \in Int /\ payload[4] \in Int
        BY PayloadLeads
    <2>2. Byte(payload, 0) = payload[1] /\ At16(payload, 2) = payload[3] * 256 + payload[4]
        <3>1. 0 + 1 = 1 /\ 2 + 1 = 3 /\ (2 + 1) + 1 = 4
            OBVIOUS
        <3> HIDE DEF payload
        <3> QED
            BY <3>1 DEF Byte, At16
    <2>3. Byte(payload, 0) % 16 \in Int /\ At16(payload, 2) \in Int
        <3> HIDE DEF payload
        <3> QED
            BY <2>1, <2>2
    <2>4. ip.words = Byte(payload, 0) % 16 /\ ip.totalLength = At16(payload, 2)
        <3> HIDE DEF payload
        <3> QED
            BY <1>4 DEF ReadIpv4
    <2> QED
        BY <2>3, <2>4
<1> HIDE DEF ip, payload, heard
<1>7. \E m : Sized(inner, m)
    <2>1. inner = SubSeq(payload, 4 * ip.words + 1, ip.totalLength)
        BY DEF PayloadOf, Slice, Ipv4Length
    <2>2. 4 * ip.words + 1 \in Int
        BY <1>6
    <2> HIDE DEF inner
    <2> QED
        BY <1>6, <2>1, <2>2, SliceIsSized
<1> HIDE DEF inner
<1>8. Len(inner) \in Int
    BY <1>7 DEF Sized
<1>9. \E n : Sized(From(inner, 8), n)
    <2>1. From(inner, 8) = SubSeq(inner, 8 + 1, Len(inner))
        BY DEF From
    <2>2. 8 + 1 \in Int
        OBVIOUS
    <2> QED
        BY <1>8, <2>1, <2>2, SliceIsSized
<1>10. \E identifier, sequence :
           heard.message = Echo("EchoRequest", identifier, sequence, From(inner, 8))
    BY <1>2, <1>5, RequestIsEcho
<1> QED
    BY <1>2, <1>9, <1>10

-----------------------------------------------------------------------------
(* The frame on the wire and the report, step by step *)

FramesInv == FramesAreReadable /\ FramesAreShort /\ OnlyTheLongestPanic

LEMMA HostsHaveMacs ==
    /\ OurMac \in Mac /\ PeerMac \in Mac
    /\ Us.mac = OurMac /\ Us.mac \in Mac /\ Us.neighbourMac \in Mac
    /\ Peer.mac \in Mac /\ Peer.neighbourMac \in Mac
BY PathAssumption DEF PathAssumption, Mac, Us, Peer

LEMMA NewFrame ==
    ASSUME NEW to, NEW bytes, NEW destination, NEW meant,
           wire' = Frame(to, bytes, destination, meant),
           Readable(bytes), to = "peer" => Len(bytes) <= Mtu
    PROVE  FramesAreReadable' /\ FramesAreShort'
<1>1. wire'.to = to /\ wire'.bytes = bytes
    BY DEF Frame
<1> QED
    BY <1>1 DEF FramesAreReadable, FramesAreShort, Readable

LEMMA NoNewFrame ==
    ASSUME wire' = NoFrame
    PROVE  FramesAreReadable' /\ FramesAreShort'
BY DEF NoFrame, FramesAreReadable, FramesAreShort

LEMMA NobodyDies ==
    ASSUME last'.kind \notin {"sent", "heard"} \/ last'.by # "us" \/ last'.result # "panic"
    PROVE  OnlyTheLongestPanic'
BY DEF OnlyTheLongestPanic, Alive

(* A report of a panic, at the sizes that reach the assertion.             *)
LEMMA TheLongestDie ==
    ASSUME last'.size \in Nat, last'.size + 20 <= Mtu, last'.size + 34 > Mtu
    PROVE  OnlyTheLongestPanic'
<1>1. Mtu \in Nat
    BY PathAssumption DEF PathAssumption
<1>2. last'.size + 20 \in Mtu - 13 .. Mtu
    BY <1>1
<1> QED
    BY <1>2 DEF OnlyTheLongestPanic

LEMMA AttemptsFit ==
    ASSUME NEW attempt, NEW destination, NEW meant, NEW size \in Nat,
           attempt.result = "sent" => Len(attempt.bytes) <= Mtu /\ Readable(attempt.bytes),
           attempt.result = "panic" => size + 20 <= Mtu /\ size + 34 > Mtu,
           PutOnWire(attempt, "peer", destination, meant, size)
    PROVE  FramesInv'
<1>1. /\ wire' = IF attempt.result = "sent"
                 THEN Frame("peer", attempt.bytes, destination, meant) ELSE NoFrame
      /\ last' = Sent(attempt.result, size)
    BY DEF PutOnWire
<1>2. FramesAreReadable' /\ FramesAreShort'
    <2>1. CASE attempt.result = "sent"
        BY <1>1, <2>1, NewFrame
    <2>2. CASE attempt.result # "sent"
        BY <1>1, <2>2, NoNewFrame
    <2> QED
        BY <2>1, <2>2
<1>3. OnlyTheLongestPanic'
    <2>1. last'.result = attempt.result /\ last'.size = size
        BY <1>1 DEF Sent
    <2>2. CASE attempt.result = "panic"
        BY <2>1, <2>2, TheLongestDie
    <2>3. CASE attempt.result # "panic"
        BY <2>1, <2>3, NobodyDies
    <2> QED
        BY <2>2, <2>3
<1> QED
    BY <1>2, <1>3 DEF FramesInv

LEMMA DatagramsKeepFrames ==
    ASSUME NEW b, NEW destination, NEW data \in Payloads, SendDatagram(b, destination, data)
    PROVE  FramesInv'
<1> DEFINE attempt == SendUdp(Us, b.original, destination, data)
           from == SourceFor(Us, b.original, destination)
           size == Len(data) + 8
           meant == [kind |-> "datagram", socket |-> 1, data |-> data, source |-> <<from, Port>>]
<1>1. PutOnWire(attempt, "peer", destination, meant, size)
    BY DEF SendDatagram
<1>2. data \in Seq(0 .. 255) /\ Len(data) \in Nat
    BY PathAssumption, LenProperties DEF PathAssumption
<1>3. size \in Nat /\ size = 8 + Len(data)
    BY <1>2
<1>4. Sized(Datagram(from, destination, data), 8 + Len(data))
    BY <1>2, SizedSequence, DatagramIsSized
<1>5. \/ attempt = Failed("NoRouteToHost")
      \/ attempt = SendIpv4(Us, from, destination, "UDP", Datagram(from, destination, data))
    BY DEF SendUdp
<1> HIDE DEF from, size, meant
<1>6. /\ attempt.result = "sent" => Len(attempt.bytes) <= Mtu /\ Readable(attempt.bytes)
      /\ attempt.result = "panic" => size + 20 <= Mtu /\ size + 34 > Mtu
    <2>1. CASE attempt = Failed("NoRouteToHost")
        <3>1. attempt.result = "NoRouteToHost"
            BY <2>1 DEF Failed
        <3> QED
            BY <3>1
    <2>2. CASE attempt = SendIpv4(Us, from, destination, "UDP", Datagram(from, destination, data))
        <3> DEFINE payload == Datagram(from, destination, data)
        <3> HIDE DEF payload
        <3>1. Sized(payload, size)
            BY <1>3, <1>4 DEF payload
        <3>2. attempt = SendIpv4(Us, from, destination, "UDP", payload)
            BY <2>2 DEF payload
        <3> HIDE DEF attempt
        <3> QED
            BY <3>1, <3>2, HostsHaveMacs, SendIpv4Fits
    <2> QED
        BY <1>5, <2>1, <2>2
<1> HIDE DEF attempt
<1> QED
    BY <1>1, <1>3, <1>6, AttemptsFit

LEMMA PingsKeepFrames ==
    ASSUME NEW target, NEW time, Ping(target, time)
    PROVE  FramesInv'
<1> DEFINE message == Echo("EchoRequest", Identifier, Sequence, WriteUnixData(time))
           payload == WriteEcho(message)
           attempt == SendIpv4(Us, Unspecified, target, "ICMP", payload)
           meant == [kind |-> "request", source |-> SourceFor(Us, Unspecified, target),
                     destination |-> target, message |-> message]
<1>1. PutOnWire(attempt, "peer", target, meant, Len(payload))
    BY DEF Ping
<1>2. PICK n : Sized(WriteUnixData(time), n)
    BY UnixDataIsSized
<1>3. Sized(payload, 8 + n)
    <2> DEFINE data == WriteUnixData(time)
    <2> HIDE DEF data
    <2>1. Sized(data, n) /\ payload = WriteEcho(Echo("EchoRequest", Identifier, Sequence, data))
        BY <1>2 DEF data
    <2> HIDE DEF payload
    <2> QED
        BY <2>1, EchoIsSized
<1> DEFINE k == 8 + n
<1> HIDE DEF payload, meant
<1>4. Sized(payload, k) /\ k \in Nat /\ Len(payload) = k
    BY <1>3 DEF Sized
<1> HIDE DEF k
<1>5. /\ attempt.result = "sent" => Len(attempt.bytes) <= Mtu /\ Readable(attempt.bytes)
      /\ attempt.result = "panic" => k + 20 <= Mtu /\ k + 34 > Mtu
    BY <1>4, HostsHaveMacs, SendIpv4Fits
<1> HIDE DEF attempt
<1> QED
    BY <1>1, <1>4, <1>5, AttemptsFit

(* ARP is short enough for any MTU that IPv4 works with.                   *)
LEMMA ArpFits ==
    ASSUME NEW mac, Sized(mac, 6), NEW destination, Sized(destination, 6), NEW m,
           Sized(m.senderMac, 6), Sized(m.targetMac, 6), m.operation \in {"Request", "Reply"}
    PROVE  LET attempt == SendEthernet(mac, destination, "ARP", WriteArp(m))
           IN  /\ attempt.result = "sent"
               /\ Len(attempt.bytes) <= Mtu /\ Readable(attempt.bytes)
<1> DEFINE payload == WriteArp(m)
           attempt == SendEthernet(mac, destination, "ARP", payload)
<1>1. Sized(payload, 28) /\ Leading(payload)
    BY ArpIsSized
<1>2. Mtu \in Nat /\ Mtu >= 68
    BY PathAssumption DEF PathAssumption
<1> HIDE DEF payload
<1>3. \/ attempt.result = "sent" /\ Len(attempt.bytes) <= Mtu /\ Readable(attempt.bytes)
      \/ attempt.result = "panic" /\ 14 + 28 > Mtu
    BY <1>1, SendEthernetFits
<1> HIDE DEF attempt
<1>4. attempt.result = "sent" /\ Len(attempt.bytes) <= Mtu /\ Readable(attempt.bytes)
    BY <1>2, <1>3
<1> QED
    BY <1>4 DEF attempt, payload

LEMMA BroadcastIsSized == Sized(Broadcast6, 6)
<1>1. Broadcast6 \in Seq(Int) /\ Len(Broadcast6) = 6
    BY DEF Broadcast6
<1> QED
    BY <1>1 DEF Sized

LEMMA AnnouncementsKeepFrames ==
    ASSUME NEW a, NEW prefix, GrantAddress(a, prefix)
    PROVE  FramesInv'
<1> DEFINE arp == Gratuitous(OurMac, a)
           attempt == SendEthernet(OurMac, arp.targetMac, "ARP", WriteArp(arp))
           meant == [kind |-> "told", address |-> a, mac |-> OurMac]
<1>1. wire' = Frame("peer", attempt.bytes, a, meant) /\ last' = Nothing
    BY DEF GrantAddress
<1>2. arp.senderMac = OurMac /\ arp.targetMac = Broadcast6 /\ arp.operation = "Request"
    BY DEF Gratuitous, ArpRequest
<1>3. Sized(OurMac, 6)
    BY HostsHaveMacs, MacsAreSized
<1> HIDE DEF arp
<1>4. Len(attempt.bytes) <= Mtu /\ Readable(attempt.bytes)
    BY <1>2, <1>3, BroadcastIsSized, ArpFits
<1> HIDE DEF attempt, meant
<1>5. FramesAreReadable' /\ FramesAreShort'
    BY <1>1, <1>4, NewFrame
<1>6. OnlyTheLongestPanic'
    BY <1>1, NobodyDies DEF Nothing
<1> QED
    BY <1>5, <1>6 DEF FramesInv

(* What a host answers: an echo, ARP, or nothing.                          *)
LEMMA AnswersFit ==
    ASSUME NEW host, host.mac \in Mac, host.neighbourMac \in Mac,
           NEW ours, NEW sockets, NEW bytes, Readable(bytes)
    PROVE  LET heard == Hear(host.mac, ours, sockets, bytes)
               answer == AnswerTo(host, heard)
               size == IF heard.kind = "request" THEN 8 + Len(heard.message.data) ELSE 0
           IN  /\ answer.result = "sent" => Len(answer.bytes) <= Mtu /\ Readable(answer.bytes)
               /\ answer.result = "panic"
                     => size \in Nat /\ size + 20 <= Mtu /\ size + 34 > Mtu
<1> DEFINE heard == Hear(host.mac, ours, sockets, bytes)
           answer == AnswerTo(host, heard)
           size == IF heard.kind = "request" THEN 8 + Len(heard.message.data) ELSE 0
           Fine == /\ answer.result = "sent" => Len(answer.bytes) <= Mtu /\ Readable(answer.bytes)
                   /\ answer.result = "panic"
                         => size \in Nat /\ size + 20 <= Mtu /\ size + 34 > Mtu
<1> SUFFICES Fine
    OBVIOUS
<1>1. CASE heard.kind = "request"
    <2>1. PICK identifier, sequence, data, n :
              /\ Sized(data, n)
              /\ heard.message = Echo("EchoRequest", identifier, sequence, data)
        BY <1>1, RequestIsSized
    <2>2. [heard.message EXCEPT !.kind = "EchoReply"]
              = Echo("EchoReply", identifier, sequence, data)
        BY <2>1 DEF Echo
    <2> DEFINE payload == WriteEcho(Echo("EchoReply", identifier, sequence, data))
    <2>3. answer = SendIpv4(host, heard.destination, heard.source, "ICMP", payload)
        BY <1>1, <2>2 DEF AnswerTo
    <2>4. heard.message.data = data
        BY <2>1 DEF Echo
    <2>5. n \in Nat /\ size = 8 + n
        BY <1>1, <2>1, <2>4 DEF Sized
    <2>6. Sized(payload, 8 + n)
        BY <2>1, EchoIsSized
    <2> HIDE DEF payload, answer, heard, size
    <2>7. Sized(payload, size) /\ size \in Nat
        BY <2>5, <2>6
    <2>8. /\ answer.result = "sent" => Len(answer.bytes) <= Mtu /\ Readable(answer.bytes)
          /\ answer.result = "panic" => size + 20 <= Mtu /\ size + 34 > Mtu
        BY <2>3, <2>7, SendIpv4Fits
    <2> QED
        BY <2>7, <2>8
<1>2. CASE heard.kind = "asked"
    <2>1. /\ Sized(heard.reply.senderMac, 6) /\ Sized(heard.reply.targetMac, 6)
          /\ heard.reply.operation = "Reply"
        BY <1>2, OnlyArpAsks
    <2>2. answer = SendEthernet(host.mac, heard.reply.targetMac, "ARP", WriteArp(heard.reply))
        BY <1>2 DEF AnswerTo
    <2>3. Sized(host.mac, 6)
        BY MacsAreSized
    <2> HIDE DEF heard, answer, size
    <2>4. answer.result = "sent" /\ Len(answer.bytes) <= Mtu /\ Readable(answer.bytes)
        BY <2>1, <2>2, <2>3, ArpFits
    <2> QED
        BY <2>4
<1>3. CASE heard.kind \notin {"request", "asked"}
    <2>1. answer = Failed("none")
        BY <1>3 DEF AnswerTo
    <2>2. answer.result = "none"
        BY <2>1 DEF Failed
    <2> HIDE DEF answer, heard, size
    <2> QED
        BY <2>2
<1> HIDE DEF answer, heard, size, Fine
<1> QED
    BY <1>1, <1>2, <1>3

LEMMA ReceiveKeepsFrames ==
    ASSUME NEW by \in {"us", "peer"}, NEW host, host.mac \in Mac, host.neighbourMac \in Mac,
           NEW other, NEW ours, NEW sockets, Receive(by, host, other, ours, sockets),
           FramesInv
    PROVE  FramesInv'
<1> DEFINE heard == Hear(host.mac, ours, sockets, wire.bytes)
           answer == AnswerTo(host, heard)
           size == IF heard.kind = "request" THEN 8 + Len(heard.message.data) ELSE 0
           to == IF heard.kind = "request" THEN heard.source ELSE heard.address
           meaning == AnswerMeans(host, heard, wire.meant)
<1>1. /\ wire.to = by
      /\ last' = Heard(by, wire, heard, answer.result, size)
      /\ wire' = IF answer.result = "sent"
                 THEN Frame(other, answer.bytes, to, meaning) ELSE NoFrame
    BY DEF Receive
<1>2. Readable(wire.bytes)
    BY <1>1 DEF FramesInv, FramesAreReadable
<1>3. /\ answer.result = "sent" => Len(answer.bytes) <= Mtu /\ Readable(answer.bytes)
      /\ answer.result = "panic" => size \in Nat /\ size + 20 <= Mtu /\ size + 34 > Mtu
    BY <1>2, AnswersFit
<1> HIDE DEF heard, answer, size, to, meaning
<1>4. FramesAreReadable' /\ FramesAreShort'
    <2>1. CASE answer.result = "sent"
        BY <1>1, <1>3, <2>1, NewFrame
    <2>2. CASE answer.result # "sent"
        BY <1>1, <2>2, NoNewFrame
    <2> QED
        BY <2>1, <2>2
<1>5. OnlyTheLongestPanic'
    <2>1. last'.result = answer.result /\ last'.size = size
        BY <1>1 DEF Heard
    <2>2. CASE answer.result = "panic"
        BY <1>3, <2>1, <2>2, TheLongestDie
    <2>3. CASE answer.result # "panic"
        BY <2>1, <2>3, NobodyDies
    <2> QED
        BY <2>2, <2>3
<1> QED
    BY <1>4, <1>5 DEF FramesInv

LEMMA QuietKeepsFrames ==
    ASSUME FramesInv, wire' = wire, last'.kind \notin {"sent", "heard"}
    PROVE  FramesInv'
<1>1. FramesAreReadable' /\ FramesAreShort'
    BY DEF FramesInv, FramesAreReadable, FramesAreShort, Readable
<1> QED
    BY <1>1, NobodyDies DEF FramesInv

-----------------------------------------------------------------------------
(* The frames of the peer *)

LEMMA MoreIsReadable ==
    ASSUME NEW s, Readable(s), NEW t, NEW n, Sized(t, n)
    PROVE  Readable(s \o t)
<1>1. Sized(s, Len(s)) /\ Len(s) \in Nat /\ Len(s) >= 22
    BY LenProperties DEF Readable, Sized
<1>2. n \in Nat
    BY DEF Sized
<1> DEFINE w == s \o t
<1>3. Joins(w, s, Len(s), t, n)
    BY <1>1, ConcatJoins
<1> HIDE DEF w
<1>4. \A i \in {15, 17, 18, 19, 21, 22} : i \in 1 .. Len(s)
    BY <1>1
<1>5. Sized(w, Len(s) + n) /\ \A i \in 1 .. Len(s) : w[i] = s[i]
    BY <1>3 DEF Joins
<1>6. Len(w) >= 22 /\ \E S : w \in Seq(S)
    BY <1>1, <1>2, <1>5 DEF Sized
<1>7. Readable(w)
    BY <1>4, <1>5, <1>6 DEF Readable
<1> QED
    BY <1>7 DEF w

(* A VLAN tag moves everything behind it by four.                          *)
LEMMA TaggedIsReadable ==
    ASSUME NEW front, Sized(front, 12), NEW tag \in Int, NEW type, NEW etherType \in Int,
           NEW packet, Sized(packet, 20), Leading(packet)
    PROVE  Readable(((front \o (Be16(type) \o Be16(tag))) \o Be16(etherType)) \o packet)
<1> DEFINE mark == Be16(type)
           inside == Be16(tag)
           last2 == Be16(etherType)
           middle == mark \o inside
           sixteen == front \o middle
           header == sixteen \o last2
           whole == header \o packet
<1>1. Sized(mark, 2) /\ Sized(inside, 2) /\ Sized(last2, 2)
    BY SizedNumbers
<1>2. inside[1] \in Int /\ last2[1] \in Int /\ last2[2] \in Int
    BY NumbersAreBytes
<1> HIDE DEF mark, inside, last2
<1>12. Joins(middle, mark, 2, inside, 2)
    BY <1>1, ConcatJoins
<1> HIDE DEF middle
<1>3. Sized(middle, 4) /\ middle[3] = inside[1]
    BY <1>12, JoinedPairs
<1>13. Joins(sixteen, front, 12, middle, 4)
    BY <1>3, ConcatJoins
<1> HIDE DEF sixteen
<1>4. Sized(sixteen, 16) /\ sixteen[15] = middle[3]
    <2>1. Sized(sixteen, 12 + 4) /\ sixteen[12 + 3] = middle[3]
        BY <1>13 DEF Joins
    <2>2. 12 + 4 = 16 /\ 12 + 3 = 15
        OBVIOUS
    <2> QED
        BY <2>1, <2>2
<1>14. Joins(header, sixteen, 16, last2, 2)
    BY <1>1, <1>4, ConcatJoins
<1> HIDE DEF header
<1>5. /\ Sized(header, 18) /\ header[15] = sixteen[15]
      /\ header[17] = last2[1] /\ header[18] = last2[2]
    <2>1. /\ Sized(header, 16 + 2) /\ header[15] = sixteen[15]
          /\ header[16 + 1] = last2[1] /\ header[16 + 2] = last2[2]
        BY <1>14 DEF Joins
    <2>2. 16 + 2 = 18 /\ 16 + 1 = 17
        OBVIOUS
    <2> QED
        BY <2>1, <2>2
<1>15. Joins(whole, header, 18, packet, 20)
    BY <1>5, ConcatJoins
<1>7. whole = ((front \o (Be16(type) \o Be16(tag))) \o Be16(etherType)) \o packet
    BY DEF header, sixteen, middle, mark, inside, last2
<1> HIDE DEF whole
<1>6. /\ Sized(whole, 38)
      /\ whole[15] = header[15] /\ whole[17] = header[17] /\ whole[18] = header[18]
      /\ whole[19] = packet[1] /\ whole[21] = packet[3] /\ whole[22] = packet[4]
    <2>1. /\ Sized(whole, 18 + 20)
          /\ whole[15] = header[15] /\ whole[17] = header[17] /\ whole[18] = header[18]
          /\ whole[18 + 1] = packet[1] /\ whole[18 + 3] = packet[3] /\ whole[18 + 4] = packet[4]
        BY <1>15 DEF Joins
    <2>2. 18 + 20 = 38 /\ 18 + 1 = 19 /\ 18 + 3 = 21 /\ 18 + 4 = 22
        OBVIOUS
    <2> QED
        BY <2>1, <2>2
<1>8. packet[1] \in Int /\ packet[3] \in Int /\ packet[4] \in Int
    BY DEF Leading
<1>9. /\ whole[15] \in Int /\ whole[17] \in Int /\ whole[18] \in Int
      /\ whole[19] \in Int /\ whole[21] \in Int /\ whole[22] \in Int
    BY <1>2, <1>3, <1>4, <1>5, <1>6, <1>8
<1>10. Len(whole) >= 22 /\ \E S : whole \in Seq(S)
    BY <1>6 DEF Sized
<1>11. Readable(whole)
    BY <1>9, <1>10 DEF Readable
<1> QED
    BY <1>7, <1>11

LEMMA PeerFrameIsReadable ==
    ASSUME NEW destination, NEW protocol, NEW payload, NEW n, Sized(payload, n),
           NEW tag, tag = <<>> \/ tag \in [1 .. 1 -> Words],
           NEW padding, NEW k, Sized(padding, k)
    PROVE  Readable(PeerFrame(destination, protocol, payload, tag, padding))
<1> DEFINE ethernet == [EthernetHeader("IPv4", PeerMac, OurMac) EXCEPT !.vlan = tag]
           ipv4 == Ipv4Header(protocol, PeerAddress, destination, Len(payload), Identification)
           packet == WriteIpv4(ipv4)
           front == OurMac \o PeerMac
           type == EtherTypes["IPv4"]
           written == WriteEthernet(ethernet)
<1>1. PeerFrame(destination, protocol, payload, tag, padding)
          = ((written \o packet) \o payload) \o padding
    BY DEF PeerFrame
<1>2. Sized(packet, 20) /\ Leading(packet)
    <2>1. Len(payload) \in Nat
        BY DEF Sized
    <2> QED
        BY <2>1, Ipv4HeaderIsSized
<1>3. Sized(front, 12)
    <2>1. Sized(OurMac, 6) /\ Sized(PeerMac, 6)
        BY HostsHaveMacs, MacsAreSized
    <2>2. Sized(front, 6 + 6)
        BY <2>1, SizedConcat
    <2> QED
        BY <2>2
<1>4. /\ ethernet.vlan = tag /\ ethernet.destination = OurMac /\ ethernet.source = PeerMac
      /\ ethernet.etherType = "IPv4"
    BY DEF EthernetHeader
<1>5. type = 2048
    BY DEF EtherTypes
<1> HIDE DEF packet, ethernet, type, front
<1>6. written =
          (front \o (IF tag = <<>> THEN <<>> ELSE Be16(EtherTypes.VLAN) \o Be16(tag[1])))
              \o Be16(type)
    BY <1>4 DEF WriteEthernet, front, type
<1> HIDE DEF written
<1>7. Readable(written \o packet)
    <2>1. CASE tag = <<>>
        <3>1. written = (front \o <<>>) \o Be16(type)
            BY <1>6, <2>1
        <3>2. Sized(<<>>, 0) /\ Sized(Be16(type), 2)
            BY SizedTuples, SizedNumbers
        <3>3. Sized(front \o <<>>, 12 + 0)
            BY <1>3, <3>2, SizedConcat
        <3>4. Sized((front \o <<>>) \o Be16(type), (12 + 0) + 2)
            BY <3>2, <3>3, SizedConcat
        <3>5. Sized(written, 14)
            BY <3>1, <3>4
        <3> QED
            BY <1>2, <3>5, LeadingReads
    <2>2. CASE tag # <<>>
        <3>1. tag[1] \in Int
            <4>1. tag \in [1 .. 1 -> Words] /\ 1 \in 1 .. 1
                BY <2>2
            <4>2. tag[1] \in Words
                BY <4>1
            <4> QED
                BY <4>2, WordsAreNumbers
        <3>2. written = (front \o (Be16(EtherTypes.VLAN) \o Be16(tag[1]))) \o Be16(type)
            BY <1>6, <2>2
        <3>3. type \in Int
            BY <1>5
        <3> QED
            BY <1>2, <1>3, <3>1, <3>2, <3>3, TaggedIsReadable
    <2> QED
        BY <2>1, <2>2
<1>8. Readable((written \o packet) \o payload)
    BY <1>7, MoreIsReadable
<1> QED
    BY <1>1, <1>8, MoreIsReadable

LEMMA PeerSendsKeeps ==
    ASSUME NEW bytes, NEW destination, NEW meant, Readable(bytes),
           wire' = Frame("us", bytes, destination, meant), last' = Nothing
    PROVE  FramesInv'
<1>1. FramesAreReadable' /\ FramesAreShort'
    BY NewFrame
<1>2. OnlyTheLongestPanic'
    BY NobodyDies DEF Nothing
<1> QED
    BY <1>1, <1>2 DEF FramesInv

LEMMA PeersDatagramsKeepFrames ==
    ASSUME NEW destination, NEW data \in PeerPayloads, NEW tag \in Tags,
           NEW padding, NEW k, Sized(padding, k),
           PeerSendsDatagram(destination, data, tag, padding)
    PROVE  FramesInv'
<1> DEFINE payload == Datagram(PeerAddress, destination, data)
           bytes == PeerFrame(destination, "UDP", payload, tag, padding)
<1>1. data \in Seq(0 .. 255)
    BY PathAssumption DEF PathAssumption
<1>2. Sized(payload, 8 + Len(data))
    BY <1>1, SizedSequence, DatagramIsSized
<1>3. tag = <<>> \/ tag \in [1 .. 1 -> Words]
    BY PathAssumption DEF PathAssumption
<1> HIDE DEF payload
<1>4. Readable(bytes)
    BY <1>2, <1>3, PeerFrameIsReadable
<1>5. \E meant : wire' = Frame("us", bytes, destination, meant)
    BY DEF PeerSendsDatagram, PeerSends, payload
<1>6. last' = Nothing
    BY DEF PeerSendsDatagram, PeerSends
<1> HIDE DEF bytes
<1> QED
    BY <1>4, <1>5, <1>6, PeerSendsKeeps

LEMMA PeersPingsKeepFrames ==
    ASSUME NEW destination, NEW data \in PeerPayloads, NEW padding, NEW k, Sized(padding, k),
           PeerPings(destination, data, padding)
    PROVE  FramesInv'
<1> DEFINE payload == WriteEcho(Echo("EchoRequest", Identifier, Sequence, data))
           bytes == PeerFrame(destination, "ICMP", payload, <<>>, padding)
<1>1. data \in Seq(0 .. 255)
    BY PathAssumption DEF PathAssumption
<1>2. Sized(payload, 8 + Len(data))
    BY <1>1, SizedSequence, EchoIsSized
<1> HIDE DEF payload
<1>4. Readable(bytes)
    BY <1>2, PeerFrameIsReadable
<1>5. \E meant : wire' = Frame("us", bytes, destination, meant)
    BY DEF PeerPings, PeerSends, payload
<1>6. last' = Nothing
    BY DEF PeerPings, PeerSends
<1> HIDE DEF bytes
<1> QED
    BY <1>4, <1>5, <1>6, PeerSendsKeeps

LEMMA PeersQuestionsKeepFrames ==
    ASSUME NEW a, PeerAsks(a)
    PROVE  FramesInv'
<1> DEFINE arp == ArpRequest(PeerMac, a, PeerAddress)
           payload == WriteArp(arp)
           header == EthernetHeader("ARP", PeerMac, Broadcast6)
           written == WriteEthernet(header)
           bytes == written \o payload
<1>1. arp.senderMac = PeerMac /\ arp.targetMac = Broadcast6 /\ arp.operation = "Request"
    BY DEF ArpRequest
<1>2. Sized(PeerMac, 6) /\ Sized(Broadcast6, 6)
    BY HostsHaveMacs, MacsAreSized, BroadcastIsSized
<1>3. Sized(payload, 28) /\ Leading(payload)
    <2> HIDE DEF arp
    <2> QED
        BY <1>1, <1>2, ArpIsSized
<1>4. Sized(written, 14)
    <2>1. written = ((Broadcast6 \o PeerMac) \o <<>>) \o Be16(EtherTypes["ARP"])
        BY DEF EthernetHeader, WriteEthernet
    <2>2. Sized(<<>>, 0) /\ Sized(Be16(EtherTypes["ARP"]), 2)
        BY SizedTuples, SizedNumbers
    <2>3. Sized(Broadcast6 \o PeerMac, 6 + 6)
        BY <1>2, SizedConcat
    <2>4. Sized((Broadcast6 \o PeerMac) \o <<>>, (6 + 6) + 0)
        BY <2>2, <2>3, SizedConcat
    <2>5. Sized(((Broadcast6 \o PeerMac) \o <<>>) \o Be16(EtherTypes["ARP"]), ((6 + 6) + 0) + 2)
        BY <2>2, <2>4, SizedConcat
    <2>6. ((6 + 6) + 0) + 2 = 14
        OBVIOUS
    <2> QED
        BY <2>1, <2>5, <2>6
<1>5. \E meant : wire' = Frame("us", bytes, a, meant)
    BY DEF PeerAsks, PeerSends
<1>6. last' = Nothing
    BY DEF PeerAsks, PeerSends
<1> HIDE DEF payload, written
<1>7. Readable(bytes)
    <2>1. 28 >= 8
        OBVIOUS
    <2> QED
        BY <1>3, <1>4, <2>1, LeadingReads
<1> HIDE DEF bytes
<1> QED
    BY <1>5, <1>6, <1>7, PeerSendsKeeps

LEMMA QuotedIsSized == Sized(Quoted, 28)
<1>1. Quoted = SubSeq(wire.bytes, 15, 42)
    BY DEF Quoted, Slice
<1>2. 15 \in Int /\ 42 \in Int /\ 15 <= 42 /\ 42 - 15 + 1 = 28
    OBVIOUS
<1> QED
    BY <1>1, <1>2, SliceIsSized

LEMMA PeersRefusalsKeepFrames ==
    ASSUME NEW code, PeerRefuses(code)
    PROVE  FramesInv'
<1> DEFINE front == <<IcmpTypes.DestinationUnreachable, code>>
           rest == <<0, 0, 0, 0>>
           message == WriteIcmp(front, rest \o Quoted)
<1>1. PICK a, meant :
          wire' = Frame("us", PeerFrame(a, "ICMP", message, <<>>, <<>>), a, meant)
    BY DEF PeerRefuses
<1>2. last' = Nothing
    BY DEF PeerRefuses
<1>3. Sized(front, 2) /\ Sized(rest, 4) /\ Sized(<<>>, 0)
    BY SizedTuples
<1> HIDE DEF front, rest
<1>4. Sized(rest \o Quoted, 4 + 28)
    BY <1>3, QuotedIsSized, SizedConcat
<1>5. Sized(message, 4 + (4 + 28))
    BY <1>3, <1>4, IcmpIsSized
<1> HIDE DEF message
<1>6. Readable(PeerFrame(a, "ICMP", message, <<>>, <<>>))
    BY <1>3, <1>5, PeerFrameIsReadable
<1> QED
    BY <1>1, <1>2, <1>6, PeerSendsKeeps

LEMMA Complained ==
    ASSUME NEW message \in Complaints
    PROVE  /\ message.data \in Seq(0 .. 255)
           /\ message.kind \in {"SourceQuench", "Redirect", "TimeExceeded", "ParameterProblem"}
BY PathAssumption DEF PathAssumption, ControlMessage

LEMMA PeersComplaintsKeepFrames ==
    ASSUME NEW message \in Complaints, NEW destination, PeerComplains(message, destination)
    PROVE  FramesInv'
<1> DEFINE code == IF message.kind \in DOMAIN LastCode THEN message.code ELSE 0
           front == <<IcmpTypes[message.kind], code>>
           second == CASE message.kind = "Redirect" -> Octets(message.gateway)
                       [] message.kind = "ParameterProblem" -> <<0, message.pointer, 0, 0>>
                       [] message.kind \in {"SourceQuench", "TimeExceeded"} -> <<0, 0, 0, 0>>
           body == second \o message.data
           payload == WriteIcmp(front, body)
           bytes == PeerFrame(destination, "ICMP", payload, <<>>, <<>>)
<1>1. \E meant : wire' = Frame("us", bytes, destination, meant)
    BY DEF PeerComplains, PeerSends
<1>2. last' = Nothing
    BY DEF PeerComplains, PeerSends
<1>3. /\ message.data \in Seq(0 .. 255)
      /\ message.kind \in {"SourceQuench", "Redirect", "TimeExceeded", "ParameterProblem"}
    BY Complained
<1>4. Sized(second, 4)
    <2>1. /\ Sized(Octets(message.gateway), 4) /\ Sized(<<0, message.pointer, 0, 0>>, 4)
          /\ Sized(<<0, 0, 0, 0>>, 4)
        BY SizedTuples, SizedNumbers
    <2>2. second \in {Octets(message.gateway), <<0, message.pointer, 0, 0>>, <<0, 0, 0, 0>>}
        BY <1>3
    <2> HIDE DEF second
    <2> QED
        BY <2>1, <2>2
<1>5. Sized(front, 2) /\ Sized(<<>>, 0)
    BY SizedTuples
<1>6. Sized(message.data, Len(message.data))
    BY <1>3, SizedSequence
<1> HIDE DEF front, second
<1>7. Sized(body, 4 + Len(message.data))
    BY <1>4, <1>6, SizedConcat
<1> HIDE DEF body
<1>8. Sized(payload, 4 + (4 + Len(message.data)))
    BY <1>5, <1>7, IcmpIsSized
<1> HIDE DEF payload
<1>9. Readable(bytes)
    BY <1>5, <1>8, PeerFrameIsReadable
<1> HIDE DEF bytes
<1> QED
    BY <1>1, <1>2, <1>9, PeerSendsKeeps

-----------------------------------------------------------------------------
(* All together *)

LEMMA PeerSendsFrames ==
    ASSUME \/ \E d, data, tag, padding : PeerSendsDatagram(d, data, tag, padding)
           \/ \E d, data, padding : PeerPings(d, data, padding)
           \/ \E d : PeerAsks(d)
           \/ \E d, message : PeerComplains(message, d)
    PROVE  \E bytes, destination, meant : PeerSends(bytes, destination, meant)
BY DEF PeerSendsDatagram, PeerPings, PeerAsks, PeerComplains

(* Whatever happens to packets, the bindings change as PortSharing says.   *)
LEMMA BindingsOnlyChange ==
    ASSUME [PathNext]_path
    PROVE  [Next]_vars
<1>1. CASE UNCHANGED path
    BY <1>1 DEF path, vars
<1>2. CASE \E g \in Grants : GrantAddress(g.address, g.prefix)
    BY <1>2 DEF GrantAddress, vars
<1>3. CASE \E g \in Grants : RemoveAddress(g.address)
    BY <1>3 DEF RemoveAddress, vars
<1>4. CASE \E request \in RouteRequests : AddRoute(request)
    BY <1>4 DEF AddRoute, vars
<1>5. CASE ChangeBindings
    BY <1>5 DEF ChangeBindings
<1>6. CASE \E b \in ToSet(bindings), d \in Destinations, data \in Payloads : SendDatagram(b, d, data)
    BY <1>6 DEF SendDatagram, PutOnWire, vars
<1>7. CASE \E d \in Destinations, time \in Times : Ping(d, time)
    BY <1>7 DEF Ping, PutOnWire, vars
<1>8. CASE \E bytes, destination, meant : PeerSends(bytes, destination, meant)
    BY <1>8 DEF PeerSends, vars
<1>9. CASE \E code \in Codes : PeerRefuses(code)
    BY <1>9 DEF PeerRefuses, vars
<1>10. CASE WeReceive \/ PeerReceives
    BY <1>10 DEF WeReceive, PeerReceives, Receive, vars
<1>11. CASE LoseFrame \/ ReadReport
    BY <1>11 DEF LoseFrame, ReadReport, vars
<1> QED
    BY <1>1, <1>2, <1>3, <1>4, <1>5, <1>6, <1>7, <1>8, <1>9, <1>10, <1>11, PeerSendsFrames
    DEF PathNext

LEMMA RoutesUnchanged ==
    ASSUME RoutesInv, UNCHANGED tables
    PROVE  RoutesInv'
BY DEF RoutesInv, tables, RoutesInOrder, SourcesAreOurs, CopiesAreContested,
       UncontestedNetworksAreRouted

LEMMA RoutesStep ==
    ASSUME RoutesInv, [PathNext]_path
    PROVE  RoutesInv'
<1>1. CASE UNCHANGED path
    BY <1>1, RoutesUnchanged DEF path, tables
<1>2. CASE \E g \in Grants : GrantAddress(g.address, g.prefix)
    <2>1. PICK g \in Grants : GrantAddress(g.address, g.prefix)
        BY <1>2
    <2>2. g.address \in Addresses /\ g.prefix \in 0 .. AddressBits
        BY PathAssumption DEF PathAssumption
    <2> QED
        BY <2>1, <2>2, GrantKeepsRoutes
<1>3. CASE \E g \in Grants : RemoveAddress(g.address)
    BY <1>3, RemoveKeepsRoutes
<1>4. CASE \E request \in RouteRequests : AddRoute(request)
    BY <1>4, AddRouteKeepsRoutes
<1>5. CASE ChangeBindings
    BY <1>5, RoutesUnchanged DEF ChangeBindings
<1>6. CASE \E b \in ToSet(bindings), d \in Destinations, data \in Payloads : SendDatagram(b, d, data)
    BY <1>6, RoutesUnchanged DEF SendDatagram, PutOnWire
<1>7. CASE \E d \in Destinations, time \in Times : Ping(d, time)
    BY <1>7, RoutesUnchanged DEF Ping, PutOnWire
<1>8. CASE \E bytes, destination, meant : PeerSends(bytes, destination, meant)
    BY <1>8, RoutesUnchanged DEF PeerSends
<1>9. CASE \E code \in Codes : PeerRefuses(code)
    BY <1>9, RoutesUnchanged DEF PeerRefuses
<1>10. CASE WeReceive \/ PeerReceives
    BY <1>10, RoutesUnchanged DEF WeReceive, PeerReceives, Receive
<1>11. CASE LoseFrame \/ ReadReport
    BY <1>11, RoutesUnchanged DEF LoseFrame, ReadReport
<1> QED
    BY <1>1, <1>2, <1>3, <1>4, <1>5, <1>6, <1>7, <1>8, <1>9, <1>10, <1>11, PeerSendsFrames
    DEF PathNext

LEMMA FramesStep ==
    ASSUME FramesInv, [PathNext]_path
    PROVE  FramesInv'
<1>1. CASE UNCHANGED path
    BY <1>1 DEF path, FramesInv, FramesAreReadable, Readable, FramesAreShort,
                OnlyTheLongestPanic, Alive
<1>2. CASE \E g \in Grants : GrantAddress(g.address, g.prefix)
    BY <1>2, AnnouncementsKeepFrames
<1>3. CASE \E g \in Grants : RemoveAddress(g.address)
    BY <1>3, QuietKeepsFrames DEF RemoveAddress, Nothing
<1>4. CASE \E request \in RouteRequests : AddRoute(request)
    BY <1>4, QuietKeepsFrames DEF AddRoute
<1>5. CASE ChangeBindings
    BY <1>5, QuietKeepsFrames DEF ChangeBindings, Nothing
<1>6. CASE \E b \in ToSet(bindings), d \in Destinations, data \in Payloads : SendDatagram(b, d, data)
    BY <1>6, DatagramsKeepFrames
<1>7. CASE \E d \in Destinations, time \in Times : Ping(d, time)
    BY <1>7, PingsKeepFrames
<1>8. CASE \E d \in V4, data \in PeerPayloads, tag \in Tags :
              PeerSendsDatagram(d, data, tag, <<0, 0, 0>>)
    <2>1. Sized(<<0, 0, 0>>, 3)
        BY SizedTuples
    <2> QED
        BY <1>8, <2>1, PeersDatagramsKeepFrames
<1>9. CASE \E d \in PeerDestinations, data \in PeerPayloads : PeerPings(d, data, <<0>>)
    <2>1. Sized(<<0>>, 1)
        BY SizedTuples
    <2> QED
        BY <1>9, <2>1, PeersPingsKeepFrames
<1>10. CASE \E d \in PeerDestinations : PeerAsks(d)
    BY <1>10, PeersQuestionsKeepFrames
<1>11. CASE \E code \in Codes : PeerRefuses(code)
    BY <1>11, PeersRefusalsKeepFrames
<1>12. CASE \E d \in PeerDestinations, message \in Complaints : PeerComplains(message, d)
    BY <1>12, PeersComplaintsKeepFrames
<1>13. CASE WeReceive
    BY <1>13, HostsHaveMacs, ReceiveKeepsFrames DEF WeReceive
<1>14. CASE PeerReceives
    BY <1>14, HostsHaveMacs, ReceiveKeepsFrames DEF PeerReceives
<1>15. CASE LoseFrame
    <2>1. wire' = NoFrame /\ last' = Nothing
        BY <1>15 DEF LoseFrame
    <2> QED
        BY <2>1, NoNewFrame, NobodyDies DEF FramesInv, Nothing
<1>16. CASE ReadReport
    BY <1>16, QuietKeepsFrames DEF ReadReport, Nothing
<1> QED
    BY <1>1, <1>2, <1>3, <1>4, <1>5, <1>6, <1>7, <1>8, <1>9, <1>10, <1>11, <1>12, <1>13,
       <1>14, <1>15, <1>16
    DEF PathNext

LEMMA PartsOfIInv == IInv <=> RoutesInv /\ BindingsInv /\ FramesInv
BY MutualIsMutual
DEF IInv, TablesTypeOK, RoutesInv, BindingsInv, FramesInv

LEMMA InitHolds == PathInit => RoutesInv /\ BindingsInv /\ FramesInv
<1> SUFFICES ASSUME PathInit
             PROVE  RoutesInv /\ BindingsInv /\ FramesInv
    OBVIOUS
<1>1. /\ addresses = <<>> /\ routes = <<>> /\ bindings = <<>> /\ made = 0
      /\ wire = NoFrame /\ last = Nothing
    BY DEF PathInit, Init
<1>2. /\ \A S : <<>> \in Seq(S)
      /\ Len(<<>>) = 0 /\ 1 .. 0 = {}
    OBVIOUS
<1>3. \A x : x \notin ToSet(<<>>)
    BY <1>2, PlacesOfSet
<1>4. RoutesInv
    <2>1. RoutesInOrder
        BY <1>1, <1>2 DEF RoutesInOrder, InOrder
    <2>2. SourcesAreOurs /\ UncontestedNetworksAreRouted
        BY <1>1, <1>3 DEF SourcesAreOurs, UncontestedNetworksAreRouted
    <2>3. CopiesAreContested
        BY <1>1, <1>2 DEF CopiesAreContested
    <2> QED
        BY <1>1, <1>2, <2>1, <2>2, <2>3 DEF RoutesInv
<1>5. BindingsInv
    BY <1>1, <1>2 DEF BindingsInv, SocketsAreApart, Mutual
<1>6. FramesInv
    <2>1. wire.to = "nobody" /\ last.kind = "nothing"
        BY <1>1 DEF NoFrame, Nothing
    <2> QED
        BY <2>1 DEF FramesInv, FramesAreReadable, FramesAreShort, OnlyTheLongestPanic, Alive
<1> QED
    BY <1>4, <1>5, <1>6

-----------------------------------------------------------------------------
(* Reading what was written *)

(* Piece by piece: from place `at` on, the n bytes of a piece.             *)
Holds(bytes, at, piece, n) ==
    /\ at \in Nat /\ Sized(piece, n)
    /\ Sized(bytes, Len(bytes)) /\ at + n <= Len(bytes)
    /\ \A i \in 1 .. n : bytes[at + i] = piece[i]

LEMMA HoldsParts ==
    ASSUME NEW s, NEW m, Sized(s, m), NEW t, NEW n, Sized(t, n)
    PROVE  Holds(s \o t, 0, s, m) /\ Holds(s \o t, m, t, n) /\ Sized(s \o t, m + n)
<1> DEFINE w == s \o t
<1>1. Joins(w, s, m, t, n)
    BY ConcatJoins
<1> HIDE DEF w
<1>2. Sized(w, m + n) /\ (\A i \in 1 .. m : w[i] = s[i]) /\ (\A i \in 1 .. n : w[m + i] = t[i])
    BY <1>1 DEF Joins
<1>3. m \in Nat /\ n \in Nat /\ Len(w) = m + n
    BY <1>2 DEF Sized
<1>4. Sized(w, Len(w))
    BY <1>2, <1>3
<1>5. \A i \in 1 .. m : 0 + i = i
    BY <1>3
<1>6. Holds(w, 0, s, m)
    BY <1>2, <1>3, <1>4, <1>5 DEF Holds
<1>7. Holds(w, m, t, n)
    BY <1>2, <1>3, <1>4 DEF Holds
<1> QED
    BY <1>2, <1>6, <1>7 DEF w

LEMMA HoldsAll ==
    ASSUME NEW s, NEW n, Sized(s, n)
    PROVE  Holds(s, 0, s, n)
<1>1. n \in Nat /\ Len(s) = n /\ \A i \in 1 .. n : 0 + i = i
    BY DEF Sized
<1> QED
    BY <1>1 DEF Holds

LEMMA HoldsWithin ==
    ASSUME NEW bytes, NEW at, NEW p, NEW n, Holds(bytes, at, p, n),
           NEW inner, NEW q, NEW k, Holds(p, inner, q, k)
    PROVE  Holds(bytes, at + inner, q, k)
<1>1. /\ at \in Nat /\ inner \in Nat /\ n \in Nat /\ k \in Nat
      /\ Len(p) = n /\ inner + k <= n /\ at + n <= Len(bytes) /\ Len(bytes) \in Nat
    BY DEF Holds, Sized
<1>2. ASSUME NEW i \in 1 .. k
      PROVE  bytes[(at + inner) + i] = q[i]
    <2>1. inner + i \in 1 .. n /\ at + (inner + i) = (at + inner) + i
        BY <1>1
    <2>2. bytes[at + (inner + i)] = p[inner + i] /\ p[inner + i] = q[i]
        BY <2>1 DEF Holds
    <2> QED
        BY <2>1, <2>2
<1>3. at + inner \in Nat /\ (at + inner) + k <= Len(bytes)
    BY <1>1
<1> QED
    BY <1>2, <1>3 DEF Holds

(* Taking a part of the bytes leaves the pieces in it.                     *)
LEMMA SliceKeeps ==
    ASSUME NEW bytes, NEW at, NEW p, NEW n, Holds(bytes, at, p, n),
           NEW from \in Nat, NEW to \in Nat, from <= at, at + n <= to
    PROVE  Holds(Slice(bytes, from, to), at - from, p, n)
<1> DEFINE S == {bytes[i] : i \in from + 1 .. to}
           part == SubSeq(bytes, from + 1, to)
<1>1. at \in Nat /\ n \in Nat
    BY DEF Holds, Sized
<1>2. \A i \in from + 1 .. to : bytes[i] \in S
    OBVIOUS
<1>3. from + 1 \in Int /\ to \in Int
    OBVIOUS
<1> HIDE DEF S
<1>4. /\ Len(part) = IF from + 1 <= to THEN to - (from + 1) + 1 ELSE 0
      /\ \A i \in 1 .. to - (from + 1) + 1 : part[i] = bytes[from + 1 + i - 1]
    BY <1>2, <1>3, SubSeqProperties
<1>5. Sized(part, IF from + 1 <= to THEN to - (from + 1) + 1 ELSE 0)
    BY <1>3, SliceIsSized
<1> HIDE DEF part
<1>6. Len(part) = to - from /\ Sized(part, Len(part))
    <2>1. (IF from + 1 <= to THEN to - (from + 1) + 1 ELSE 0) = to - from
        BY <1>1
    <2> QED
        BY <1>4, <1>5, <2>1
<1>7. ASSUME NEW i \in 1 .. n
      PROVE  part[(at - from) + i] = p[i]
    <2>1. (at - from) + i \in 1 .. to - (from + 1) + 1
        BY <1>1
    <2>2. from + 1 + ((at - from) + i) - 1 = at + i
        BY <1>1
    <2>3. part[(at - from) + i] = bytes[at + i]
        BY <1>4, <2>1, <2>2
    <2> QED
        BY <2>3 DEF Holds
<1>8. at - from \in Nat /\ (at - from) + n <= Len(part)
    BY <1>1, <1>6
<1>9. Sized(p, n)
    BY DEF Holds
<1>10. Holds(part, at - from, p, n)
    BY <1>6, <1>7, <1>8, <1>9 DEF Holds
<1> QED
    BY <1>10 DEF Slice, part

LEMMA SameBytes ==
    ASSUME NEW s, NEW t, NEW n, Sized(s, n), Sized(t, n), \A i \in 1 .. n : s[i] = t[i]
    PROVE  s = t
<1>1. PICK S : s \in Seq(S)
    BY DEF Sized
<1>2. PICK T : t \in Seq(T)
    BY DEF Sized
<1>3. s \in Seq(S \cup T) /\ t \in Seq(S \cup T)
    BY <1>1, <1>2, SeqMonotonic
<1>4. Len(s) = n /\ Len(t) = n
    BY DEF Sized
<1> QED
    BY <1>3, <1>4, SeqEqual

(* A part that is one piece is that piece.                                 *)
LEMMA HeldIsPiece ==
    ASSUME NEW part, NEW p, NEW n, Holds(part, 0, p, n), Len(part) = n
    PROVE  part = p
<1>1. n \in Nat /\ Sized(part, n) /\ Sized(p, n)
    BY DEF Holds, Sized
<1>2. \A i \in 1 .. n : part[i] = p[i]
    <2>1. \A i \in 1 .. n : 0 + i = i
        BY <1>1
    <2> QED
        BY <2>1 DEF Holds
<1> QED
    BY <1>1, <1>2, SameBytes

LEMMA SliceIsPiece ==
    ASSUME NEW bytes, NEW at, NEW p, NEW n, Holds(bytes, at, p, n), NEW to, to = at + n
    PROVE  Slice(bytes, at, to) = p
<1>1. at \in Nat /\ n \in Nat /\ to \in Nat /\ at <= at /\ at + n <= to /\ at - at = 0
    BY DEF Holds, Sized
<1>2. Holds(Slice(bytes, at, to), at - at, p, n)
    BY <1>1, SliceKeeps
<1>3. Sized(SubSeq(bytes, at + 1, to), IF at + 1 <= to THEN to - (at + 1) + 1 ELSE 0)
    <2>1. at + 1 \in Int /\ to \in Int
        BY <1>1
    <2> QED
        BY <2>1, SliceIsSized
<1>4. (IF at + 1 <= to THEN to - (at + 1) + 1 ELSE 0) = n
    BY <1>1
<1>5. Len(Slice(bytes, at, to)) = n
    BY <1>3, <1>4 DEF Slice, Sized
<1> QED
    BY <1>1, <1>2, <1>5, HeldIsPiece

LEMMA FromIsSlice ==
    ASSUME NEW bytes, NEW from
    PROVE  From(bytes, from) = Slice(bytes, from, Len(bytes))
BY DEF From, Slice

LEMMA FromKeeps ==
    ASSUME NEW bytes, NEW at, NEW p, NEW n, Holds(bytes, at, p, n), NEW from \in Nat, from <= at
    PROVE  Holds(From(bytes, from), at - from, p, n)
<1>1. Len(bytes) \in Nat /\ at + n <= Len(bytes)
    BY DEF Holds, Sized
<1>2. Holds(Slice(bytes, from, Len(bytes)), at - from, p, n)
    BY <1>1, SliceKeeps
<1> QED
    BY <1>2, FromIsSlice

LEMMA FromIsPiece ==
    ASSUME NEW bytes, NEW at, NEW p, NEW n, Holds(bytes, at, p, n), Len(bytes) = at + n
    PROVE  From(bytes, at) = p
BY SliceIsPiece, FromIsSlice

LEMMA ByteOfPiece ==
    ASSUME NEW bytes, NEW at, NEW p, NEW n, Holds(bytes, at, p, n), NEW i \in Nat, i < n
    PROVE  Byte(bytes, at + i) = p[i + 1]
<1>1. at \in Nat /\ n \in Nat
    BY DEF Holds, Sized
<1>2. i + 1 \in 1 .. n /\ at + (i + 1) = (at + i) + 1
    BY <1>1
<1>3. bytes[at + (i + 1)] = p[i + 1]
    BY <1>2 DEF Holds
<1> QED
    BY <1>2, <1>3 DEF Byte

LEMMA WordOfPair ==
    ASSUME NEW bytes, NEW at, NEW a, NEW b, Holds(bytes, at, <<a, b>>, 2)
    PROVE  /\ Byte(bytes, at) = a /\ Byte(bytes, at + 1) = b
           /\ At16(bytes, at) = a * 256 + b
<1>1. at \in Nat /\ at + 0 = at /\ 0 + 1 = 1 /\ 1 + 1 = 2 /\ 0 < 2 /\ 1 < 2
    BY DEF Holds
<1>2. Byte(bytes, at + 0) = <<a, b>>[0 + 1] /\ Byte(bytes, at + 1) = <<a, b>>[1 + 1]
    BY <1>1, ByteOfPiece
<1>3. Byte(bytes, at) = a /\ Byte(bytes, at + 1) = b
    BY <1>1, <1>2
<1> QED
    BY <1>3 DEF At16

LEMMA WordIsRead ==
    ASSUME NEW bytes, NEW at, NEW k \in Words, Holds(bytes, at, Be16(k), 2)
    PROVE  At16(bytes, at) = k
<1>1. k \in Int
    BY WordsAreNumbers
<1>2. At16(bytes, at) = (k \div 256) * 256 + (k % 256)
    <2> DEFINE a == k \div 256
               b == k % 256
    <2>1. Be16(k) = <<a, b>>
        BY DEF Be16
    <2> HIDE DEF a, b
    <2>2. Holds(bytes, at, <<a, b>>, 2)
        BY <2>1
    <2>3. At16(bytes, at) = a * 256 + b
        BY <2>2, WordOfPair
    <2> QED
        BY <2>3 DEF a, b
<1>3. (k \div 256) * 256 + (k % 256) = k
    BY <1>1
<1> QED
    BY <1>2, <1>3

LEMMA OctetsAreWords ==
    ASSUME NEW a \in Addresses
    PROVE  a \div 65536 \in Words /\ a % 65536 \in Words /\ (a \div 65536) * 65536 + (a % 65536) = a
<1>1. 2^AddressBits \in Nat
    BY BitsAssumption, PowersAssumption DEF BitsAssumption, PowersAssumption
<1> DEFINE top == 2^AddressBits - 1
<1>2. top \div 65536 \in Words
    BY WidthAssumption DEF WidthAssumption
<1>3. a \in 0 .. top /\ top \in Int
    BY <1>1 DEF Addresses
<1> HIDE DEF top
<1>4. \A n \in Int : n \in Words <=> 0 <= n /\ n <= 65535
    BY DEF Words
<1>5. a \in Int /\ 0 <= a /\ a <= top
    BY <1>3
<1>6. a \div 65536 \in Int /\ 0 <= a \div 65536 /\ a \div 65536 <= top \div 65536
      /\ top \div 65536 \in Int
    BY <1>3, <1>5
<1>7. a % 65536 \in Int /\ 0 <= a % 65536 /\ a % 65536 <= 65535
    BY <1>5
<1>8. a \div 65536 <= 65535
    BY <1>2, <1>4, <1>6
<1>9. (a \div 65536) * 65536 + (a % 65536) = a
    BY <1>5
<1> QED
    BY <1>4, <1>6, <1>7, <1>8, <1>9

LEMMA AddressIsRead ==
    ASSUME NEW bytes, NEW at, NEW a \in Addresses, Holds(bytes, at, Octets(a), 4)
    PROVE  AddressAt(bytes, at) = a
<1> DEFINE high == a \div 65536
           low == a % 65536
<1>1. high \in Words /\ low \in Words /\ high * 65536 + low = a
    BY OctetsAreWords
<1>2. Octets(a) = Be16(high) \o Be16(low)
    BY DEF Octets
<1> HIDE DEF high, low
<1>3. Sized(Be16(high), 2) /\ Sized(Be16(low), 2)
    BY SizedNumbers
<1>4. Holds(Octets(a), 0, Be16(high), 2) /\ Holds(Octets(a), 2, Be16(low), 2)
    BY <1>2, <1>3, HoldsParts
<1>5. Holds(bytes, at + 0, Be16(high), 2) /\ Holds(bytes, at + 2, Be16(low), 2)
    BY <1>4, HoldsWithin
<1>6. at + 0 = at
    BY DEF Holds
<1>7. At16(bytes, at) = high /\ At16(bytes, at + 2) = low
    BY <1>1, <1>5, <1>6, WordIsRead
<1> QED
    BY <1>1, <1>7 DEF AddressAt

LEMMA NameIsRead ==
    ASSUME NEW codes, NEW name \in DOMAIN codes,
           \A other \in DOMAIN codes : codes[other] = codes[name] => other = name
    PROVE  NameIn(codes, codes[name]) = name
BY DEF NameIn

LEMMA WordBounds == \A n \in Int : n \in Words <=> 0 <= n /\ n <= 65535
BY DEF Words

LEMMA HoldsMore ==
    ASSUME NEW s, NEW m, Sized(s, m), NEW t, NEW n, Sized(t, n),
           NEW at, NEW p, NEW k, Holds(s, at, p, k)
    PROVE  Holds(s \o t, at, p, k)
<1>1. Holds(s \o t, 0, s, m)
    BY HoldsParts
<1>2. Holds(s \o t, 0 + at, p, k)
    BY <1>1, HoldsWithin
<1>3. 0 + at = at
    BY DEF Holds
<1> QED
    BY <1>2, <1>3

LEMMA ThreeParts ==
    ASSUME NEW a, NEW i, Sized(a, i), NEW b, NEW j, Sized(b, j), NEW c, NEW k, Sized(c, k)
    PROVE  LET w == (a \o b) \o c
           IN  /\ Holds(w, 0, a, i) /\ Holds(w, i, b, j) /\ Holds(w, i + j, c, k)
               /\ Sized(w, i + j + k)
<1>1. Holds(a \o b, 0, a, i) /\ Holds(a \o b, i, b, j) /\ Sized(a \o b, i + j)
    BY HoldsParts
<1> DEFINE s == a \o b
<1> HIDE DEF s
<1>2. Holds(s, 0, a, i) /\ Holds(s, i, b, j) /\ Sized(s, i + j)
    BY <1>1 DEF s
<1>3. Holds(s \o c, i + j, c, k) /\ Sized(s \o c, (i + j) + k)
    BY <1>2, HoldsParts
<1>4. Holds(s \o c, 0, a, i) /\ Holds(s \o c, i, b, j)
    BY <1>2, HoldsMore
<1> QED
    BY <1>3, <1>4 DEF s

LEMMA FourParts ==
    ASSUME NEW a, NEW i, Sized(a, i), NEW b, NEW j, Sized(b, j), NEW c, NEW k, Sized(c, k),
           NEW d, NEW l, Sized(d, l)
    PROVE  LET w == ((a \o b) \o c) \o d
           IN  /\ Holds(w, 0, a, i) /\ Holds(w, i, b, j) /\ Holds(w, i + j, c, k)
               /\ Holds(w, i + j + k, d, l) /\ Sized(w, i + j + k + l)
<1> DEFINE s == (a \o b) \o c
<1>1. /\ Holds(s, 0, a, i) /\ Holds(s, i, b, j) /\ Holds(s, i + j, c, k)
      /\ Sized(s, i + j + k)
    BY ThreeParts
<1> HIDE DEF s
<1>2. Holds(s \o d, i + j + k, d, l) /\ Sized(s \o d, (i + j + k) + l)
    BY <1>1, HoldsParts
<1>3. Holds(s \o d, 0, a, i) /\ Holds(s \o d, i, b, j) /\ Holds(s \o d, i + j, c, k)
    BY <1>1, HoldsMore
<1> QED
    BY <1>2, <1>3 DEF s

LEMMA EtherTypesAreRead ==
    /\ NameIn(EtherTypes, 2048) = "IPv4" /\ NameIn(EtherTypes, 2054) = "ARP"
    /\ NameIn(EtherTypes, 33024) = "VLAN"
    /\ EtherTypes["IPv4"] = 2048 /\ EtherTypes["ARP"] = 2054 /\ EtherTypes["VLAN"] = 33024
<1>1. /\ DOMAIN EtherTypes = {"IPv4", "ARP", "VLAN", "IPv6"}
      /\ EtherTypes["IPv4"] = 2048 /\ EtherTypes["ARP"] = 2054
      /\ EtherTypes["VLAN"] = 33024 /\ EtherTypes["IPv6"] = 34525
    BY DEF EtherTypes
<1>2. /\ NameIn(EtherTypes, EtherTypes["IPv4"]) = "IPv4"
      /\ NameIn(EtherTypes, EtherTypes["ARP"]) = "ARP"
      /\ NameIn(EtherTypes, EtherTypes["VLAN"]) = "VLAN"
    BY <1>1, NameIsRead
<1> QED
    BY <1>1, <1>2

(* EthernetHeader::from_bytes of what write_to_buffer wrote, VLAN tag and  *)
(* all.                                                                    *)
LEMMA EthernetIsRead ==
    ASSUME NEW source, Sized(source, 6), NEW destination, Sized(destination, 6),
           NEW etherType \in {"IPv4", "ARP"}, NEW tag \in {<<>>} \cup [1 .. 1 -> Words], NEW bytes,
           Holds(bytes, 0, WriteEthernet([EthernetHeader(etherType, source, destination)
                                              EXCEPT !.vlan = tag]),
                 IF tag = <<>> THEN 14 ELSE 18)
    PROVE  LET read == ReadEthernet(bytes)
           IN  /\ read # Rejected /\ read.etherType = etherType
               /\ EthernetLength(read) = IF tag = <<>> THEN 14 ELSE 18
<1> DEFINE h == [EthernetHeader(etherType, source, destination) EXCEPT !.vlan = tag]
           macs == destination \o source
           mark == IF tag = <<>> THEN <<>> ELSE Be16(EtherTypes.VLAN) \o Be16(tag[1])
           type == Be16(EtherTypes[etherType])
           written == (macs \o mark) \o type
           length == IF tag = <<>> THEN 14 ELSE 18
           tagged == NameIn(EtherTypes, At16(bytes, 12)) = "VLAN"
           name == NameIn(EtherTypes, At16(bytes, IF tagged THEN 16 ELSE 12))
           read == [destination |-> Slice(bytes, 0, 6), source |-> Slice(bytes, 6, 12),
                    vlan |-> IF tagged THEN <<At16(bytes, 14)>> ELSE <<>>, etherType |-> name]
<1>1. WriteEthernet(h) = written
    BY DEF WriteEthernet, EthernetHeader
<1>2. Holds(bytes, 0, written, length)
    BY <1>1
<1>3. Sized(macs, 12)
    <2>1. Sized(macs, 6 + 6)
        BY SizedConcat
    <2>2. 6 + 6 = 12
        OBVIOUS
    <2> QED
        BY <2>1, <2>2
<1>4. Sized(type, 2)
    BY SizedNumbers
<1>5. Len(bytes) \in Nat /\ Len(bytes) >= 14
    BY <1>2 DEF Holds, Sized
<1>6. ReadEthernet(bytes) = read
    BY <1>5 DEF ReadEthernet
<1>7. EtherTypes[etherType] \in {2048, 2054} /\ EtherTypes[etherType] \in Words
    <2>1. EtherTypes[etherType] \in {2048, 2054}
        BY EtherTypesAreRead
    <2>2. 2048 \in Words /\ 2054 \in Words
        BY WordBounds
    <2> QED
        BY <2>1, <2>2
<1>8. NameIn(EtherTypes, EtherTypes[etherType]) = etherType
    BY EtherTypesAreRead
<1>9. read # Rejected /\ read.etherType = name /\ (read.vlan = <<>> <=> ~tagged)
    <2>1. DOMAIN read # DOMAIN Rejected
        BY DEF Rejected
    <2> QED
        BY <2>1
<1> HIDE DEF macs, type, read
<1>10. CASE tag = <<>>
    <2>1. Sized(mark, 0) /\ length = 14 /\ 12 + 0 = 12
        BY <1>10, SizedTuples
    <2> HIDE DEF mark
    <2>2. Holds(written, 12 + 0, type, 2)
        BY <1>3, <1>4, <2>1, ThreeParts
    <2>3. Holds(bytes, 0 + 12, type, 2)
        BY <1>2, <2>1, <2>2, HoldsWithin
    <2>4. At16(bytes, 12) = EtherTypes[etherType]
        <3>1. 0 + 12 = 12
            OBVIOUS
        <3> QED
            BY <1>7, <2>3, <3>1, WordIsRead DEF type
    <2>5. ~tagged /\ name = etherType
        BY <1>8, <2>4
    <2> QED
        BY <1>6, <1>9, <1>10, <2>5 DEF EthernetLength
<1>11. CASE tag # <<>>
    <2> DEFINE vlan == Be16(EtherTypes.VLAN)
               rest == Be16(tag[1])
    <2>1. Sized(vlan, 2) /\ Sized(rest, 2) /\ mark = vlan \o rest /\ length = 18
        BY <1>11, SizedNumbers
    <2>2. EtherTypes.VLAN = 33024 /\ 33024 \in Words
        BY EtherTypesAreRead, WordBounds
    <2> HIDE DEF rest
    <2>3. Holds(mark, 0, vlan, 2) /\ Sized(mark, 2 + 2)
        BY <2>1, HoldsParts
    <2> HIDE DEF mark
    <2>4. Holds(written, 12, mark, 2 + 2) /\ Holds(written, 12 + (2 + 2), type, 2)
        BY <1>3, <1>4, <2>3, ThreeParts
    <2> HIDE DEF written
    <2>5. Holds(written, 12 + 0, vlan, 2)
        BY <2>3, <2>4, HoldsWithin
    <2>6. Holds(bytes, 0 + (12 + 0), vlan, 2) /\ Holds(bytes, 0 + (12 + (2 + 2)), type, 2)
        BY <1>2, <2>4, <2>5, HoldsWithin
    <2>7. 0 + (12 + 0) = 12 /\ 0 + (12 + (2 + 2)) = 16
        OBVIOUS
    <2>8. At16(bytes, 12) = 33024
        BY <2>2, <2>6, <2>7, WordIsRead DEF vlan
    <2>9. At16(bytes, 16) = EtherTypes[etherType]
        BY <1>7, <2>6, <2>7, WordIsRead DEF type
    <2>10. tagged /\ name = etherType
        BY <1>8, <2>8, <2>9, EtherTypesAreRead
    <2> QED
        BY <1>6, <1>9, <1>11, <2>10 DEF EthernetLength
<1> QED
    BY <1>10, <1>11

LEMMA OperationsAreRead ==
    /\ NameIn(Operations, 1) = "Request" /\ NameIn(Operations, 2) = "Reply"
    /\ Operations["Request"] = 1 /\ Operations["Reply"] = 2
<1>1. /\ DOMAIN Operations = {"Request", "Reply"}
      /\ Operations["Request"] = 1 /\ Operations["Reply"] = 2
    BY DEF Operations
<1>2. NameIn(Operations, Operations["Request"]) = "Request"
      /\ NameIn(Operations, Operations["Reply"]) = "Reply"
    BY <1>1, NameIsRead
<1> QED
    BY <1>1, <1>2

(* ArpMessage::from_bytes of what write_to_buffer wrote.                   *)
LEMMA ArpIsRead ==
    ASSUME NEW m, Sized(m.senderMac, 6), Sized(m.targetMac, 6),
           m.operation \in {"Request", "Reply"}, m.sender \in Addresses, m.target \in Addresses,
           NEW bytes, Holds(bytes, 0, WriteArp(m), 28)
    PROVE  LET arp == ReadArp(bytes)
           IN  /\ arp # Rejected /\ arp.operation = m.operation
               /\ arp.senderMac = m.senderMac /\ arp.sender = m.sender /\ arp.target = m.target
<1> DEFINE prelude == (Be16(1) \o Be16(2048)) \o <<6, 4>>
           operation == Be16(Operations[m.operation])
           sender == Octets(m.sender)
           target == Octets(m.target)
           front == ((prelude \o operation) \o m.senderMac) \o sender
           written == (front \o m.targetMac) \o target
           read == [operation |-> NameIn(Operations, At16(bytes, 6)),
                    senderMac |-> Slice(bytes, 8, 14), sender |-> AddressAt(bytes, 14),
                    targetMac |-> Slice(bytes, 18, 24), target |-> AddressAt(bytes, 24)]
<1>1. WriteArp(m) = written
    BY DEF WriteArp
<1>2. Holds(bytes, 0, written, 28)
    BY <1>1
<1>3. Sized(prelude, 6)
    <2>1. Sized(Be16(1), 2) /\ Sized(Be16(2048), 2) /\ Sized(<<6, 4>>, 2)
        BY SizedNumbers, SizedTuples
    <2>2. Sized(prelude, (2 + 2) + 2)
        BY <2>1, ThreeParts
    <2>3. (2 + 2) + 2 = 6
        OBVIOUS
    <2> QED
        BY <2>2, <2>3
<1>4. Sized(operation, 2) /\ Sized(sender, 4) /\ Sized(target, 4)
    BY SizedNumbers
<1>5. Operations[m.operation] \in {1, 2} /\ Operations[m.operation] \in Words
      /\ NameIn(Operations, Operations[m.operation]) = m.operation
    <2>1. Operations[m.operation] \in {1, 2}
          /\ NameIn(Operations, Operations[m.operation]) = m.operation
        BY OperationsAreRead
    <2>2. 1 \in Words /\ 2 \in Words
        BY WordBounds
    <2> QED
        BY <2>1, <2>2
<1>6. ReadArp(bytes) =
          IF \/ Len(bytes) < 28
             \/ Slice(bytes, 0, 6) # prelude
             \/ NameIn(Operations, At16(bytes, 6)) = "Other"
          THEN Rejected ELSE read
    BY DEF ReadArp
<1>7. /\ read # Rejected
      /\ read.operation = NameIn(Operations, At16(bytes, 6))
      /\ read.senderMac = Slice(bytes, 8, 14) /\ read.sender = AddressAt(bytes, 14)
      /\ read.target = AddressAt(bytes, 24)
    <2>1. DOMAIN read # DOMAIN Rejected
        BY DEF Rejected
    <2> QED
        BY <2>1
<1> HIDE DEF prelude, operation, sender, target, read
<1>8. /\ Holds(front, 0, prelude, 6) /\ Holds(front, 6, operation, 2)
      /\ Holds(front, 6 + 2, m.senderMac, 6) /\ Holds(front, 6 + 2 + 6, sender, 4)
      /\ Sized(front, 6 + 2 + 6 + 4)
    BY <1>3, <1>4, FourParts
<1> HIDE DEF front
<1>9. /\ Holds(written, 0, front, 6 + 2 + 6 + 4)
      /\ Holds(written, 6 + 2 + 6 + 4 + 6, target, 4)
    BY <1>4, <1>8, ThreeParts
<1> HIDE DEF written
<1>10. Holds(bytes, 0 + 0, front, 6 + 2 + 6 + 4) /\ Holds(bytes, 0 + (6 + 2 + 6 + 4 + 6), target, 4)
    BY <1>2, <1>9, HoldsWithin
<1>11. /\ Holds(bytes, 0 + 0 + 0, prelude, 6) /\ Holds(bytes, 0 + 0 + 6, operation, 2)
       /\ Holds(bytes, 0 + 0 + (6 + 2), m.senderMac, 6)
       /\ Holds(bytes, 0 + 0 + (6 + 2 + 6), sender, 4)
    BY <1>8, <1>10, HoldsWithin
<1>12. /\ 0 + 0 + 0 = 0 /\ 0 + 0 + 6 = 6 /\ 0 + 0 + (6 + 2) = 8 /\ 0 + 0 + (6 + 2 + 6) = 14
       /\ 0 + (6 + 2 + 6 + 4 + 6) = 24
    OBVIOUS
<1>13. /\ Holds(bytes, 0, prelude, 6) /\ Holds(bytes, 6, operation, 2)
       /\ Holds(bytes, 8, m.senderMac, 6) /\ Holds(bytes, 14, sender, 4)
       /\ Holds(bytes, 24, target, 4)
    BY <1>10, <1>11, <1>12
<1>14. /\ Slice(bytes, 0, 6) = prelude /\ Slice(bytes, 8, 14) = m.senderMac
    <2>1. 6 = 0 + 6 /\ 14 = 8 + 6
        OBVIOUS
    <2> QED
        BY <1>13, <2>1, SliceIsPiece
<1>15. At16(bytes, 6) = Operations[m.operation]
    BY <1>5, <1>13, WordIsRead DEF operation
<1>16. AddressAt(bytes, 14) = m.sender /\ AddressAt(bytes, 24) = m.target
    BY <1>13, AddressIsRead DEF sender, target
<1>17. ~(Len(bytes) < 28)
    BY <1>2 DEF Holds, Sized
<1>18. ReadArp(bytes) = read
    BY <1>5, <1>6, <1>14, <1>15, <1>17
<1> QED
    BY <1>5, <1>7, <1>14, <1>15, <1>16, <1>18

LEMMA ProtocolsAreRead ==
    /\ NameIn(Protocols, 1) = "ICMP" /\ NameIn(Protocols, 17) = "UDP"
    /\ Protocols["ICMP"] = 1 /\ Protocols["UDP"] = 17
<1>1. /\ DOMAIN Protocols = {"ICMP", "TCP", "UDP"}
      /\ Protocols["ICMP"] = 1 /\ Protocols["TCP"] = 6 /\ Protocols["UDP"] = 17
    BY DEF Protocols
<1>2. NameIn(Protocols, Protocols["ICMP"]) = "ICMP" /\ NameIn(Protocols, Protocols["UDP"]) = "UDP"
    BY <1>1, NameIsRead
<1> QED
    BY <1>1, <1>2

(* IPv4Header::from_bytes of what write_to_buffer wrote, whatever follows: *)
(* the checksum is that of the bytes it was computed over.                 *)
LEMMA Ipv4IsRead ==
    ASSUME NEW protocol \in {"ICMP", "UDP"}, NEW source \in Addresses,
           NEW destination \in Addresses, NEW length \in Nat, 20 + length \in Words, NEW bytes,
           Holds(bytes, 0, WriteIpv4(Ipv4Header(protocol, source, destination, length,
                                                Identification)), 20)
    PROVE  LET ip == ReadIpv4(bytes)
           IN  /\ ip # Rejected /\ ip.words = 5 /\ ip.totalLength = 20 + length
               /\ ~IsFragmented(ip) /\ ip.protocol = protocol
               /\ ip.source = source /\ ip.destination = destination
<1> DEFINE h == Ipv4Header(protocol, source, destination, length, Identification)
<1>h. /\ h.words = 5 /\ h.totalLength = 20 + length
      /\ h.fragment.identification = Identification
      /\ h.fragment.doNotFragment = 1 /\ h.fragment.moreFragments = 0 /\ h.fragment.offset = 0
      /\ h.timeToLive = 64 /\ h.protocol = protocol
      /\ h.source = source /\ h.destination = destination
    BY DEF Ipv4Header
<1> HIDE DEF h
<1> DEFINE service == WriteService(h.service)
           first == <<69, service>>
           total == Be16(20 + length)
           name == Be16(Identification)
           flags == Be16(16384)
           fragment == name \o flags
           fourth == <<64, Protocols[protocol]>>
           before == ((first \o total) \o fragment) \o fourth
           from == Octets(source)
           to == Octets(destination)
           after == from \o to
           sum == Checksum((before \o <<0, 0>>) \o after)
           written == (before \o sum) \o after
<1>1. WriteIpv4(h) = written
    <2>1. WriteFragment(h.fragment) = fragment
        <3>1. h.fragment.doNotFragment * 16384 + h.fragment.moreFragments * 8192
                  + (h.fragment.offset % 8192) = 16384
            BY <1>h
        <3> QED
            BY <1>h, <3>1 DEF WriteFragment
    <2>2. 64 + h.words = 69
        BY <1>h
    <2> QED
        BY <1>h, <2>1, <2>2 DEF WriteIpv4
<1>2. Holds(bytes, 0, written, 20)
    BY <1>1 DEF h
<1>3. /\ Sized(first, 2) /\ Sized(total, 2) /\ Sized(name, 2) /\ Sized(flags, 2)
      /\ Sized(fourth, 2) /\ Sized(from, 4) /\ Sized(to, 4) /\ Sized(sum, 2)
    BY SizedTuples, SizedNumbers
<1> DEFINE words == Byte(bytes, 0) % 16
           zeroed == (Slice(bytes, 0, 10) \o <<0, 0>>) \o Slice(bytes, 12, 4 * words)
           inner == ReadFragment(Slice(bytes, 4, 8))
           read == [words |-> words, service |-> ReadService(Byte(bytes, 1)),
                    totalLength |-> At16(bytes, 2), fragment |-> inner,
                    timeToLive |-> Byte(bytes, 8), protocol |-> NameIn(Protocols, Byte(bytes, 9)),
                    source |-> AddressAt(bytes, 12), destination |-> AddressAt(bytes, 16)]
<1>4. ReadIpv4(bytes) =
          IF \/ Byte(bytes, 0) \div 16 # 4
             \/ Len(bytes) < 4 * words
             \/ Slice(bytes, 10, 12) # Checksum(zeroed)
          THEN Rejected ELSE read
    BY DEF ReadIpv4
<1>5. /\ read # Rejected /\ read.words = words /\ read.totalLength = At16(bytes, 2)
      /\ read.fragment = inner /\ read.protocol = NameIn(Protocols, Byte(bytes, 9))
      /\ read.source = AddressAt(bytes, 12) /\ read.destination = AddressAt(bytes, 16)
    <2> HIDE DEF inner, words
    <2>1. DOMAIN read # DOMAIN Rejected
        BY DEF Rejected
    <2> QED
        BY <2>1
<1> HIDE DEF read
<1>6. /\ Sized(fragment, 2 + 2) /\ Holds(fragment, 2, flags, 2) /\ Sized(after, 4 + 4)
      /\ Holds(after, 0, from, 4) /\ Holds(after, 4, to, 4)
    <2> HIDE DEF name, flags, from, to
    <2> QED
        BY <1>3, HoldsParts
<1> HIDE DEF after, fragment
<1>7. Sized(fragment, 4) /\ Sized(after, 8)
    <2>1. 2 + 2 = 4 /\ 4 + 4 = 8
        OBVIOUS
    <2> QED
        BY <1>6, <2>1
<1>8. /\ Holds(before, 0, first, 2) /\ Holds(before, 2, total, 2)
      /\ Holds(before, 4, fragment, 4) /\ Holds(before, 8, fourth, 2) /\ Sized(before, 10)
    <2> HIDE DEF first, total, fourth
    <2>1. /\ Holds(before, 0, first, 2) /\ Holds(before, 2, total, 2)
          /\ Holds(before, 2 + 2, fragment, 4) /\ Holds(before, 2 + 2 + 4, fourth, 2)
          /\ Sized(before, 2 + 2 + 4 + 2)
        <3>1. Sized(first, 2) /\ Sized(total, 2) /\ Sized(fragment, 4) /\ Sized(fourth, 2)
            BY <1>3, <1>7
        <3> QED
            BY <3>1, FourParts
    <2>2. 2 + 2 = 4 /\ 2 + 2 + 4 = 8 /\ 2 + 2 + 4 + 2 = 10
        OBVIOUS
    <2> QED
        BY <2>1, <2>2
<1> HIDE DEF before
<1>9. /\ Holds(written, 0, before, 10) /\ Holds(written, 10, sum, 2)
      /\ Holds(written, 10 + 2, after, 8)
    <2> HIDE DEF sum
    <2> QED
        BY <1>3, <1>7, <1>8, ThreeParts
<1> HIDE DEF written
<1>10. /\ Holds(bytes, 0 + 0, before, 10) /\ Holds(bytes, 0 + 10, sum, 2)
       /\ Holds(bytes, 0 + (10 + 2), after, 8)
    BY <1>2, <1>9, HoldsWithin
<1>11. Holds(bytes, 0, before, 10) /\ Holds(bytes, 10, sum, 2) /\ Holds(bytes, 12, after, 8)
    <2>1. 0 + 0 = 0 /\ 0 + 10 = 10 /\ 0 + (10 + 2) = 12
        OBVIOUS
    <2> QED
        BY <1>10, <2>1
<1>12. /\ Holds(bytes, 0 + 0, first, 2) /\ Holds(bytes, 0 + 2, total, 2)
       /\ Holds(bytes, 0 + 4, fragment, 4) /\ Holds(bytes, 0 + 8, fourth, 2)
       /\ Holds(bytes, 12 + 0, from, 4) /\ Holds(bytes, 12 + 4, to, 4)
    BY <1>6, <1>8, <1>11, HoldsWithin
<1>13. /\ Holds(bytes, 0, first, 2) /\ Holds(bytes, 2, total, 2)
       /\ Holds(bytes, 4, fragment, 4) /\ Holds(bytes, 8, fourth, 2)
       /\ Holds(bytes, 12, from, 4) /\ Holds(bytes, 16, to, 4)
    <2>1. 0 + 0 = 0 /\ 0 + 2 = 2 /\ 0 + 4 = 4 /\ 0 + 8 = 8 /\ 12 + 0 = 12 /\ 12 + 4 = 16
        OBVIOUS
    <2> QED
        BY <1>12, <2>1
<1>14. Byte(bytes, 0) = 69 /\ Byte(bytes, 9) = Protocols[protocol]
    <2>1. 8 + 1 = 9
        OBVIOUS
    <2> HIDE DEF service
    <2> QED
        BY <1>13, <2>1, WordOfPair
<1>15. Byte(bytes, 0) \div 16 = 4 /\ words = 5 /\ 4 * words = 20
    BY <1>14
<1>16. At16(bytes, 2) = 20 + length
    BY <1>13, WordIsRead
<1>17. AddressAt(bytes, 12) = source /\ AddressAt(bytes, 16) = destination
    BY <1>13, AddressIsRead
<1>18. NameIn(Protocols, Byte(bytes, 9)) = protocol
    BY <1>14, ProtocolsAreRead
<1>19. Slice(bytes, 10, 12) = Checksum(zeroed)
    <2>1. 10 = 0 + 10 /\ 20 = 12 + 8 /\ 12 = 10 + 2
        OBVIOUS
    <2>2. Slice(bytes, 0, 10) = before /\ Slice(bytes, 12, 20) = after /\ Slice(bytes, 10, 12) = sum
        BY <1>11, <2>1, SliceIsPiece
    <2>3. zeroed = (before \o <<0, 0>>) \o after
        BY <1>15, <2>2
    <2> QED
        BY <2>2, <2>3
<1>20. inner.moreFragments = 0 /\ inner.offset = 0
    <2> DEFINE part == Slice(bytes, 4, 8)
    <2>1. part = fragment
        <3>1. 8 = 4 + 4
            OBVIOUS
        <3> QED
            BY <1>13, <3>1, SliceIsPiece
    <2>2. flags = <<64, 0>>
        <3>1. 16384 \div 256 = 64 /\ 16384 % 256 = 0
            OBVIOUS
        <3> QED
            BY <3>1 DEF Be16
    <2>3. Holds(part, 2, <<64, 0>>, 2)
        BY <1>6, <2>1, <2>2
    <2> HIDE DEF part
    <2>4. Byte(part, 2) = 64 /\ At16(part, 2) = 64 * 256 + 0
        BY <2>3, WordOfPair
    <2>5. Bit(64, 32) = 0 /\ (64 * 256 + 0) % 8192 = 0
        BY DEF Bit
    <2>6. inner = ReadFragment(part)
        BY DEF part
    <2> QED
        BY <2>4, <2>5, <2>6 DEF ReadFragment
<1>21. ~(Len(bytes) < 20)
    BY <1>2 DEF Holds, Sized
<1>22. ReadIpv4(bytes) = read
    <2> HIDE DEF zeroed, words
    <2> QED
        BY <1>4, <1>15, <1>19, <1>21
<1>23. ~IsFragmented(read)
    BY <1>5, <1>20 DEF IsFragmented
<1> QED
    BY <1>5, <1>15, <1>16, <1>17, <1>18, <1>22, <1>23

LEMMA ChecksumOfFields ==
    ASSUME NEW h, NEW g, h.length = g.length, h.sourcePort = g.sourcePort,
           h.destinationPort = g.destinationPort, NEW source, NEW destination, NEW data
    PROVE  UdpChecksum(h, source, destination, data) = UdpChecksum(g, source, destination, data)
BY DEF UdpChecksum

LEMMA UdpChecksumIsSized ==
    ASSUME NEW h, NEW source, NEW destination, NEW data
    PROVE  Sized(UdpChecksum(h, source, destination, data), 2)
<1>1. \/ UdpChecksum(h, source, destination, data) = <<255, 255>>
      \/ \E bytes : UdpChecksum(h, source, destination, data) = Checksum(bytes)
    BY DEF UdpChecksum
<1> QED
    BY <1>1, SizedTuples, SizedNumbers

(* UdpManager::recv of what UdpSocketHandle::send_ipv4 wrote: the port, the *)
(* data and a checksum that agrees.                                        *)
LEMMA DatagramIsRead ==
    ASSUME NEW source, NEW destination, NEW data, NEW n, Sized(data, n), 8 + n \in Words
    PROVE  LET payload == Datagram(source, destination, data)
               udp == ReadUdp(payload)
               read == Slice(payload, 8, udp.length)
           IN  /\ udp # Rejected /\ udp.sourcePort = Port /\ udp.destinationPort = Port
               /\ read = data
               /\ UdpChecksum(udp, source, destination, read) = udp.checksum
<1> DEFINE h == UdpHeader(Port, Port, Len(data))
           sum == UdpChecksum(h, source, destination, data)
           port == Be16(Port)
           length == Be16(8 + n)
           front == ((port \o port) \o length) \o sum
           payload == front \o data
           udp == [sourcePort |-> At16(payload, 0), destinationPort |-> At16(payload, 2),
                   length |-> At16(payload, 4), checksum |-> Slice(payload, 6, 8)]
<1>1. n \in Nat /\ Len(data) = n /\ Port \in Words
    BY WidthAssumption DEF Sized, WidthAssumption
<1>2. h.length = 8 + n /\ h.sourcePort = Port /\ h.destinationPort = Port
    BY <1>1 DEF UdpHeader
<1>3. Datagram(source, destination, data) = payload
    <2>1. WriteUdp([h EXCEPT !.checksum = sum]) = front
        BY <1>1 DEF WriteUdp, UdpHeader
    <2> QED
        BY <2>1 DEF Datagram
<1> HIDE DEF h
<1>4. Sized(sum, 2)
    BY UdpChecksumIsSized
<1> HIDE DEF sum
<1>5. Sized(port, 2) /\ Sized(length, 2)
    BY SizedNumbers
<1>6. /\ Holds(front, 0, port, 2) /\ Holds(front, 2, port, 2) /\ Holds(front, 2 + 2, length, 2)
      /\ Holds(front, 2 + 2 + 2, sum, 2) /\ Sized(front, 2 + 2 + 2 + 2)
    <2> HIDE DEF port, length
    <2> QED
        BY <1>4, <1>5, FourParts
<1>7. Holds(front, 4, length, 2) /\ Holds(front, 6, sum, 2) /\ Sized(front, 8)
    <2>1. 2 + 2 = 4 /\ 2 + 2 + 2 = 6 /\ 2 + 2 + 2 + 2 = 8
        OBVIOUS
    <2> QED
        BY <1>6, <2>1
<1> HIDE DEF front
<1>8. Holds(payload, 8, data, n) /\ Sized(payload, 8 + n)
    BY <1>7, HoldsParts
<1>9. /\ Holds(payload, 0, port, 2) /\ Holds(payload, 2, port, 2)
      /\ Holds(payload, 4, length, 2) /\ Holds(payload, 6, sum, 2)
    <2> HIDE DEF port, length
    <2> QED
        BY <1>6, <1>7, HoldsMore
<1>10. ~(Len(payload) < 8)
    BY <1>1, <1>8 DEF Sized
<1> HIDE DEF payload
<1>11. /\ At16(payload, 0) = Port /\ At16(payload, 2) = Port /\ At16(payload, 4) = 8 + n
    BY <1>1, <1>9, WordIsRead
<1>12. ReadUdp(payload) = udp
    BY <1>10 DEF ReadUdp
<1>13. /\ udp # Rejected /\ udp.sourcePort = Port /\ udp.destinationPort = Port
       /\ udp.length = 8 + n /\ udp.checksum = Slice(payload, 6, 8)
    <2>1. DOMAIN udp # DOMAIN Rejected
        BY DEF Rejected
    <2> QED
        BY <1>11, <2>1
<1>14. Slice(payload, 6, 8) = sum /\ Slice(payload, 8, 8 + n) = data
    <2>1. 8 = 6 + 2
        OBVIOUS
    <2> HIDE DEF port, length
    <2> QED
        BY <1>8, <1>9, <2>1, SliceIsPiece
<1> HIDE DEF udp
<1>15. UdpChecksum(udp, source, destination, data) = sum
    BY <1>2, <1>13, ChecksumOfFields DEF sum
<1> QED
    BY <1>3, <1>12, <1>13, <1>14, <1>15

LEMMA IcmpTypesAreRead ==
    ASSUME NEW kind \in {"EchoReply", "DestinationUnreachable", "SourceQuench", "Redirect",
                         "EchoRequest", "TimeExceeded", "ParameterProblem"}
    PROVE  NameIn(IcmpTypes, IcmpTypes[kind]) = kind
<1>1. /\ DOMAIN IcmpTypes = {"EchoReply", "DestinationUnreachable", "SourceQuench", "Redirect",
                             "EchoRequest", "TimeExceeded", "ParameterProblem"}
      /\ IcmpTypes["EchoReply"] = 0 /\ IcmpTypes["DestinationUnreachable"] = 3
      /\ IcmpTypes["SourceQuench"] = 4 /\ IcmpTypes["Redirect"] = 5
      /\ IcmpTypes["EchoRequest"] = 8 /\ IcmpTypes["TimeExceeded"] = 11
      /\ IcmpTypes["ParameterProblem"] = 12
    BY DEF IcmpTypes
<1>2. \A other \in DOMAIN IcmpTypes : IcmpTypes[other] = IcmpTypes[kind] => other = kind
    BY <1>1
<1> QED
    BY <1>1, <1>2, NameIsRead

LEMMA LastCodes ==
    /\ DOMAIN LastCode = {"DestinationUnreachable", "Redirect", "TimeExceeded"}
    /\ LastCode["DestinationUnreachable"] = 5 /\ LastCode["Redirect"] = 3
    /\ LastCode["TimeExceeded"] = 1
BY DEF LastCode

(* The parts of an ICMP message, and the checksum over them.               *)
LEMMA IcmpParts ==
    ASSUME NEW type, NEW code, NEW body, NEW n, Sized(body, n)
    PROVE  LET bytes == WriteIcmp(<<type, code>>, body)
           IN  /\ Byte(bytes, 0) = type /\ Byte(bytes, 1) = code
               /\ Holds(bytes, 0, <<type, code>>, 2) /\ Holds(bytes, 4, body, n)
               /\ Sized(bytes, 4 + n)
               /\ Slice(bytes, 2, 4) = Checksum((Slice(bytes, 0, 2) \o <<0, 0>>) \o From(bytes, 4))
<1> DEFINE front == <<type, code>>
           sum == Checksum((front \o <<0, 0>>) \o body)
           bytes == (front \o sum) \o body
<1>1. WriteIcmp(front, body) = bytes
    BY DEF WriteIcmp
<1>2. Sized(front, 2) /\ Sized(sum, 2)
    BY SizedTuples, SizedNumbers
<1>3. /\ Holds(bytes, 0, front, 2) /\ Holds(bytes, 2, sum, 2) /\ Holds(bytes, 2 + 2, body, n)
      /\ Sized(bytes, 2 + 2 + n)
    <2> HIDE DEF front, sum
    <2> QED
        BY <1>2, ThreeParts
<1>4. Holds(bytes, 4, body, n) /\ Sized(bytes, 4 + n)
    <2>1. 2 + 2 = 4
        OBVIOUS
    <2> HIDE DEF bytes
    <2> QED
        BY <1>3, <2>1
<1> HIDE DEF bytes
<1>5. Byte(bytes, 0) = type /\ Byte(bytes, 1) = code
    <2>1. 0 + 1 = 1
        OBVIOUS
    <2> QED
        BY <1>3, <2>1, WordOfPair
<1>6. Slice(bytes, 0, 2) = front /\ Slice(bytes, 2, 4) = sum /\ From(bytes, 4) = body
    <2>1. 2 = 0 + 2 /\ 4 = 2 + 2 /\ Len(bytes) = 4 + n
        BY <1>4 DEF Sized
    <2> HIDE DEF front, sum
    <2> QED
        BY <1>3, <1>4, <2>1, SliceIsPiece, FromIsPiece
<1>7. sum = Checksum((front \o <<0, 0>>) \o body)
    OBVIOUS
<1> HIDE DEF front, sum
<1>8. Slice(bytes, 2, 4) = Checksum((Slice(bytes, 0, 2) \o <<0, 0>>) \o From(bytes, 4))
    BY <1>6, <1>7
<1> QED
    BY <1>1, <1>3, <1>4, <1>5, <1>8 DEF front

(* ICMPMessage::from_bytes, for a message that is whole and of a kind and  *)
(* code it knows.                                                          *)
LEMMA IcmpIsRead ==
    ASSUME NEW kind \in {"EchoReply", "DestinationUnreachable", "SourceQuench", "Redirect",
                         "EchoRequest", "TimeExceeded", "ParameterProblem"},
           NEW code, kind \in DOMAIN LastCode => code \in 0 .. LastCode[kind],
           NEW body, NEW n, Sized(body, n), n >= 4
    PROVE  LET bytes == WriteIcmp(<<IcmpTypes[kind], code>>, body)
               data == From(bytes, 8)
           IN  /\ ReadIcmp(bytes) =
                      CASE kind \in {"EchoRequest", "EchoReply"} ->
                               Echo(kind, At16(bytes, 4), At16(bytes, 6), data)
                        [] kind = "DestinationUnreachable" -> ReadUnreachable(code, data)
                        [] kind = "SourceQuench" -> [kind |-> kind, data |-> data]
                        [] kind = "Redirect" ->
                               [kind |-> kind, code |-> code, gateway |-> AddressAt(bytes, 4),
                                data |-> data]
                        [] kind = "TimeExceeded" -> [kind |-> kind, code |-> code, data |-> data]
                        [] kind = "ParameterProblem" ->
                               [kind |-> kind, pointer |-> Byte(bytes, 5), data |-> data]
               /\ Holds(bytes, 4, body, n) /\ Len(bytes) = 4 + n
<1> DEFINE bytes == WriteIcmp(<<IcmpTypes[kind], code>>, body)
<1>1. /\ Byte(bytes, 0) = IcmpTypes[kind] /\ Byte(bytes, 1) = code
      /\ Holds(bytes, 4, body, n) /\ Sized(bytes, 4 + n)
      /\ Slice(bytes, 2, 4) = Checksum((Slice(bytes, 0, 2) \o <<0, 0>>) \o From(bytes, 4))
    BY IcmpParts
<1> HIDE DEF bytes
<1>2. NameIn(IcmpTypes, Byte(bytes, 0)) = kind /\ kind # "Other"
    BY <1>1, IcmpTypesAreRead
<1>3. ~(Len(bytes) < 8) /\ Len(bytes) = 4 + n
    BY <1>1 DEF Sized
<1>4. ~(kind \in DOMAIN LastCode /\ code > LastCode[kind])
    BY LastCodes
<1> QED
    BY <1>1, <1>2, <1>3, <1>4 DEF ReadIcmp, bytes

(* A number of the echo data, read back from its three low bytes.          *)
LEMMA LeIsRead ==
    ASSUME NEW k \in Stamps, NEW width \in {8, 16}, NEW bytes, NEW at,
           Holds(bytes, at, Le(k, width), width)
    PROVE  LeAt(bytes, at) = k
<1> DEFINE a == k % 256
           b == (k \div 256) % 256
           c == (k \div 65536) % 256
           le == Le(k, width)
<1>1. k \in Int /\ 0 <= k /\ k \div 65536 <= 255
    BY DEF Stamps
<1>2. a + 256 * (b + 256 * c) = k
    <2> DEFINE p == k \div 256
               q == k \div 65536
    <2>1. /\ p \in Int /\ q \in Int
          /\ 256 * p + (k % 256) = k /\ 256 * q + (p % 256) = p
          /\ 0 <= q /\ q <= 255
        BY <1>1
    <2>2. q % 256 = q
        <3> HIDE DEF q
        <3> QED
            BY <2>1
    <2> QED
        BY <1>1, <2>1, <2>2
<1>3. le[1] = a /\ le[2] = b /\ le[3] = c
    BY DEF Le
<1>4. Holds(bytes, at, le, width) /\ at \in Nat
    BY DEF Holds
<1> HIDE DEF a, b, c, le
<1>5. Byte(bytes, at + 0) = le[0 + 1] /\ Byte(bytes, at + 1) = le[1 + 1]
      /\ Byte(bytes, at + 2) = le[2 + 1]
    <2>1. 0 < width /\ 1 < width /\ 2 < width
        OBVIOUS
    <2> QED
        BY <1>4, <2>1, ByteOfPiece
<1>6. at + 0 = at /\ 0 + 1 = 1 /\ 1 + 1 = 2 /\ 2 + 1 = 3
    BY <1>4
<1>7. Byte(bytes, at) = a /\ Byte(bytes, at + 1) = b /\ Byte(bytes, at + 2) = c
    BY <1>3, <1>5, <1>6
<1> QED
    BY <1>2, <1>7 DEF LeAt

LEMMA SliceIsHeld ==
    ASSUME NEW bytes, NEW n, Sized(bytes, n), NEW from \in Nat, NEW to \in Nat,
           from <= to, to <= n
    PROVE  Holds(bytes, from, Slice(bytes, from, to), to - from)
<1> DEFINE S == {bytes[i] : i \in from + 1 .. to}
           part == SubSeq(bytes, from + 1, to)
<1>1. n \in Nat /\ Len(bytes) = n
    BY DEF Sized
<1>2. \A i \in from + 1 .. to : bytes[i] \in S
    OBVIOUS
<1>3. from + 1 \in Int /\ to \in Int
    OBVIOUS
<1> HIDE DEF S
<1>4. \A i \in 1 .. to - (from + 1) + 1 : part[i] = bytes[from + 1 + i - 1]
    BY <1>2, <1>3, SubSeqProperties
<1>5. Sized(part, IF from + 1 <= to THEN to - (from + 1) + 1 ELSE 0)
    BY <1>3, SliceIsSized
<1> HIDE DEF part
<1>6. Sized(part, to - from)
    <2>1. (IF from + 1 <= to THEN to - (from + 1) + 1 ELSE 0) = to - from
        OBVIOUS
    <2> QED
        BY <1>5, <2>1
<1>7. ASSUME NEW i \in 1 .. to - from
      PROVE  bytes[from + i] = part[i]
    <2>1. i \in 1 .. to - (from + 1) + 1 /\ from + 1 + i - 1 = from + i
        OBVIOUS
    <2> QED
        BY <1>4, <2>1
<1>8. from + (to - from) <= Len(bytes)
    BY <1>1
<1>9. Holds(bytes, from, part, to - from)
    BY <1>1, <1>6, <1>7, <1>8 DEF Holds
<1> QED
    BY <1>9 DEF Slice, part

(* EchoMessageDataUnix::try_from of what write_to_buffer wrote: a pinger   *)
(* gets its own time back.                                                 *)
LEMMA TimeIsRead ==
    ASSUME NEW time \in Times
    PROVE  ReadUnixData(WriteUnixData(time)) = time
<1> DEFINE seconds == Le(time.seconds, 8)
           micros == Le(time.micros, 8)
           clock == IF time.monotonic = <<>> THEN <<>> ELSE Le(time.monotonic[1], 16)
           stamps == (seconds \o micros) \o clock
           rest == From(Empty56, Len(stamps))
           bytes == stamps \o rest
           unused == Slice(Empty56, 16, 32)
<1>1. /\ time = [seconds |-> time.seconds, micros |-> time.micros, monotonic |-> time.monotonic]
      /\ time.seconds \in Stamps /\ time.micros \in Stamps
      /\ \/ time.monotonic = <<>>
         \/ time.monotonic \in [1 .. 1 -> Stamps] /\ time.monotonic[1] # 0
    BY WidthAssumption DEF WidthAssumption
<1>2. WriteUnixData(time) = bytes
    BY DEF WriteUnixData
<1>3. Sized(seconds, 8) /\ Sized(micros, 8)
    BY SizedNumbers
<1>4. Sized(Empty56, 56) /\ \A i \in 1 .. 56 : Empty56[i] = i - 1
    <2>1. Empty56 = [i \in 1 .. 56 |-> Empty56[i]]
        BY DEF Empty56
    <2>2. Sized(Empty56, 56)
        BY <2>1, SizedFunction
    <2> QED
        BY <2>2 DEF Empty56
<1>5. Holds(Empty56, 16, unused, 16)
    <2>1. 16 <= 32 /\ 32 <= 56 /\ 32 - 16 = 16
        OBVIOUS
    <2>2. Holds(Empty56, 16, unused, 32 - 16)
        BY <1>4, <2>1, SliceIsHeld
    <2> QED
        BY <2>1, <2>2
<1> HIDE DEF seconds, micros, unused
<1>6. ASSUME NEW m \in {0, 16}, Sized(clock, m)
      PROVE  /\ Holds(bytes, 0, seconds, 8) /\ Holds(bytes, 8, micros, 8)
             /\ Holds(bytes, 16, clock, m) /\ Len(bytes) = 56
             /\ m = 0 => Holds(bytes, 16, unused, 16)
    <2> HIDE DEF clock
    <2>1. /\ Holds(stamps, 0, seconds, 8) /\ Holds(stamps, 8, micros, 8)
          /\ Holds(stamps, 8 + 8, clock, m) /\ Sized(stamps, 8 + 8 + m)
        BY <1>3, <1>6, ThreeParts
    <2>2. 8 + 8 = 16 /\ Len(stamps) = 16 + m
        BY <2>1 DEF Sized
    <2>3. Sized(stamps, 16 + m)
        BY <2>1, <2>2
    <2> HIDE DEF stamps
    <2>4. rest = Slice(Empty56, 16 + m, 56)
        BY <1>4, <2>2, FromIsSlice DEF Sized
    <2>5. Holds(Empty56, 16 + m, rest, 56 - (16 + m))
        <3>1. 16 + m \in Nat /\ 16 + m <= 56 /\ 56 <= 56
            OBVIOUS
        <3> QED
            BY <1>4, <2>4, <3>1, SliceIsHeld
    <2>6. Sized(rest, 56 - (16 + m))
        BY <2>5 DEF Holds
    <2>7. m = 0 => Holds(rest, 0, unused, 16)
        <3> SUFFICES ASSUME m = 0
                     PROVE  Holds(rest, 0, unused, 16)
            OBVIOUS
        <3>1. rest = From(Empty56, 16)
            BY <2>2
        <3>2. Holds(From(Empty56, 16), 16 - 16, unused, 16)
            BY <1>5, FromKeeps
        <3>3. 16 - 16 = 0
            OBVIOUS
        <3> QED
            BY <3>1, <3>2, <3>3
    <2> HIDE DEF rest
    <2>8. /\ Sized(bytes, (16 + m) + (56 - (16 + m)))
          /\ Holds(bytes, 16 + m, rest, 56 - (16 + m))
        BY <2>3, <2>6, HoldsParts
    <2>9. Holds(bytes, 0, seconds, 8) /\ Holds(bytes, 8, micros, 8)
          /\ Holds(bytes, 16, clock, m)
        BY <2>1, <2>2, <2>3, <2>6, HoldsMore
    <2> HIDE DEF bytes
    <2>10. Len(bytes) = 56
        BY <2>8 DEF Sized
    <2>11. m = 0 => Holds(bytes, 16, unused, 16)
        <3> SUFFICES ASSUME m = 0
                     PROVE  Holds(bytes, 16, unused, 16)
            OBVIOUS
        <3>1. Holds(bytes, 16 + m + 0, unused, 16)
            BY <2>7, <2>8, HoldsWithin
        <3>2. 16 + m + 0 = 16
            OBVIOUS
        <3> QED
            BY <3>1, <3>2
    <2> QED
        BY <2>9, <2>10, <2>11
<1> HIDE DEF bytes
<1>7. ASSUME Holds(bytes, 0, seconds, 8), Holds(bytes, 8, micros, 8)
      PROVE  LeAt(bytes, 0) = time.seconds /\ LeAt(bytes, 8) = time.micros
    BY <1>1, <1>7, LeIsRead DEF seconds, micros
<1> DEFINE ticks == IF \/ Slice(bytes, 16, 32) = unused
                       \/ LeAt(bytes, 16) = 0
                    THEN <<>> ELSE <<LeAt(bytes, 16)>>
<1>8. ASSUME Len(bytes) = 56
      PROVE  ReadUnixData(bytes) =
                 [seconds |-> LeAt(bytes, 0), micros |-> LeAt(bytes, 8), monotonic |-> ticks]
    BY <1>8 DEF ReadUnixData, unused
<1> HIDE DEF clock
<1>9. CASE time.monotonic = <<>>
    <2>1. Sized(clock, 0)
        BY <1>9, SizedTuples DEF clock
    <2>2. /\ Holds(bytes, 0, seconds, 8) /\ Holds(bytes, 8, micros, 8) /\ Len(bytes) = 56
          /\ Holds(bytes, 16, unused, 16)
        BY <1>6, <2>1
    <2>3. Slice(bytes, 16, 32) = unused
        <3>1. 32 = 16 + 16
            OBVIOUS
        <3> QED
            BY <2>2, <3>1, SliceIsPiece
    <2>4. ticks = <<>>
        BY <2>3
    <2> HIDE DEF ticks
    <2> QED
        BY <1>1, <1>2, <1>7, <1>8, <1>9, <2>2, <2>4
<1>10. CASE time.monotonic # <<>>
    <2> DEFINE tick == time.monotonic[1]
    <2>1. tick \in Stamps /\ tick # 0 /\ time.monotonic = <<tick>>
        <3>1. time.monotonic \in [1 .. 1 -> Stamps] /\ time.monotonic[1] # 0
            BY <1>1, <1>10
        <3> QED
            BY <3>1
    <2> HIDE DEF tick
    <2>2. clock = Le(tick, 16) /\ Sized(clock, 16)
        BY <1>10, SizedNumbers DEF clock, tick
    <2>3. /\ Holds(bytes, 0, seconds, 8) /\ Holds(bytes, 8, micros, 8) /\ Len(bytes) = 56
          /\ Holds(bytes, 16, clock, 16)
        BY <1>6, <2>2
    <2>4. LeAt(bytes, 16) = tick
        BY <2>1, <2>2, <2>3, LeIsRead
    <2>5. Slice(bytes, 16, 32) = clock
        <3>1. 32 = 16 + 16
            OBVIOUS
        <3> QED
            BY <2>3, <3>1, SliceIsPiece
    <2>6. clock # unused
        <3>1. clock[4] = 0
            BY <2>2 DEF Le
        <3>2. unused[4] = 19
            <4>1. Empty56[16 + 4] = unused[4]
                BY <1>5 DEF Holds
            <4> QED
                BY <1>4, <4>1
        <3> QED
            BY <3>1, <3>2
    <2>7. ticks = <<tick>>
        BY <2>1, <2>4, <2>5, <2>6
    <2> HIDE DEF ticks
    <2> QED
        BY <1>1, <1>2, <1>7, <1>8, <2>1, <2>3, <2>7
<1> QED
    BY <1>9, <1>10

(* Whoever sent the data, its time is what it reads as.                    *)
LEMMA TimeInIsRead ==
    ASSUME NEW data
    PROVE  TimeIn(data) = ReadUnixData(data)
BY TimeIsRead DEF TimeIn

(* An echo message, read back as it was written; its first eight bytes are *)
(* what a router quotes of it.                                             *)
LEMMA EchoIsRead ==
    ASSUME NEW kind \in {"EchoRequest", "EchoReply"}, NEW identifier \in Words,
           NEW sequence \in Words, NEW data, NEW n, Sized(data, n)
    PROVE  LET message == Echo(kind, identifier, sequence, data)
               bytes == WriteEcho(message)
           IN  /\ ReadIcmp(bytes) = message /\ Sized(bytes, 8 + n)
               /\ Holds(bytes, 0, <<IcmpTypes[kind], 0>>, 2)
               /\ Holds(bytes, 4, Be16(identifier), 2) /\ Holds(bytes, 6, Be16(sequence), 2)
<1> DEFINE message == Echo(kind, identifier, sequence, data)
           first == Be16(identifier)
           second == Be16(sequence)
           body == (first \o second) \o data
           bytes == WriteIcmp(<<IcmpTypes[kind], 0>>, body)
<1>1. WriteEcho(message) = bytes
    BY DEF WriteEcho, Echo
<1>2. Sized(first, 2) /\ Sized(second, 2) /\ n \in Nat
    BY SizedNumbers DEF Sized
<1>3. /\ Holds(body, 0, first, 2) /\ Holds(body, 2, second, 2) /\ Holds(body, 4, data, n)
      /\ Sized(body, 4 + n)
    <2>1. /\ Holds(body, 0, first, 2) /\ Holds(body, 2, second, 2) /\ Holds(body, 2 + 2, data, n)
          /\ Sized(body, 2 + 2 + n)
        <3> HIDE DEF first, second
        <3> QED
            BY <1>2, ThreeParts
    <2>2. 2 + 2 = 4
        OBVIOUS
    <2> HIDE DEF body
    <2> QED
        BY <2>1, <2>2
<1> HIDE DEF body
<1>4. 4 + n >= 4 /\ kind \notin DOMAIN LastCode
    BY <1>2, LastCodes
<1>5. /\ Holds(bytes, 0, <<IcmpTypes[kind], 0>>, 2) /\ Holds(bytes, 4, body, 4 + n)
      /\ Sized(bytes, 4 + (4 + n))
    BY <1>3, IcmpParts
<1>6. ReadIcmp(bytes) = Echo(kind, At16(bytes, 4), At16(bytes, 6), From(bytes, 8))
    BY <1>3, <1>4, IcmpIsRead
<1> HIDE DEF bytes
<1>7. Sized(bytes, 8 + n) /\ Len(bytes) = 8 + n
    <2>1. 4 + (4 + n) = 8 + n
        BY <1>2
    <2> QED
        BY <1>5, <2>1 DEF Sized
<1>8. Holds(bytes, 4, first, 2) /\ Holds(bytes, 6, second, 2) /\ Holds(bytes, 8, data, n)
    <2>1. Holds(bytes, 4 + 0, first, 2) /\ Holds(bytes, 4 + 2, second, 2)
          /\ Holds(bytes, 4 + 4, data, n)
        BY <1>3, <1>5, HoldsWithin
    <2>2. 4 + 0 = 4 /\ 4 + 2 = 6 /\ 4 + 4 = 8
        OBVIOUS
    <2> QED
        BY <2>1, <2>2
<1>9. At16(bytes, 4) = identifier /\ At16(bytes, 6) = sequence
    BY <1>8, WordIsRead
<1>10. From(bytes, 8) = data
    BY <1>7, <1>8, FromIsPiece
<1> QED
    BY <1>1, <1>5, <1>6, <1>7, <1>8, <1>9, <1>10

(* A refusal, with what it quotes of the packet that was refused.          *)
LEMMA UnreachableIsRead ==
    ASSUME NEW code \in 0 .. 5, NEW quoted, Sized(quoted, 28),
           ReadIpv4(quoted) # Rejected, ReadIpv4(quoted).words = 5
    PROVE  LET message == WriteIcmp(<<IcmpTypes["DestinationUnreachable"], code>>,
                                    (<<0, 0, 0, 0>>) \o quoted)
           IN  /\ ReadIcmp(message) =
                      [kind |-> "DestinationUnreachable", code |-> code,
                       header |-> ReadIpv4(quoted), datagram |-> Slice(quoted, 20, 28)]
               /\ Sized(message, 36)
<1> DEFINE zeros == <<0, 0, 0, 0>>
           body == zeros \o quoted
           message == WriteIcmp(<<IcmpTypes["DestinationUnreachable"], code>>, body)
<1>1. Holds(body, 4, quoted, 28) /\ Sized(body, 32)
    <2>1. Sized(zeros, 4)
        BY SizedTuples
    <2>2. Holds(body, 4, quoted, 28) /\ Sized(body, 4 + 28)
        <3> HIDE DEF zeros
        <3> QED
            BY <2>1, HoldsParts
    <2>3. 4 + 28 = 32
        OBVIOUS
    <2> HIDE DEF body
    <2> QED
        BY <2>2, <2>3
<1> HIDE DEF body
<1>2. /\ ReadIcmp(message) = ReadUnreachable(code, From(message, 8))
      /\ Holds(message, 4, body, 32) /\ Sized(message, 4 + 32)
    <2>1. 32 >= 4 /\ code \in 0 .. LastCode["DestinationUnreachable"]
        BY LastCodes
    <2> QED
        BY <1>1, <2>1, IcmpIsRead, IcmpParts
<1> HIDE DEF message
<1>3. From(message, 8) = quoted /\ Sized(message, 36)
    <2>1. Holds(message, 4 + 4, quoted, 28)
        BY <1>1, <1>2, HoldsWithin
    <2>2. 4 + 4 = 8 /\ 4 + 32 = 36 /\ 8 + 28 = 36
        OBVIOUS
    <2>3. Len(message) = 36
        BY <1>2, <2>2 DEF Sized
    <2> QED
        BY <1>2, <2>1, <2>2, <2>3, FromIsPiece
<1>4. /\ Ipv4Length(ReadIpv4(quoted)) = 20 /\ Len(quoted) = 28
      /\ ~(code > LastCode.DestinationUnreachable)
    BY LastCodes DEF Ipv4Length, Sized
<1>5. ReadUnreachable(code, quoted) =
          [kind |-> "DestinationUnreachable", code |-> code,
           header |-> ReadIpv4(quoted), datagram |-> Slice(quoted, 20, 28)]
    BY <1>4 DEF ReadUnreachable
<1> QED
    BY <1>2, <1>3, <1>5 DEF body, message

(* What PeerComplains writes of a message.                                 *)
CodeOf(message) == IF message.kind \in DOMAIN LastCode THEN message.code ELSE 0
FieldOf(message) ==
    CASE message.kind = "Redirect" -> Octets(message.gateway)
      [] message.kind = "ParameterProblem" -> <<0, message.pointer, 0, 0>>
      [] message.kind \in {"SourceQuench", "TimeExceeded"} -> <<0, 0, 0, 0>>
WriteComplaint(message) ==
    WriteIcmp(<<IcmpTypes[message.kind], CodeOf(message)>>, FieldOf(message) \o message.data)

LEMMA ComplaintIsRead ==
    ASSUME NEW message \in ControlMessage
    PROVE  /\ ReadIcmp(WriteComplaint(message)) = message
           /\ Sized(WriteComplaint(message), 8 + Len(message.data))
<1> DEFINE field == FieldOf(message)
           data == message.data
           n == Len(data)
           body == field \o data
           bytes == WriteComplaint(message)
<1>1. data \in Seq(0 .. 255)
    BY DEF ControlMessage
<1>2. Sized(data, n) /\ n \in Nat
    BY <1>1, SizedSequence DEF Sized
<1>3. message.kind \in {"SourceQuench", "Redirect", "TimeExceeded", "ParameterProblem"}
    BY DEF ControlMessage
<1>4. Sized(field, 4)
    BY <1>3, SizedTuples, SizedNumbers DEF FieldOf
<1>5. CodeOf(message) \in Int /\
      (message.kind \in DOMAIN LastCode => CodeOf(message) \in 0 .. LastCode[message.kind])
    BY <1>3, LastCodes DEF CodeOf, ControlMessage
<1> HIDE DEF field, data, n
<1>6. Holds(body, 0, field, 4) /\ Holds(body, 4, data, n) /\ Sized(body, 4 + n)
    BY <1>2, <1>4, HoldsParts
<1>7. bytes = WriteIcmp(<<IcmpTypes[message.kind], CodeOf(message)>>, body)
    BY DEF WriteComplaint, field, data
<1> HIDE DEF bytes, body
<1>8. /\ ReadIcmp(bytes) =
             CASE message.kind \in {"EchoRequest", "EchoReply"} ->
                      Echo(message.kind, At16(bytes, 4), At16(bytes, 6), From(bytes, 8))
               [] message.kind = "DestinationUnreachable" ->
                      ReadUnreachable(CodeOf(message), From(bytes, 8))
               [] message.kind = "SourceQuench" ->
                      [kind |-> message.kind, data |-> From(bytes, 8)]
               [] message.kind = "Redirect" ->
                      [kind |-> message.kind, code |-> CodeOf(message),
                       gateway |-> AddressAt(bytes, 4), data |-> From(bytes, 8)]
               [] message.kind = "TimeExceeded" ->
                      [kind |-> message.kind, code |-> CodeOf(message), data |-> From(bytes, 8)]
               [] message.kind = "ParameterProblem" ->
                      [kind |-> message.kind, pointer |-> Byte(bytes, 5),
                       data |-> From(bytes, 8)]
      /\ Holds(bytes, 4, body, 4 + n) /\ Sized(bytes, 4 + (4 + n))
    <2>1. 4 + n >= 4
        BY <1>2
    <2> QED
        BY <1>3, <1>5, <1>6, <1>7, <2>1, IcmpIsRead, IcmpParts
<1>9. Holds(bytes, 4, field, 4) /\ From(bytes, 8) = data /\ Sized(bytes, 8 + n)
    <2>1. Holds(bytes, 4 + 0, field, 4) /\ Holds(bytes, 4 + 4, data, n)
        BY <1>6, <1>8, HoldsWithin
    <2>2. 4 + 0 = 4 /\ 4 + 4 = 8 /\ 4 + (4 + n) = 8 + n /\ Len(bytes) = 4 + (4 + n)
        BY <1>2, <1>8 DEF Sized
    <2> QED
        BY <1>8, <2>1, <2>2, FromIsPiece
<1>10. CASE message.kind = "SourceQuench"
    <2>1. message = [kind |-> message.kind, data |-> data]
        BY <1>10 DEF ControlMessage, data
    <2> QED
        BY <1>8, <1>9, <1>10, <2>1 DEF n, data, bytes
<1>11. CASE message.kind = "Redirect"
    <2>1. /\ message = [kind |-> message.kind, code |-> CodeOf(message),
                        gateway |-> message.gateway, data |-> data]
          /\ message.gateway \in Addresses
        BY <1>11, LastCodes DEF ControlMessage, CodeOf, data
    <2>2. field = Octets(message.gateway)
        BY <1>11 DEF FieldOf, field
    <2>3. AddressAt(bytes, 4) = message.gateway
        BY <1>9, <2>1, <2>2, AddressIsRead
    <2> QED
        BY <1>8, <1>9, <1>11, <2>1, <2>3 DEF n, data, bytes
<1>12. CASE message.kind = "TimeExceeded"
    <2>1. message = [kind |-> message.kind, code |-> CodeOf(message), data |-> data]
        BY <1>12, LastCodes DEF ControlMessage, CodeOf, data
    <2> QED
        BY <1>8, <1>9, <1>12, <2>1 DEF n, data, bytes
<1>13. CASE message.kind = "ParameterProblem"
    <2>1. message = [kind |-> message.kind, pointer |-> message.pointer, data |-> data]
        BY <1>13 DEF ControlMessage, data
    <2>2. field[2] = message.pointer
        BY <1>13 DEF FieldOf, field
    <2>3. Byte(bytes, 4 + 1) = field[1 + 1]
        BY <1>9, ByteOfPiece
    <2>4. 4 + 1 = 5 /\ 1 + 1 = 2
        OBVIOUS
    <2>5. Byte(bytes, 5) = message.pointer
        BY <2>2, <2>3, <2>4
    <2> QED
        BY <1>8, <1>9, <1>13, <2>1, <2>5 DEF n, data, bytes
<1> QED
    BY <1>3, <1>10, <1>11, <1>12, <1>13

-----------------------------------------------------------------------------
(* Frames, read from the outside in *)

TaggedHeader(etherType, source, destination, tag) ==
    WriteEthernet([EthernetHeader(etherType, source, destination) EXCEPT !.vlan = tag])
Untagged == <<>>
TaggedLength(tag) == IF tag = Untagged THEN 14 ELSE 18

LEMMA UntaggedHeader ==
    ASSUME NEW etherType, NEW source, NEW destination
    PROVE  WriteEthernet(EthernetHeader(etherType, source, destination))
               = TaggedHeader(etherType, source, destination, Untagged)
BY DEF EthernetHeader, TaggedHeader, Untagged

LEMMA HeaderIsSized ==
    ASSUME NEW source, Sized(source, 6), NEW destination, Sized(destination, 6),
           NEW etherType, NEW tag
    PROVE  Sized(TaggedHeader(etherType, source, destination, tag), TaggedLength(tag))
<1> DEFINE mark == IF tag = Untagged THEN <<>> ELSE Be16(EtherTypes.VLAN) \o Be16(tag[1])
           type == Be16(EtherTypes[etherType])
           k == IF tag = Untagged THEN 0 ELSE 4
<1>1. TaggedHeader(etherType, source, destination, tag)
          = ((destination \o source) \o mark) \o type
    BY DEF TaggedHeader, WriteEthernet, EthernetHeader, Untagged
<1>2. Sized(mark, k)
    <2>1. Sized(Be16(EtherTypes.VLAN), 2) /\ Sized(Be16(tag[1]), 2) /\ Sized(<<>>, 0)
        BY SizedNumbers, SizedTuples
    <2>2. Sized(Be16(EtherTypes.VLAN) \o Be16(tag[1]), 2 + 2)
        BY <2>1, SizedConcat
    <2>3. 2 + 2 = 4
        OBVIOUS
    <2> QED
        BY <2>1, <2>2, <2>3
<1>3. Sized(type, 2)
    BY SizedNumbers
<1> HIDE DEF mark, type
<1>4. Sized(((destination \o source) \o mark) \o type, 6 + 6 + k + 2)
    BY <1>2, <1>3, FourParts
<1>5. 6 + 6 + k + 2 = TaggedLength(tag)
    BY DEF TaggedLength
<1> QED
    BY <1>1, <1>4, <1>5

(* What a frame carries, as its reader finds it.                           *)
Inside(bytes) == From(bytes, EthernetLength(ReadEthernet(bytes)))
Carries(bytes, etherType) ==
    ReadEthernet(bytes) # Rejected /\ ReadEthernet(bytes).etherType = etherType

Ipv4Of(bytes) == ReadIpv4(Inside(bytes))
PayloadIn(bytes) == PayloadOf(Ipv4Of(bytes), Inside(bytes))
IsPacket(bytes) ==
    /\ Carries(bytes, "IPv4")
    /\ Ipv4Of(bytes) # Rejected /\ ~IsFragmented(Ipv4Of(bytes))
    /\ Ipv4Of(bytes).source \in Addresses /\ Ipv4Of(bytes).destination \in Addresses

LEMMA FrameIsOpened ==
    ASSUME NEW source, Sized(source, 6), NEW destination, Sized(destination, 6),
           NEW etherType \in {"IPv4", "ARP"}, NEW tag \in {Untagged} \cup [1 .. 1 -> Words], NEW bytes,
           Holds(bytes, 0, TaggedHeader(etherType, source, destination, tag), TaggedLength(tag))
    PROVE  Carries(bytes, etherType) /\ Inside(bytes) = From(bytes, TaggedLength(tag))
BY EthernetIsRead DEF TaggedHeader, TaggedLength, Untagged, Carries, Inside

(* The pieces of a packet in a frame, and what is read of them.            *)
Packet(protocol, source, destination, n) ==
    WriteIpv4(Ipv4Header(protocol, source, destination, n, Identification))

Encloses(bytes, start, protocol, source, destination, payload, n) ==
    /\ Holds(bytes, start, Packet(protocol, source, destination, n), 20)
    /\ Holds(bytes, start + 20, payload, n)

LEMMA PacketIsRead ==
    ASSUME NEW mac, Sized(mac, 6), NEW neighbour, Sized(neighbour, 6),
           NEW tag \in {Untagged} \cup [1 .. 1 -> Words], NEW bytes,
           Holds(bytes, 0, TaggedHeader("IPv4", mac, neighbour, tag), TaggedLength(tag)),
           NEW protocol \in {"ICMP", "UDP"}, NEW source \in Addresses,
           NEW destination \in Addresses, NEW payload, NEW n \in Nat, 20 + n \in Words,
           Encloses(bytes, TaggedLength(tag), protocol, source, destination, payload, n)
    PROVE  LET ip == Ipv4Of(bytes)
           IN  /\ IsPacket(bytes) /\ PayloadIn(bytes) = payload
               /\ ip.protocol = protocol /\ ip.source = source /\ ip.destination = destination
<1> DEFINE start == TaggedLength(tag)
           inside == From(bytes, start)
           packet == Packet(protocol, source, destination, n)
           ip == ReadIpv4(inside)
<1>1. Carries(bytes, "IPv4") /\ Inside(bytes) = inside
    BY FrameIsOpened
<1>2. start \in Nat
    BY DEF TaggedLength
<1>3. Holds(bytes, start, packet, 20) /\ Holds(bytes, start + 20, payload, n)
    BY DEF Encloses
<1> HIDE DEF start, packet
<1>4. Holds(inside, 0, packet, 20) /\ Holds(inside, 20, payload, n)
    <2>1. start - start = 0 /\ (start + 20) - start = 20 /\ start <= start /\ start <= start + 20
        BY <1>2
    <2>2. Holds(inside, start - start, packet, 20) /\ Holds(inside, (start + 20) - start, payload, n)
        BY <1>2, <1>3, <2>1, FromKeeps
    <2> QED
        BY <2>1, <2>2
<1> HIDE DEF inside
<1>5. /\ ip # Rejected /\ ip.words = 5 /\ ip.totalLength = 20 + n
      /\ ~IsFragmented(ip) /\ ip.protocol = protocol
      /\ ip.source = source /\ ip.destination = destination
    BY <1>4, Ipv4IsRead DEF packet, Packet
<1> HIDE DEF ip
<1>6. PayloadOf(ip, inside) = payload
    <2>1. Ipv4Length(ip) = 20
        BY <1>5 DEF Ipv4Length
    <2>2. PayloadOf(ip, inside) = Slice(inside, 20, 20 + n)
        BY <1>5, <2>1 DEF PayloadOf
    <2> QED
        BY <1>4, <2>2, SliceIsPiece
<1>7. Ipv4Of(bytes) = ip /\ PayloadIn(bytes) = PayloadOf(ip, inside)
    BY <1>1 DEF Ipv4Of, PayloadIn, ip
<1> QED
    BY <1>1, <1>5, <1>6, <1>7 DEF IsPacket

(* A frame of the peer, tagged or not, padded or not.                      *)
LEMMA PeerPacketIsRead ==
    ASSUME NEW destination \in Addresses, NEW protocol \in {"ICMP", "UDP"},
           NEW payload, NEW n, Sized(payload, n), 20 + n \in Words,
           NEW tag \in {Untagged} \cup [1 .. 1 -> Words], NEW padding, NEW k, Sized(padding, k)
    PROVE  LET bytes == PeerFrame(destination, protocol, payload, tag, padding)
               ip == Ipv4Of(bytes)
           IN  /\ IsPacket(bytes) /\ PayloadIn(bytes) = payload
               /\ ip.protocol = protocol /\ ip.source = PeerAddress /\ ip.destination = destination
<1> DEFINE header == TaggedHeader("IPv4", PeerMac, OurMac, tag)
           start == TaggedLength(tag)
           packet == Packet(protocol, PeerAddress, destination, n)
           bytes == ((header \o packet) \o payload) \o padding
<1>1. Len(payload) = n /\ n \in Nat
    BY DEF Sized
<1>2. PeerFrame(destination, protocol, payload, tag, padding) = bytes
    BY <1>1 DEF PeerFrame, TaggedHeader, Packet
<1>3. Sized(PeerMac, 6) /\ Sized(OurMac, 6)
    BY HostsHaveMacs, MacsAreSized
<1>4. Sized(header, start) /\ Sized(packet, 20)
    BY <1>1, <1>3, HeaderIsSized, Ipv4HeaderIsSized DEF Packet
<1> HIDE DEF header, packet, start
<1>5. /\ Holds(bytes, 0, header, start) /\ Holds(bytes, start, packet, 20)
      /\ Holds(bytes, start + 20, payload, n)
    BY <1>4, FourParts
<1> HIDE DEF bytes
<1>6. Encloses(bytes, start, protocol, PeerAddress, destination, payload, n)
    BY <1>5 DEF Encloses, packet
<1>7. PeerAddress \in Addresses
    BY PathAssumption DEF PathAssumption
<1> QED
    BY <1>1, <1>2, <1>3, <1>5, <1>6, <1>7, PacketIsRead DEF start, header

(* A frame of IPv4Handler::send, and the route it took.                    *)
LEMMA SentPacket ==
    ASSUME NEW host, host.mac \in Mac, host.neighbourMac \in Mac,
           NEW source, NEW destination, NEW protocol, NEW payload, NEW n, Sized(payload, n),
           SendIpv4(host, source, destination, protocol, payload).result = "sent"
    PROVE  LET bytes == SendIpv4(host, source, destination, protocol, payload).bytes
               route == Lookup(host.routes, destination)
               from == IF source = Unspecified THEN route.source ELSE source
           IN  /\ Holds(bytes, 0, TaggedHeader("IPv4", host.mac, host.neighbourMac, Untagged),
                        TaggedLength(Untagged))
               /\ Encloses(bytes, TaggedLength(Untagged), protocol, from, destination, payload, n)
               /\ route # NoRoute /\ n \in Nat /\ n >= 8 /\ 20 + n \in Words
<1> DEFINE route == Lookup(host.routes, destination)
           from == IF source = Unspecified THEN route.source ELSE source
           packet == WriteIpv4(Ipv4Header(protocol, from, destination, Len(payload), Identification))
           nextHop == IF route.nextHop = NoAddress THEN destination ELSE route.nextHop
           below == SendEthernet(host.mac, host.neighbourMac, "IPv4", packet \o payload)
           attempt == SendIpv4(host, source, destination, protocol, payload)
<1>1. attempt =
          IF Len(payload) < 8 THEN Failed("PayloadTooShort")
          ELSE IF Len(payload) + 20 > Mtu THEN Failed("PayloadTooLarge")
          ELSE IF route = NoRoute THEN Failed("NoRouteToHost")
          ELSE IF nextHop \notin host.neighbours THEN Failed("ArpTimeout")
          ELSE below
    BY DEF SendIpv4
<1>2. attempt.result = "sent"
    OBVIOUS
<1>3. \A result : Failed(result).result = result
    BY DEF Failed
<1> HIDE DEF below, attempt
<1>4. /\ attempt = below /\ route # NoRoute
      /\ ~(Len(payload) < 8) /\ ~(Len(payload) + 20 > Mtu)
    BY <1>1, <1>2, <1>3
<1>5. Len(payload) = n /\ n \in Nat /\ n >= 8 /\ n + 20 <= Mtu /\ Mtu \in Nat /\ Mtu \in Words
    BY <1>4, PathAssumption, WidthAssumption DEF Sized, PathAssumption, WidthAssumption
<1>6. 20 + n \in Words
    BY <1>5, WordBounds
<1> DEFINE ethernet == TaggedHeader("IPv4", host.mac, host.neighbourMac, Untagged)
           bytes == ethernet \o (packet \o payload)
<1>7. below.bytes = bytes
    <2>1. below.result = "sent"
        BY <1>2, <1>4
    <2> DEFINE header == EthernetHeader("IPv4", host.mac, host.neighbourMac)
               whole == packet \o payload
    <2>2. WriteEthernet(header) = ethernet
        BY UntaggedHeader
    <2> HIDE DEF whole, ethernet
    <2>3. below = IF Fits(header, whole)
                  THEN [result |-> "sent", bytes |-> WriteEthernet(header) \o whole]
                  ELSE Failed("panic")
        BY DEF SendEthernet, below, whole
    <2>4. below = [result |-> "sent", bytes |-> ethernet \o whole]
        BY <1>3, <2>1, <2>2, <2>3
    <2> QED
        BY <2>4 DEF whole
<1>8. Sized(host.mac, 6) /\ Sized(host.neighbourMac, 6)
    BY MacsAreSized
<1>9. Sized(ethernet, 14) /\ TaggedLength(Untagged) = 14
    BY <1>8, HeaderIsSized DEF TaggedLength
<1>10. Sized(packet, 20)
    BY <1>5, Ipv4HeaderIsSized
<1> HIDE DEF ethernet, from
<1>11. packet = Packet(protocol, from, destination, n)
    BY <1>5 DEF Packet
<1> HIDE DEF packet, route
<1>12. /\ Holds(bytes, 0, ethernet, 14) /\ Holds(bytes, 14, packet, 20)
       /\ Holds(bytes, 14 + 20, payload, n)
    <2> DEFINE whole == packet \o payload
    <2>1. Holds(whole, 0, packet, 20) /\ Holds(whole, 20, payload, n) /\ Sized(whole, 20 + n)
        BY <1>10, HoldsParts
    <2> HIDE DEF whole
    <2>2. Holds(ethernet \o whole, 0, ethernet, 14) /\ Holds(ethernet \o whole, 14, whole, 20 + n)
        BY <1>9, <2>1, HoldsParts
    <2>3. Holds(ethernet \o whole, 14 + 0, packet, 20)
          /\ Holds(ethernet \o whole, 14 + 20, payload, n)
        BY <2>1, <2>2, HoldsWithin
    <2>4. 14 + 0 = 14
        OBVIOUS
    <2> QED
        BY <2>2, <2>3, <2>4 DEF whole
<1> HIDE DEF bytes
<1>13. Encloses(bytes, 14, protocol, from, destination, payload, n)
    BY <1>11, <1>12 DEF Encloses
<1> QED
    BY <1>4, <1>5, <1>6, <1>7, <1>9, <1>12, <1>13 DEF ethernet, route, from, attempt

(* What a router quotes of such a frame.                                   *)
QuoteOf(bytes) == Slice(bytes, 14, 14 + 20 + 8)

LEMMA QuoteIsRead ==
    ASSUME NEW bytes, NEW protocol \in {"ICMP", "UDP"}, NEW source \in Addresses,
           NEW destination \in Addresses, NEW payload, NEW n \in Nat, 20 + n \in Words,
           Encloses(bytes, 14, protocol, source, destination, payload, n)
    PROVE  LET header == ReadIpv4(QuoteOf(bytes))
           IN  /\ header # Rejected /\ header.words = 5
               /\ header.protocol = protocol /\ header.destination = destination
<1> DEFINE quote == QuoteOf(bytes)
           packet == Packet(protocol, source, destination, n)
<1>1. Holds(bytes, 14, packet, 20)
    BY DEF Encloses
<1> HIDE DEF packet
<1>2. Holds(quote, 0, packet, 20)
    <2>1. 14 + 20 + 8 = 42 /\ 14 <= 14 /\ 14 + 20 <= 42 /\ 14 - 14 = 0
        OBVIOUS
    <2>2. quote = Slice(bytes, 14, 42)
        BY <2>1 DEF QuoteOf
    <2>3. Holds(Slice(bytes, 14, 42), 14 - 14, packet, 20)
        BY <1>1, <2>1, SliceKeeps
    <2> QED
        BY <2>1, <2>2, <2>3
<1> HIDE DEF quote
<1>3. LET header == ReadIpv4(quote)
      IN  /\ header # Rejected /\ header.words = 5
          /\ header.protocol = protocol /\ header.destination = destination
    BY <1>2, Ipv4IsRead DEF packet, Packet
<1> QED
    BY <1>3 DEF quote

LEMMA EightAreQuoted ==
    ASSUME NEW bytes, NEW payload, NEW n, Holds(bytes, 14 + 20, payload, n),
           NEW at \in Nat, NEW part, NEW k \in Nat, Holds(payload, at, part, k), at + k <= 8
    PROVE  Holds(Slice(QuoteOf(bytes), 20, 28), at, part, k)
<1>1. Holds(bytes, (14 + 20) + at, part, k)
    BY HoldsWithin
<1>2. /\ 14 + 20 + 8 = 42 /\ 14 <= (14 + 20) + at /\ (14 + 20) + at + k <= 42
      /\ ((14 + 20) + at) - 14 = 20 + at
      /\ 20 <= 20 + at /\ (20 + at) + k <= 28 /\ (20 + at) - 20 = at
    OBVIOUS
<1> DEFINE quote == Slice(bytes, 14, 42)
<1>3. Holds(quote, ((14 + 20) + at) - 14, part, k)
    BY <1>1, <1>2, SliceKeeps
<1> HIDE DEF quote
<1>4. Holds(Slice(quote, 20, 28), (20 + at) - 20, part, k)
    BY <1>2, <1>3, SliceKeeps
<1> QED
    BY <1>2, <1>4 DEF quote, QuoteOf

-----------------------------------------------------------------------------
(* What every frame says to its receiver *)

(* An ARP frame names who sent it; if it asks, it is to be answered by the *)
(* host that has the address asked for, and otherwise by nobody.           *)
ArpIsUnderstood(frame) ==
    LET arp == ReadArp(Inside(frame.bytes))
    IN  /\ Carries(frame.bytes, "ARP") /\ arp # Rejected
        /\ arp.sender = frame.meant.address /\ arp.senderMac = frame.meant.mac
        /\ arp.sender \in Addresses
        /\ Sized(arp.senderMac, 6)
        /\ IF frame.meant.kind = "asked"
           THEN /\ arp.operation = "Request" /\ arp.target = frame.destination
                /\ frame.destination \in Addresses
           ELSE arp.operation = "Reply" \/ (frame.to = "peer" /\ arp.target # PeerAddress)

(* A datagram passes its checksum and has the data and the source it was   *)
(* meant to have.                                                          *)
DatagramIsUnderstood(ip, payload, meant) ==
    LET udp == ReadUdp(payload)
        data == Slice(payload, 8, udp.length)
    IN  /\ ip.protocol = "UDP"
        /\ udp # Rejected /\ udp.destinationPort = Port
        /\ UdpChecksum(udp, ip.source, ip.destination, data) = udp.checksum
        /\ meant.data = data /\ meant.source = <<ip.source, udp.sourcePort>>

(* A control message is what it was meant to be; a request can be answered. *)
ControlIsUnderstood(ip, payload, meant) ==
    /\ ip.protocol = "ICMP" /\ HearIcmp(ip, payload) = meant
    /\ meant.kind = "request" =>
          \E n : /\ meant.message = Echo("EchoRequest", Identifier, Sequence, meant.message.data)
                 /\ Sized(meant.message.data, n)

Ipv4IsUnderstood(frame) ==
    LET ip == Ipv4Of(frame.bytes)
        payload == PayloadIn(frame.bytes)
    IN  /\ IsPacket(frame.bytes) /\ ip.destination = frame.destination
        /\ IF frame.meant.kind = "datagram"
           THEN /\ DatagramIsUnderstood(ip, payload, frame.meant)
                /\ frame.to = "us" => frame.destination \in V4
           ELSE ControlIsUnderstood(ip, payload, frame.meant)

(* What a router quotes of a frame tells its sender which packet it was.   *)
QuoteIsUnderstood(frame) ==
    LET header == ReadIpv4(QuoteOf(frame.bytes))
        eight == Slice(QuoteOf(frame.bytes), 20, 28)
    IN  /\ header # Rejected /\ header.words = 5 /\ header.destination = frame.destination
        /\ IF frame.meant.kind = "request"
           THEN /\ header.protocol = "ICMP" /\ Byte(eight, 0) = 8 /\ Byte(eight, 1) = 0
                /\ At16(eight, 4) = Identifier /\ At16(eight, 6) = Sequence
           ELSE header.protocol = "UDP"

Understood(frame) ==
    /\ IF frame.meant.kind \in {"asked", "told"} THEN ArpIsUnderstood(frame)
       ELSE Ipv4IsUnderstood(frame)
    /\ frame.to = "peer" /\ frame.meant.kind \in {"datagram", "request"}
          => QuoteIsUnderstood(frame)

WireIsUnderstood == wire.to \in {"us", "peer"} => Understood(wire)

LEMMA NewIsUnderstood ==
    ASSUME NEW to, NEW bytes, NEW destination, NEW meant,
           wire' = Frame(to, bytes, destination, meant),
           Understood(Frame(to, bytes, destination, meant))
    PROVE  WireIsUnderstood'
<1>1. Understood(wire')
    OBVIOUS
<1>2. Understood(wire') <=> Understood(wire)'
    BY DEF Understood, ArpIsUnderstood, Ipv4IsUnderstood, QuoteIsUnderstood, Inside, Carries,
           Ipv4Of, PayloadIn, IsPacket, QuoteOf
<1> QED
    BY <1>1, <1>2 DEF WireIsUnderstood

LEMMA NoneIsUnderstood ==
    ASSUME wire' = NoFrame
    PROVE  WireIsUnderstood'
BY DEF NoFrame, WireIsUnderstood

(* A datagram, in whatever frame it comes.                                 *)
LEMMA DatagramsAreUnderstood ==
    ASSUME NEW source \in Addresses, NEW destination, NEW data, NEW n, Sized(data, n),
           8 + n \in Words, NEW to, NEW socket, NEW bytes,
           IsPacket(bytes), PayloadIn(bytes) = Datagram(source, destination, data),
           Ipv4Of(bytes).protocol = "UDP", Ipv4Of(bytes).source = source,
           Ipv4Of(bytes).destination = destination, to = "us" => destination \in V4
    PROVE  Ipv4IsUnderstood(Frame(to, bytes, destination,
                                  [kind |-> "datagram", socket |-> socket, data |-> data,
                                   source |-> <<source, Port>>]))
<1> DEFINE meant == [kind |-> "datagram", socket |-> socket, data |-> data,
                     source |-> <<source, Port>>]
           frame == Frame(to, bytes, destination, meant)
           ip == Ipv4Of(bytes)
           payload == PayloadIn(bytes)
<1>1. /\ frame.to = to /\ frame.bytes = bytes /\ frame.destination = destination
      /\ frame.meant = meant
    BY DEF Frame
<1>2. meant.kind = "datagram" /\ meant.data = data /\ meant.source = <<source, Port>>
    OBVIOUS
<1> HIDE DEF frame, meant, ip, payload
<1>3. DatagramIsUnderstood(ip, payload, meant)
    BY <1>2, DatagramIsRead DEF DatagramIsUnderstood, ip, payload
<1> QED
    BY <1>1, <1>2, <1>3 DEF Ipv4IsUnderstood, frame, meant, ip, payload

LEMMA ControlsAreUnderstood ==
    ASSUME NEW to, NEW bytes, NEW destination, NEW meant,
           meant.kind \notin {"asked", "told", "datagram"},
           IsPacket(bytes), Ipv4Of(bytes).destination = destination,
           ControlIsUnderstood(Ipv4Of(bytes), PayloadIn(bytes), meant)
    PROVE  Ipv4IsUnderstood(Frame(to, bytes, destination, meant))
BY DEF Ipv4IsUnderstood, Frame

(* HearIcmp of the messages that are written.                              *)
LEMMA RequestIsHeard ==
    ASSUME NEW ip, NEW data, NEW n, Sized(data, n), ip.protocol = "ICMP"
    PROVE  LET message == Echo("EchoRequest", Identifier, Sequence, data)
           IN  ControlIsUnderstood(ip, WriteEcho(message),
                   [kind |-> "request", source |-> ip.source, destination |-> ip.destination,
                    message |-> message])
<1> DEFINE message == Echo("EchoRequest", Identifier, Sequence, data)
           meant == [kind |-> "request", source |-> ip.source, destination |-> ip.destination,
                     message |-> message]
<1>1. ReadIcmp(WriteEcho(message)) = message
    <2>1. Identifier \in Words /\ Sequence \in Words
        BY WidthAssumption DEF WidthAssumption
    <2> QED
        BY <2>1, EchoIsRead
<1>2. message.kind = "EchoRequest" /\ message.data = data
    BY DEF Echo
<1>3. message = Echo("EchoRequest", Identifier, Sequence, message.data)
    BY <1>2
<1> HIDE DEF message
<1>4. HearIcmp(ip, WriteEcho(message)) = meant
    BY <1>1, <1>2 DEF HearIcmp
<1>5. meant.kind = "request" /\ meant.message = message
    OBVIOUS
<1> HIDE DEF meant
<1>6. ControlIsUnderstood(ip, WriteEcho(message), meant)
    BY <1>2, <1>3, <1>4, <1>5 DEF ControlIsUnderstood
<1> QED
    BY <1>6 DEF meant, message

LEMMA ReplyIsHeard ==
    ASSUME NEW ip, NEW data, NEW n, Sized(data, n), ip.protocol = "ICMP"
    PROVE  ControlIsUnderstood(ip, WriteEcho(Echo("EchoReply", Identifier, Sequence, data)),
               [kind |-> "reply", target |-> ip.source, identifier |-> Identifier,
                sequence |-> Sequence, time |-> TimeIn(data)])
<1> DEFINE message == Echo("EchoReply", Identifier, Sequence, data)
           meant == [kind |-> "reply", target |-> ip.source, identifier |-> Identifier,
                     sequence |-> Sequence, time |-> TimeIn(data)]
<1>1. ReadIcmp(WriteEcho(message)) = message
    <2>1. Identifier \in Words /\ Sequence \in Words
        BY WidthAssumption DEF WidthAssumption
    <2> QED
        BY <2>1, EchoIsRead
<1>2. message.kind = "EchoReply" /\ message.data = data /\ message.identifier = Identifier
      /\ message.sequence = Sequence
    BY DEF Echo
<1> HIDE DEF message
<1>3. TimeIn(data) = ReadUnixData(data)
    BY TimeInIsRead
<1>4. HearIcmp(ip, WriteEcho(message)) = meant
    BY <1>1, <1>2, <1>3 DEF HearIcmp
<1>5. meant.kind = "reply"
    OBVIOUS
<1> HIDE DEF meant
<1>6. ControlIsUnderstood(ip, WriteEcho(message), meant)
    BY <1>4, <1>5 DEF ControlIsUnderstood
<1> QED
    BY <1>6 DEF meant, message

LEMMA ComplaintIsHeard ==
    ASSUME NEW ip, NEW message \in Complaints, ip.protocol = "ICMP"
    PROVE  ControlIsUnderstood(ip, WriteComplaint(message),
                               [kind |-> "control", message |-> message])
<1> DEFINE meant == [kind |-> "control", message |-> message]
<1>1. message \in ControlMessage
    BY PathAssumption DEF PathAssumption
<1>2. ReadIcmp(WriteComplaint(message)) = message
    BY <1>1, ComplaintIsRead
<1>3. message.kind \in {"SourceQuench", "Redirect", "TimeExceeded", "ParameterProblem"}
    BY Complained
<1>4. HearIcmp(ip, WriteComplaint(message)) = meant
    BY <1>2, <1>3 DEF HearIcmp
<1>5. meant.kind = "control"
    OBVIOUS
<1> HIDE DEF meant
<1>6. ControlIsUnderstood(ip, WriteComplaint(message), meant)
    BY <1>4, <1>5 DEF ControlIsUnderstood
<1> QED
    BY <1>6 DEF meant

(* A refusal says of the packet on the wire what its sender knows it by.   *)
LEMMA RefusalIsHeard ==
    ASSUME NEW ip, ip.protocol = "ICMP", NEW code \in Codes,
           wire.meant.kind \in {"datagram", "request"}, QuoteIsUnderstood(wire)
    PROVE  ControlIsUnderstood(ip, WriteIcmp(<<IcmpTypes["DestinationUnreachable"], code>>,
                                             (<<0, 0, 0, 0>>) \o Quoted),
                               Refusal(code))
<1> DEFINE header == ReadIpv4(Quoted)
           eight == Slice(Quoted, 20, 28)
           icmp == [kind |-> "DestinationUnreachable", code |-> code,
                    header |-> header, datagram |-> eight]
           message == WriteIcmp(<<IcmpTypes["DestinationUnreachable"], code>>,
                                (<<0, 0, 0, 0>>) \o Quoted)
<1>1. Quoted = QuoteOf(wire.bytes)
    BY DEF Quoted, QuoteOf
<1>2. /\ header # Rejected /\ header.words = 5 /\ header.destination = wire.destination
      /\ IF wire.meant.kind = "request"
         THEN /\ header.protocol = "ICMP" /\ Byte(eight, 0) = 8 /\ Byte(eight, 1) = 0
              /\ At16(eight, 4) = Identifier /\ At16(eight, 6) = Sequence
         ELSE header.protocol = "UDP"
    BY <1>1 DEF QuoteIsUnderstood
<1>3. ReadIcmp(message) = icmp
    <2>1. code \in 0 .. 5
        BY WidthAssumption, LastCodes DEF WidthAssumption
    <2> QED
        BY <1>2, <2>1, QuotedIsSized, UnreachableIsRead
<1> HIDE DEF message
<1>4. /\ icmp.kind = "DestinationUnreachable" /\ icmp.code = code /\ icmp.header = header
      /\ icmp.datagram = eight
    OBVIOUS
<1> HIDE DEF icmp, header, eight
<1>5. HearIcmp(ip, message) = ForwardAsyncError(icmp)
    BY <1>3, <1>4 DEF HearIcmp
<1>6. ForwardAsyncError(icmp) = Refusal(code)
    BY <1>2, <1>4 DEF ForwardAsyncError, Refusal
<1>7. Refusal(code).kind \in {"unreachable", "logged"}
    BY DEF Refusal
<1>8. ControlIsUnderstood(ip, message, Refusal(code))
    BY <1>5, <1>6, <1>7 DEF ControlIsUnderstood
<1> QED
    BY <1>8 DEF message

-----------------------------------------------------------------------------
(* ARP frames *)

LEMMA ArpFrameIsRead ==
    ASSUME NEW mac, Sized(mac, 6), NEW neighbour, Sized(neighbour, 6),
           NEW m, Sized(m.senderMac, 6), Sized(m.targetMac, 6),
           m.operation \in {"Request", "Reply"}, m.sender \in Addresses, m.target \in Addresses
    PROVE  LET bytes == WriteEthernet(EthernetHeader("ARP", mac, neighbour)) \o WriteArp(m)
               arp == ReadArp(Inside(bytes))
           IN  /\ Carries(bytes, "ARP") /\ arp # Rejected /\ arp.operation = m.operation
               /\ arp.senderMac = m.senderMac /\ arp.sender = m.sender /\ arp.target = m.target
<1> DEFINE header == TaggedHeader("ARP", mac, neighbour, Untagged)
           written == WriteArp(m)
           bytes == header \o written
<1>1. WriteEthernet(EthernetHeader("ARP", mac, neighbour)) = header
    BY UntaggedHeader
<1>2. Sized(header, 14) /\ TaggedLength(Untagged) = 14
    BY HeaderIsSized DEF TaggedLength
<1>3. Sized(written, 28)
    BY ArpIsSized
<1> HIDE DEF header, written
<1>4. Holds(bytes, 0, header, 14) /\ Holds(bytes, 14, written, 28)
    BY <1>2, <1>3, HoldsParts
<1> HIDE DEF bytes
<1>5. Carries(bytes, "ARP") /\ Inside(bytes) = From(bytes, 14)
    BY <1>2, <1>4, FrameIsOpened DEF header
<1>6. Holds(Inside(bytes), 0, written, 28)
    <2>1. 14 - 14 = 0 /\ 14 <= 14
        OBVIOUS
    <2>2. Holds(From(bytes, 14), 14 - 14, written, 28)
        BY <1>4, <2>1, FromKeeps
    <2> QED
        BY <1>5, <2>1, <2>2
<1>7. LET arp == ReadArp(Inside(bytes))
      IN  /\ arp # Rejected /\ arp.operation = m.operation
          /\ arp.senderMac = m.senderMac /\ arp.sender = m.sender /\ arp.target = m.target
    BY <1>6, ArpIsRead DEF written
<1> QED
    BY <1>1, <1>5, <1>7 DEF bytes, written

LEMMA SentArp ==
    ASSUME NEW mac, NEW destination, NEW payload,
           SendEthernet(mac, destination, "ARP", payload).result = "sent"
    PROVE  SendEthernet(mac, destination, "ARP", payload).bytes
               = WriteEthernet(EthernetHeader("ARP", mac, destination)) \o payload
<1> DEFINE header == EthernetHeader("ARP", mac, destination)
           whole == WriteEthernet(header) \o payload
           attempt == SendEthernet(mac, destination, "ARP", payload)
<1>1. attempt = IF Fits(header, payload) THEN [result |-> "sent", bytes |-> whole]
                ELSE Failed("panic")
    BY DEF SendEthernet
<1>2. Failed("panic").result = "panic"
    BY DEF Failed
<1>3. attempt.result = "sent"
    OBVIOUS
<1> HIDE DEF attempt, whole, header
<1>4. attempt = [result |-> "sent", bytes |-> whole]
    BY <1>1, <1>2, <1>3
<1>5. attempt.bytes = whole
    BY <1>4
<1> QED
    BY <1>5 DEF attempt, whole, header

(* The probe that found nobody: an announcement.                           *)
LEMMA AnnouncementsAreUnderstood ==
    ASSUME NEW g \in Grants, GrantAddress(g.address, g.prefix)
    PROVE  WireIsUnderstood'
<1> DEFINE a == g.address
           m == Gratuitous(OurMac, a)
           attempt == SendEthernet(OurMac, m.targetMac, "ARP", WriteArp(m))
           meant == [kind |-> "told", address |-> a, mac |-> OurMac]
           frame == Frame("peer", attempt.bytes, a, meant)
           arp == ReadArp(Inside(attempt.bytes))
<1>1. wire' = frame
    BY DEF GrantAddress
<1>2. a \in Addresses /\ a # PeerAddress
    BY PathAssumption, HostsAssumption DEF PathAssumption, HostsAssumption
<1>3. /\ m.senderMac = OurMac /\ m.targetMac = Broadcast6 /\ m.operation = "Request"
      /\ m.sender = a /\ m.target = a
    BY DEF Gratuitous, ArpRequest
<1>4. Sized(OurMac, 6) /\ Sized(Broadcast6, 6)
    BY HostsHaveMacs, MacsAreSized, BroadcastIsSized
<1> HIDE DEF a, m
<1>5. attempt.result = "sent"
    BY <1>3, <1>4, ArpFits
<1>6. attempt.bytes = WriteEthernet(EthernetHeader("ARP", OurMac, m.targetMac)) \o WriteArp(m)
    BY <1>5, SentArp
<1> HIDE DEF attempt
<1>7. /\ Carries(attempt.bytes, "ARP") /\ arp # Rejected /\ arp.senderMac = OurMac
      /\ arp.sender = a /\ arp.target = a
    BY <1>2, <1>3, <1>4, <1>6, ArpFrameIsRead
<1>8. /\ frame.to = "peer" /\ frame.bytes = attempt.bytes /\ frame.meant.kind = "told"
      /\ frame.meant.address = a /\ frame.meant.mac = OurMac
    BY DEF Frame
<1> HIDE DEF frame, arp
<1>9. ArpIsUnderstood(frame)
    BY <1>2, <1>4, <1>7, <1>8 DEF ArpIsUnderstood, arp
<1>10. Understood(frame)
    BY <1>8, <1>9 DEF Understood
<1> QED
    BY <1>1, <1>10, NewIsUnderstood DEF frame

LEMMA QuestionsAreUnderstood ==
    ASSUME NEW a \in PeerDestinations, PeerAsks(a)
    PROVE  WireIsUnderstood'
<1> DEFINE m == ArpRequest(PeerMac, a, PeerAddress)
           bytes == WriteEthernet(EthernetHeader("ARP", PeerMac, Broadcast6)) \o WriteArp(m)
           meant == [kind |-> "asked", address |-> PeerAddress, mac |-> PeerMac]
           frame == Frame("us", bytes, a, meant)
           arp == ReadArp(Inside(bytes))
<1>1. wire' = frame
    BY DEF PeerAsks, PeerSends
<1>2. a \in Addresses /\ PeerAddress \in Addresses
    BY PathAssumption, HostsAssumption DEF PathAssumption, HostsAssumption
<1>3. /\ m.senderMac = PeerMac /\ m.targetMac = Broadcast6 /\ m.operation = "Request"
      /\ m.sender = PeerAddress /\ m.target = a
    BY DEF ArpRequest
<1>4. Sized(PeerMac, 6) /\ Sized(Broadcast6, 6)
    BY HostsHaveMacs, MacsAreSized, BroadcastIsSized
<1> HIDE DEF m
<1>7. /\ Carries(bytes, "ARP") /\ arp # Rejected /\ arp.operation = "Request"
      /\ arp.senderMac = PeerMac /\ arp.sender = PeerAddress /\ arp.target = a
    BY <1>2, <1>3, <1>4, ArpFrameIsRead
<1>8. /\ frame.to = "us" /\ frame.bytes = bytes /\ frame.meant.kind = "asked"
      /\ frame.destination = a
      /\ frame.meant.address = PeerAddress /\ frame.meant.mac = PeerMac
    BY DEF Frame
<1> HIDE DEF frame, arp, bytes
<1>9. ArpIsUnderstood(frame)
    BY <1>2, <1>4, <1>7, <1>8 DEF ArpIsUnderstood, arp
<1>10. Understood(frame)
    BY <1>8, <1>9 DEF Understood
<1> QED
    BY <1>1, <1>10, NewIsUnderstood DEF frame, bytes

-----------------------------------------------------------------------------
(* The packets of our sockets and pings *)

(* A route that was found leaves from an address.                          *)
LEMMA RouteHasSource ==
    ASSUME RoutesInv, NEW d, Lookup(routes, d) # NoRoute
    PROVE  Lookup(routes, d).source \in Addresses
<1>1. routes \in Seq(RouteRecord) /\ InOrder(routes)
    BY DEF RoutesInv, RoutesInOrder
<1>2. Lookup(routes, d) \in ToSet(routes)
    BY <1>1, LookupFindsTheBest
<1>3. \A r \in ToSet(routes) : r \in RouteRecord
    BY <1>1, PlacesOfSet
<1> QED
    BY <1>2, <1>3 DEF RouteRecord

LEMMA UsAreKnown == Us.mac \in Mac /\ Us.neighbourMac \in Mac /\ Us.routes = routes
BY HostsHaveMacs DEF Us

LEMMA PacketOfOurs ==
    ASSUME RoutesInv, NEW source \in Addresses, NEW destination \in Addresses,
           NEW protocol \in {"ICMP", "UDP"}, NEW payload, NEW n, Sized(payload, n),
           SendIpv4(Us, source, destination, protocol, payload).result = "sent"
    PROVE  LET bytes == SendIpv4(Us, source, destination, protocol, payload).bytes
               ip == Ipv4Of(bytes)
               header == ReadIpv4(QuoteOf(bytes))
           IN  /\ n >= 8 /\ 20 + n \in Words /\ n \in Nat
               /\ IsPacket(bytes) /\ PayloadIn(bytes) = payload
               /\ ip.protocol = protocol /\ ip.destination = destination
               /\ ip.source = (IF source = Unspecified THEN Lookup(routes, destination).source
                               ELSE source)
               /\ header # Rejected /\ header.words = 5
               /\ header.protocol = protocol /\ header.destination = destination
               /\ Holds(bytes, 14 + 20, payload, n)
<1> DEFINE bytes == SendIpv4(Us, source, destination, protocol, payload).bytes
           route == Lookup(routes, destination)
           from == IF source = Unspecified THEN route.source ELSE source
<1>1. /\ Holds(bytes, 0, TaggedHeader("IPv4", Us.mac, Us.neighbourMac, Untagged),
               TaggedLength(Untagged))
      /\ Encloses(bytes, TaggedLength(Untagged), protocol, from, destination, payload, n)
      /\ route # NoRoute /\ n \in Nat /\ n >= 8 /\ 20 + n \in Words
    BY UsAreKnown, SentPacket
<1> HIDE DEF bytes
<1>2. from \in Addresses
    BY <1>1, RouteHasSource
<1>3. TaggedLength(Untagged) = 14
    BY DEF TaggedLength
<1>4. Sized(Us.mac, 6) /\ Sized(Us.neighbourMac, 6)
    BY UsAreKnown, MacsAreSized
<1> HIDE DEF from
<1>5. LET ip == Ipv4Of(bytes)
      IN  /\ IsPacket(bytes) /\ PayloadIn(bytes) = payload
          /\ ip.protocol = protocol /\ ip.source = from /\ ip.destination = destination
    BY <1>1, <1>2, <1>4, PacketIsRead
<1>6. LET header == ReadIpv4(QuoteOf(bytes))
      IN  /\ header # Rejected /\ header.words = 5
          /\ header.protocol = protocol /\ header.destination = destination
    BY <1>1, <1>2, <1>3, QuoteIsRead
<1>7. Holds(bytes, 14 + 20, payload, n)
    BY <1>1, <1>3 DEF Encloses
<1> QED
    BY <1>1, <1>5, <1>6, <1>7 DEF bytes, from

(* The end of a step that sends.                                           *)
LEMMA AttemptsAreUnderstood ==
    ASSUME NEW attempt, NEW to, NEW destination, NEW meant, NEW size,
           PutOnWire(attempt, to, destination, meant, size),
           attempt.result = "sent" => Understood(Frame(to, attempt.bytes, destination, meant))
    PROVE  WireIsUnderstood'
<1>1. wire' = IF attempt.result = "sent"
              THEN Frame(to, attempt.bytes, destination, meant) ELSE NoFrame
    BY DEF PutOnWire
<1>2. CASE attempt.result = "sent"
    BY <1>1, <1>2, NewIsUnderstood
<1>3. CASE attempt.result # "sent"
    BY <1>1, <1>3, NoneIsUnderstood
<1> QED
    BY <1>2, <1>3

LEMMA SentDatagramsAreUnderstood ==
    ASSUME RoutesInv, NEW b, NEW destination \in Destinations, NEW data \in Payloads,
           SendDatagram(b, destination, data)
    PROVE  WireIsUnderstood'
<1> DEFINE attempt == SendUdp(Us, b.original, destination, data)
           from == SourceFor(Us, b.original, destination)
           n == Len(data)
           payload == Datagram(from, destination, data)
           meant == [kind |-> "datagram", socket |-> 1, data |-> data, source |-> <<from, Port>>]
           frame == Frame("peer", attempt.bytes, destination, meant)
<1>1. PutOnWire(attempt, "peer", destination, meant, n + 8)
    BY DEF SendDatagram
<1>2. Sized(data, n) /\ n \in Nat /\ destination \in Addresses
    BY PathAssumption, HostsAssumption, SizedSequence, LenProperties
    DEF PathAssumption, HostsAssumption
<1>3. Sized(payload, 8 + n)
    BY <1>2, DatagramIsSized
<1>4. ASSUME attempt.result = "sent"
      PROVE  Understood(frame)
    <2>1. from # NoAddress /\ attempt = SendIpv4(Us, from, destination, "UDP", payload)
        <3>1. attempt = IF from = NoAddress THEN Failed("NoRouteToHost")
                        ELSE SendIpv4(Us, from, destination, "UDP", payload)
            BY DEF SendUdp
        <3>2. Failed("NoRouteToHost").result # "sent"
            BY DEF Failed
        <3> HIDE DEF attempt, from, payload
        <3> QED
            BY <1>4, <3>1, <3>2
    <2>2. from \in Addresses
        <3>1. IsV4Address(b.original)
            BY DEF SendDatagram
        <3>2. V4 \subseteq Addresses /\ Unspecified4 = Unspecified
            BY PathAssumption DEF PathAssumption
        <3>3. from = IF b.original = Unspecified THEN Lookup(routes, destination).source
                     ELSE b.original
            BY UsAreKnown DEF SourceFor
        <3>4. NoRoute.source = NoAddress
            BY DEF NoRoute, Route
        <3> HIDE DEF from
        <3> QED
            BY <2>1, <3>1, <3>2, <3>3, <3>4, RouteHasSource DEF IsV4Address
    <2>3. (IF from = Unspecified THEN Lookup(routes, destination).source ELSE from) = from
        <3>1. V4 \subseteq Addresses \ {Unspecified} /\ Unspecified4 = Unspecified
            BY PathAssumption DEF PathAssumption
        <3>2. IsV4Address(b.original)
            BY DEF SendDatagram
        <3>3. from = IF b.original = Unspecified THEN Lookup(routes, destination).source
                     ELSE b.original
            BY UsAreKnown DEF SourceFor
        <3> HIDE DEF from
        <3> QED
            BY <3>1, <3>2, <3>3 DEF IsV4Address
    <2> HIDE DEF payload, from, attempt, n
    <2>4. LET bytes == attempt.bytes
              ip == Ipv4Of(bytes)
              header == ReadIpv4(QuoteOf(bytes))
          IN  /\ 20 + (8 + n) \in Words
              /\ IsPacket(bytes) /\ PayloadIn(bytes) = payload
              /\ ip.protocol = "UDP" /\ ip.destination = destination /\ ip.source = from
              /\ header # Rejected /\ header.words = 5
              /\ header.protocol = "UDP" /\ header.destination = destination
        BY <1>2, <1>3, <1>4, <2>1, <2>2, <2>3, PacketOfOurs
    <2>5. 8 + n \in Words
        BY <1>2, <2>4, WordBounds
    <2>6. Ipv4IsUnderstood(frame)
        BY <1>2, <2>2, <2>4, <2>5, DatagramsAreUnderstood DEF payload
    <2>7. frame.bytes = attempt.bytes /\ frame.destination = destination
          /\ frame.meant.kind = "datagram"
        BY DEF Frame
    <2> HIDE DEF frame
    <2>8. QuoteIsUnderstood(frame)
        BY <2>4, <2>7 DEF QuoteIsUnderstood
    <2> QED
        BY <2>6, <2>7, <2>8 DEF Understood
<1> HIDE DEF attempt
<1> QED
    BY <1>1, <1>4, AttemptsAreUnderstood

LEMMA SentPingsAreUnderstood ==
    ASSUME RoutesInv, NEW target \in Destinations, NEW time, Ping(target, time)
    PROVE  WireIsUnderstood'
<1> DEFINE data == WriteUnixData(time)
           message == Echo("EchoRequest", Identifier, Sequence, data)
           payload == WriteEcho(message)
           attempt == SendIpv4(Us, Unspecified, target, "ICMP", payload)
           from == SourceFor(Us, Unspecified, target)
           meant == [kind |-> "request", source |-> from, destination |-> target,
                     message |-> message]
           frame == Frame("peer", attempt.bytes, target, meant)
<1>1. \E size : PutOnWire(attempt, "peer", target, meant, size)
    BY DEF Ping
<1>2. PICK n : Sized(data, n)
    BY UnixDataIsSized
<1>3. n \in Nat /\ target \in Addresses /\ Unspecified \in Addresses
    <2>1. target \in Addresses
        BY HostsAssumption DEF HostsAssumption
    <2>2. AddressBits \in Nat /\ AddressBits \in 0 .. AddressBits
        BY BitsAssumption DEF BitsAssumption
    <2>3. 2^AddressBits \in Nat \ {0}
        BY <2>2, PowersAssumption DEF PowersAssumption
    <2>4. Unspecified \in Addresses
        BY <2>3 DEF Addresses, Unspecified
    <2> QED
        BY <1>2, <2>1, <2>4 DEF Sized
<1>4. from = Lookup(routes, target).source
    BY UsAreKnown DEF SourceFor
<1>5. /\ Sized(payload, 8 + n) /\ Holds(payload, 0, <<IcmpTypes["EchoRequest"], 0>>, 2)
      /\ Holds(payload, 4, Be16(Identifier), 2) /\ Holds(payload, 6, Be16(Sequence), 2)
    <2>1. Identifier \in Words /\ Sequence \in Words
        BY WidthAssumption DEF WidthAssumption
    <2> HIDE DEF data
    <2> QED
        BY <1>2, <2>1, EchoIsRead
<1>6. ASSUME attempt.result = "sent"
      PROVE  Understood(frame)
    <2> HIDE DEF payload, message, data, from
    <2>1. LET bytes == attempt.bytes
              ip == Ipv4Of(bytes)
              header == ReadIpv4(QuoteOf(bytes))
          IN  /\ IsPacket(bytes) /\ PayloadIn(bytes) = payload
              /\ ip.protocol = "ICMP" /\ ip.destination = target /\ ip.source = from
              /\ header # Rejected /\ header.words = 5
              /\ header.protocol = "ICMP" /\ header.destination = target
              /\ Holds(bytes, 14 + 20, payload, 8 + n)
        BY <1>3, <1>4, <1>5, <1>6, PacketOfOurs
    <2> HIDE DEF attempt
    <2>2. ControlIsUnderstood(Ipv4Of(attempt.bytes), PayloadIn(attempt.bytes), meant)
        <3>1. payload = WriteEcho(Echo("EchoRequest", Identifier, Sequence, data))
              /\ message = Echo("EchoRequest", Identifier, Sequence, data)
            BY DEF payload, message
        <3> QED
            BY <1>2, <2>1, <3>1, RequestIsHeard
    <2>3. Ipv4IsUnderstood(frame)
        <3>1. meant.kind = "request"
            OBVIOUS
        <3> HIDE DEF meant
        <3> QED
            BY <2>1, <2>2, <3>1, ControlsAreUnderstood
    <2>4. frame.bytes = attempt.bytes /\ frame.destination = target
          /\ frame.meant.kind = "request"
        BY DEF Frame
    <2> HIDE DEF frame
    <2> DEFINE eight == Slice(QuoteOf(attempt.bytes), 20, 28)
    <2>5. /\ Holds(eight, 0, <<IcmpTypes["EchoRequest"], 0>>, 2)
          /\ Holds(eight, 4, Be16(Identifier), 2) /\ Holds(eight, 6, Be16(Sequence), 2)
        <3>1. 0 + 2 <= 8 /\ 4 + 2 <= 8 /\ 6 + 2 <= 8
            OBVIOUS
        <3> QED
            BY <1>5, <2>1, <3>1, EightAreQuoted
    <2> HIDE DEF eight
    <2>6. IcmpTypes["EchoRequest"] = 8
        BY DEF IcmpTypes
    <2>7. Byte(eight, 0) = 8 /\ Byte(eight, 1) = 0
        <3>1. 0 + 1 = 1
            OBVIOUS
        <3> QED
            BY <2>5, <2>6, <3>1, WordOfPair
    <2>8. At16(eight, 4) = Identifier /\ At16(eight, 6) = Sequence
        BY <2>5, WordIsRead, WidthAssumption DEF WidthAssumption
    <2>9. QuoteIsUnderstood(frame)
        BY <2>1, <2>4, <2>7, <2>8 DEF QuoteIsUnderstood, eight
    <2> QED
        BY <2>3, <2>4, <2>9 DEF Understood
<1> HIDE DEF attempt
<1> QED
    BY <1>1, <1>6, AttemptsAreUnderstood

-----------------------------------------------------------------------------
(* The packets of the peer *)

LEMMA PeerDatagramsAreUnderstood ==
    ASSUME NEW destination \in V4, NEW data \in PeerPayloads, NEW tag \in Tags,
           NEW padding, NEW k, Sized(padding, k),
           PeerSendsDatagram(destination, data, tag, padding)
    PROVE  WireIsUnderstood'
<1> DEFINE n == Len(data)
           payload == Datagram(PeerAddress, destination, data)
           bytes == PeerFrame(destination, "UDP", payload, tag, padding)
           meant == [kind |-> "datagram", socket |-> 0, data |-> data,
                     source |-> <<PeerAddress, Port>>]
           frame == Frame("us", bytes, destination, meant)
<1>1. wire' = frame
    BY DEF PeerSendsDatagram, PeerSends
<1>2. /\ Sized(data, n) /\ n \in Nat /\ n + 28 \in Words
      /\ destination \in Addresses /\ PeerAddress \in Addresses
      /\ tag \in {Untagged} \cup [1 .. 1 -> Words]
    BY PathAssumption, WidthAssumption, SizedSequence, LenProperties
    DEF PathAssumption, WidthAssumption, Untagged
<1>3. Sized(payload, 8 + n)
    BY <1>2, DatagramIsSized
<1>4. 8 + n \in Words /\ 20 + (8 + n) \in Words
    BY <1>2, WordBounds
<1> HIDE DEF payload, n
<1>5. LET ip == Ipv4Of(bytes)
      IN  /\ IsPacket(bytes) /\ PayloadIn(bytes) = payload
          /\ ip.protocol = "UDP" /\ ip.source = PeerAddress /\ ip.destination = destination
    BY <1>2, <1>3, <1>4, PeerPacketIsRead
<1> HIDE DEF bytes
<1>6. Ipv4IsUnderstood(frame)
    BY <1>2, <1>4, <1>5, DatagramsAreUnderstood DEF payload
<1>7. frame.to = "us" /\ frame.meant.kind = "datagram"
    BY DEF Frame
<1> HIDE DEF frame
<1>8. Understood(frame)
    BY <1>6, <1>7 DEF Understood
<1> QED
    BY <1>1, <1>8, NewIsUnderstood DEF frame

(* A control message of the peer's, of any kind.                           *)
LEMMA PeerControlsAreUnderstood ==
    ASSUME NEW destination \in Addresses, NEW payload, NEW n, Sized(payload, n), 20 + n \in Words,
           NEW padding, NEW k, Sized(padding, k), NEW meant,
           meant.kind \notin {"asked", "told", "datagram"},
           wire' = Frame("us", PeerFrame(destination, "ICMP", payload, Untagged, padding),
                         destination, meant),
           \A ip : ip.protocol = "ICMP" /\ ip.source = PeerAddress /\ ip.destination = destination
                       => ControlIsUnderstood(ip, payload, meant)
    PROVE  WireIsUnderstood'
<1> DEFINE bytes == PeerFrame(destination, "ICMP", payload, Untagged, padding)
           frame == Frame("us", bytes, destination, meant)
<1>1. LET ip == Ipv4Of(bytes)
      IN  /\ IsPacket(bytes) /\ PayloadIn(bytes) = payload
          /\ ip.protocol = "ICMP" /\ ip.source = PeerAddress /\ ip.destination = destination
    BY PeerPacketIsRead
<1>2. wire' = frame
    OBVIOUS
<1> HIDE DEF bytes
<1>3. ControlIsUnderstood(Ipv4Of(bytes), PayloadIn(bytes), meant)
    BY <1>1
<1>4. Ipv4IsUnderstood(frame)
    BY <1>1, <1>3, ControlsAreUnderstood
<1>5. frame.to = "us" /\ frame.meant = meant
    BY DEF Frame
<1> HIDE DEF frame
<1>6. Understood(frame)
    BY <1>4, <1>5 DEF Understood
<1> QED
    BY <1>2, <1>6, NewIsUnderstood DEF frame

LEMMA PeerPingsAreUnderstood ==
    ASSUME NEW destination \in PeerDestinations, NEW data \in PeerPayloads,
           NEW padding, NEW k, Sized(padding, k), PeerPings(destination, data, padding)
    PROVE  WireIsUnderstood'
<1> DEFINE n == Len(data)
           message == Echo("EchoRequest", Identifier, Sequence, data)
           payload == WriteEcho(message)
           meant == [kind |-> "request", source |-> PeerAddress, destination |-> destination,
                     message |-> message]
<1>1. wire' = Frame("us", PeerFrame(destination, "ICMP", payload, Untagged, padding),
                    destination, meant)
    BY DEF PeerPings, PeerSends, Untagged
<1>2. Sized(data, n) /\ n \in Nat /\ n + 28 \in Words /\ destination \in Addresses
    BY PathAssumption, WidthAssumption, HostsAssumption, SizedSequence, LenProperties
    DEF PathAssumption, WidthAssumption, HostsAssumption
<1>3. Sized(payload, 8 + n)
    BY <1>2, EchoIsSized
<1>4. 20 + (8 + n) \in Words
    BY <1>2, WordBounds
<1>5. ASSUME NEW ip, ip.protocol = "ICMP", ip.source = PeerAddress, ip.destination = destination
      PROVE  ControlIsUnderstood(ip, payload, meant)
    <2> HIDE DEF n
    <2>1. ControlIsUnderstood(ip, payload,
              [kind |-> "request", source |-> ip.source, destination |-> ip.destination,
               message |-> message])
        BY <1>2, <1>5, RequestIsHeard
    <2> QED
        BY <1>5, <2>1
<1>6. meant.kind = "request"
    OBVIOUS
<1> HIDE DEF payload, meant, n
<1> QED
    BY <1>1, <1>2, <1>3, <1>4, <1>5, <1>6, PeerControlsAreUnderstood

LEMMA RefusalsAreUnderstood ==
    ASSUME RoutesInv, WireIsUnderstood, NEW code \in Codes, PeerRefuses(code)
    PROVE  WireIsUnderstood'
<1> DEFINE zeros == <<0, 0, 0, 0>>
           message == WriteIcmp(<<IcmpTypes["DestinationUnreachable"], code>>, zeros \o Quoted)
           meant == Refusal(code)
<1>1. PICK ours \in ToSet(addresses) :
          wire' = Frame("us", PeerFrame(ours.address, "ICMP", message, Untagged, Untagged),
                        ours.address, meant)
    BY DEF PeerRefuses, Untagged
<1>2. /\ wire.meant.kind \in {"datagram", "request"} /\ QuoteIsUnderstood(wire)
    <2>1. wire.to = "peer" /\ wire.meant.kind \in {"datagram", "request"}
        BY DEF PeerRefuses
    <2> QED
        BY <2>1 DEF WireIsUnderstood, Understood
<1>3. ours.address \in Addresses
    <2>1. addresses \in Seq(Entry)
        BY DEF RoutesInv
    <2>2. ours \in Entry
        BY <2>1, PlacesOfSet
    <2> QED
        BY <2>2 DEF Entry
<1>4. Sized(message, 36) /\ Sized(Untagged, 0)
    <2>1. Sized(zeros, 4) /\ Sized(Untagged, 0)
        BY SizedTuples DEF Untagged
    <2> HIDE DEF zeros
    <2>2. Sized(zeros \o Quoted, 4 + 28)
        BY <2>1, QuotedIsSized, SizedConcat
    <2>3. Sized(<<IcmpTypes["DestinationUnreachable"], code>>, 2)
        BY SizedTuples
    <2>4. Sized(message, 4 + (4 + 28))
        BY <2>2, <2>3, IcmpIsSized
    <2>5. 4 + (4 + 28) = 36
        OBVIOUS
    <2> QED
        BY <2>1, <2>4, <2>5
<1>5. 20 + 36 \in Words
    BY WordBounds
<1>6. \A ip : ip.protocol = "ICMP" => ControlIsUnderstood(ip, message, meant)
    BY <1>2, RefusalIsHeard
<1>7. meant.kind \notin {"asked", "told", "datagram"}
    BY DEF Refusal
<1> HIDE DEF message, meant
<1> QED
    BY <1>1, <1>3, <1>4, <1>5, <1>6, <1>7, PeerControlsAreUnderstood

LEMMA ComplaintsAreUnderstood ==
    ASSUME NEW message \in Complaints, NEW destination \in PeerDestinations,
           PeerComplains(message, destination)
    PROVE  WireIsUnderstood'
<1> DEFINE payload == WriteComplaint(message)
           n == Len(message.data)
           meant == [kind |-> "control", message |-> message]
<1>1. wire' = Frame("us", PeerFrame(destination, "ICMP", payload, Untagged, Untagged),
                    destination, meant)
    BY DEF PeerComplains, PeerSends, Untagged, WriteComplaint, CodeOf, FieldOf
<1>2. message \in ControlMessage /\ destination \in Addresses /\ n + 28 \in Words
    BY PathAssumption, WidthAssumption, HostsAssumption
    DEF PathAssumption, WidthAssumption, HostsAssumption
<1>3. Sized(payload, 8 + n)
    BY <1>2, ComplaintIsRead
<1>4. Sized(Untagged, 0)
    BY SizedTuples DEF Untagged
<1>5. n \in Nat
    BY Complained, LenProperties
<1>6. 20 + (8 + n) \in Words
    BY <1>2, <1>5, WordBounds
<1>7. \A ip : ip.protocol = "ICMP" => ControlIsUnderstood(ip, payload, meant)
    BY ComplaintIsHeard
<1>8. meant.kind = "control"
    OBVIOUS
<1> HIDE DEF payload, n, meant
<1> QED
    BY <1>1, <1>2, <1>3, <1>4, <1>6, <1>7, <1>8, PeerControlsAreUnderstood

-----------------------------------------------------------------------------
(* Whose packets a host takes *)

LEMMA Divided ==
    ASSUME NEW x \in Nat, NEW h \in Nat \ {0}
    PROVE  /\ x \div h \in Nat /\ x % h \in Nat /\ x % h <= h - 1
           /\ x = h * (x \div h) + (x % h)
OBVIOUS

LEMMA Multiplied ==
    ASSUME NEW h \in Nat \ {0}, NEW x \in Int, NEW y \in Int
    PROVE  /\ h * x \in Int
           /\ x <= y => h * x <= h * y
           /\ x >= 1 => h * x >= h
           /\ h * (x + 1) = h * x + h /\ h * (x - y) = h * x - h * y
OBVIOUS

LEMMA RemainderOf ==
    ASSUME NEW h \in Nat \ {0}, NEW q \in Nat, NEW r \in Nat, r <= h - 1
    PROVE  (h * q + r) % h = r
<1> DEFINE x == h * q + r
           p == x \div h
           s == x % h
<1>1. h * q \in Nat
    OBVIOUS
<1>2. x \in Nat
    BY <1>1
<1> HIDE DEF x
<1>3. p \in Nat /\ s \in Nat /\ s <= h - 1 /\ x = h * p + s
    BY <1>2, Divided
<1>4. x = h * q + r
    BY DEF x
<1> HIDE DEF p, s
<1>5. h * (p - q) = h * p - h * q /\ h * (q - p) = h * q - h * p
      /\ h * p \in Int /\ h * q \in Int
    BY <1>3, Multiplied
<1>6. CASE p = q
    BY <1>3, <1>4, <1>5, <1>6 DEF x, s
<1>7. CASE p - q >= 1
    <2>1. h * (p - q) >= h
        BY <1>3, <1>7, Multiplied
    <2> QED
        BY <1>3, <1>4, <1>5, <2>1
<1>8. CASE q - p >= 1
    <2>1. h * (q - p) >= h
        BY <1>3, <1>8, Multiplied
    <2> QED
        BY <1>3, <1>4, <1>5, <2>1
<1> QED
    BY <1>3, <1>6, <1>7, <1>8

(* The highest address of a network is of the network, and no address of   *)
(* the network is above it.                                                *)
LEMMA BroadcastIsHighest ==
    ASSUME NEW a \in Addresses, NEW prefix \in 0 .. AddressBits
    PROVE  LET network == {x \in Addresses : Network(x, prefix) = Network(a, prefix)}
           IN  /\ BroadcastOf(a, prefix) \in network
               /\ \A x \in network : x <= BroadcastOf(a, prefix)
               /\ a \in network
<1> DEFINE h == HostSize(prefix)
           total == 2^AddressBits
           q == a \div h
           r == a % h
           top == BroadcastOf(a, prefix)
<1>1. /\ AddressBits \in Nat /\ AddressBits - prefix \in 0 .. AddressBits
      /\ AddressBits \in 0 .. AddressBits
    BY BitsAssumption DEF BitsAssumption
<1>2. h \in Nat \ {0} /\ total % h = 0 /\ total \in Nat \ {0}
    BY <1>1, PowersAssumption DEF PowersAssumption, HostSize
<1> HIDE DEF h, total
<1>3. \A x : x \in Addresses <=> x \in Nat /\ x + 1 <= total
    BY <1>2 DEF Addresses, total
<1>4. q \in Nat /\ r \in Nat /\ r <= h - 1 /\ a = h * q + r
    BY <1>2, <1>3, Divided
<1>5. PICK t \in Nat : total = h * t
    <2>1. total \div h \in Nat /\ total = h * (total \div h) + (total % h)
        BY <1>2, Divided
    <2>2. h * (total \div h) \in Int
        BY <1>2, <2>1, Multiplied
    <2> QED
        BY <1>2, <2>1, <2>2
<1> HIDE DEF q, r
<1>6. h * q \in Nat /\ h * t \in Nat
    BY <1>2, <1>4
<1>7. Network(a, prefix) = h * q
    <2>1. Network(a, prefix) = a - r
        BY DEF Network, h, r
    <2> QED
        BY <1>4, <1>6, <2>1
<1>8. top = h * q + (h - 1)
    BY <1>2, <1>6, <1>7 DEF BroadcastOf, h, top
<1>9. h * q + h <= total
    <2>1. h * q + 1 <= h * t
        BY <1>3, <1>4, <1>5, <1>6
    <2>2. ~(t <= q)
        BY <1>2, <1>4, <1>6, <2>1, Multiplied
    <2>3. h * (q + 1) <= h * t /\ h * (q + 1) = h * q + h
        BY <1>2, <1>4, <2>2, Multiplied
    <2> QED
        BY <1>5, <1>6, <2>3
<1> HIDE DEF top
<1>10. top \in Addresses /\ Network(top, prefix) = h * q
    <2>1. top \in Nat /\ top + 1 <= total
        BY <1>2, <1>6, <1>8, <1>9
    <2>2. top % h = h - 1
        BY <1>2, <1>4, <1>8, RemainderOf
    <2>3. Network(top, prefix) = top - (h - 1)
        BY <2>2 DEF Network, h
    <2> QED
        BY <1>2, <1>3, <1>6, <1>8, <2>1, <2>3
<1>11. ASSUME NEW x \in Addresses, Network(x, prefix) = h * q
       PROVE  x <= top
    <2>1. x \in Nat /\ x % h \in Nat /\ x % h <= h - 1
        BY <1>2, <1>3, Divided
    <2>2. x - (x % h) = h * q
        BY <1>11 DEF Network, h
    <2> QED
        BY <1>2, <1>6, <1>8, <2>1, <2>2
<1> QED
    BY <1>7, <1>10, <1>11 DEF top

(* What HostsAssumption says of the entries of a host's table.             *)
Proper(ours) ==
    \A e \in ToSet(ours) :
        /\ e.address \in Addresses /\ e.prefix \in 0 .. AddressBits
        /\ e.address # Unspecified /\ ~IsMulticast(e.address)
        /\ ~IsMulticast(BroadcastOf(e.address, e.prefix))

(* IPv4Handler::is_addr_acceptable takes what it has to, and nothing else. *)
LEMMA AcceptedIsFor ==
    ASSUME NEW ours, Proper(ours), NEW d
    PROVE  IsAddrAcceptable(ours, d) <=> IsFor(ours, d)
<1>1. ASSUME NEW e \in ToSet(ours)
      PROVE  LET network == {a \in Addresses : Network(a, e.prefix) = Network(e.address, e.prefix)}
             IN  /\ (d \in network /\ \A a \in network : a <= d)
                       <=> d = BroadcastOf(e.address, e.prefix)
                 /\ ~IsMulticast(e.address) /\ ~IsMulticast(BroadcastOf(e.address, e.prefix))
    <2> DEFINE network == {a \in Addresses : Network(a, e.prefix) = Network(e.address, e.prefix)}
               top == BroadcastOf(e.address, e.prefix)
    <2>1. e.address \in Addresses /\ e.prefix \in 0 .. AddressBits
          /\ ~IsMulticast(e.address) /\ ~IsMulticast(top)
        BY DEF Proper
    <2>2. top \in network /\ \A a \in network : a <= top
        BY <2>1, BroadcastIsHighest
    <2>3. \A a \in network : a \in Int
        BY DEF Addresses
    <2> HIDE DEF network, top
    <2>4. (d \in network /\ \A a \in network : a <= d) <=> d = top
        BY <2>2, <2>3
    <2> QED
        BY <2>1, <2>4 DEF network, top
<1>2. IsAddrAcceptable(ours, d) <=>
          \/ d = LimitedBroadcast
          \/ \E e \in ToSet(ours) : d = e.address \/ d = BroadcastOf(e.address, e.prefix)
    BY <1>1 DEF IsAddrAcceptable, ContainsAsAddressOrBroadcast
<1>3. IsFor(ours, d) <=>
          \/ d = LimitedBroadcast
          \/ \E e \in ToSet(ours) : d = e.address \/ d = BroadcastOf(e.address, e.prefix)
    BY <1>1 DEF IsFor
<1> QED
    BY <1>2, <1>3

(* Nobody takes a packet to the unspecified address.                       *)
LEMMA UnspecifiedIsNobodys ==
    ASSUME NEW ours, Proper(ours)
    PROVE  ~IsAddrAcceptable(ours, Unspecified)
<1>1. ASSUME NEW e \in ToSet(ours)
      PROVE  /\ e.address # Unspecified /\ BroadcastOf(e.address, e.prefix) # Unspecified
    <2>1. e.address \in Addresses /\ e.prefix \in 0 .. AddressBits /\ e.address # Unspecified
        BY DEF Proper
    <2>2. e.address <= BroadcastOf(e.address, e.prefix)
          /\ BroadcastOf(e.address, e.prefix) \in Addresses
        BY <2>1, BroadcastIsHighest
    <2> QED
        BY <2>1, <2>2 DEF Addresses, Unspecified
<1>2. LimitedBroadcast # Unspecified
    <2> DEFINE e == [address |-> PeerAddress, prefix |-> PeerPrefix]
    <2>1. PeerAddress \in Addresses /\ PeerAddress # Unspecified
        <3>1. PeerAddress \in Addresses
            BY PathAssumption DEF PathAssumption
        <3>2. e.address # Unspecified
            BY HostsAssumption DEF HostsAssumption
        <3> QED
            BY <3>1, <3>2
    <2>2. 2^AddressBits \in Nat
        <3>1. AddressBits \in Nat /\ AddressBits \in 0 .. AddressBits
            BY BitsAssumption DEF BitsAssumption
        <3> QED
            BY <3>1, PowersAssumption DEF PowersAssumption
    <2> QED
        BY <2>1, <2>2 DEF Addresses, Unspecified, LimitedBroadcast
<1> QED
    BY <1>1, <1>2 DEF IsAddrAcceptable, ContainsAsAddressOrBroadcast

-----------------------------------------------------------------------------
(* What the hosts are *)

(* Only addresses that may be granted come into the table.                 *)
AddressesAreGranted == addresses \in Seq(Grants)

LEMMA GrantedAreProper ==
    ASSUME AddressesAreGranted
    PROVE  Proper(addresses)
<1> SUFFICES ASSUME NEW e \in ToSet(addresses)
             PROVE  /\ e.address \in Addresses /\ e.prefix \in 0 .. AddressBits
                    /\ e.address # Unspecified /\ ~IsMulticast(e.address)
                    /\ ~IsMulticast(BroadcastOf(e.address, e.prefix))
    BY DEF Proper
<1>1. e \in Grants
    BY PlacesOfSet DEF AddressesAreGranted
<1>2. e.address \in Addresses /\ e.prefix \in 0 .. AddressBits
    BY <1>1, PathAssumption DEF PathAssumption
<1> QED
    BY <1>1, <1>2, HostsAssumption DEF HostsAssumption

LEMMA PeerHasOneAddress ==
    /\ PeerAddresses \in Seq({[address |-> PeerAddress, prefix |-> PeerPrefix]})
    /\ ToSet(PeerAddresses) = {[address |-> PeerAddress, prefix |-> PeerPrefix]}
<1> DEFINE e == [address |-> PeerAddress, prefix |-> PeerPrefix]
<1>1. PeerAddresses = Append(<<>>, e)
    BY DEF PeerAddresses, WithAddress
<1>2. <<>> \in Seq({e}) /\ Len(<<>>) = 0 /\ 1 .. 0 = {}
    OBVIOUS
<1>3. ToSet(<<>>) = {}
    BY <1>2, PlacesOfSet
<1> HIDE DEF e
<1>4. /\ Append(<<>>, e) \in Seq({e})
      /\ \A x : x \in ToSet(Append(<<>>, e)) <=> x \in ToSet(<<>>) \/ x = e
    BY <1>2, Appending
<1> QED
    BY <1>1, <1>3, <1>4 DEF e

LEMMA PeerIsProper == Proper(PeerAddresses)
<1> SUFFICES ASSUME NEW e, e = [address |-> PeerAddress, prefix |-> PeerPrefix]
             PROVE  /\ e.address \in Addresses /\ e.prefix \in 0 .. AddressBits
                    /\ e.address # Unspecified /\ ~IsMulticast(e.address)
                    /\ ~IsMulticast(BroadcastOf(e.address, e.prefix))
    BY PeerHasOneAddress DEF Proper
<1>1. e.address \in Addresses /\ e.prefix \in 0 .. AddressBits
    BY PathAssumption DEF PathAssumption
<1>2. \A x \in Grants \cup {e} : /\ x.address # Unspecified /\ ~IsMulticast(x.address)
                                 /\ ~IsMulticast(BroadcastOf(x.address, x.prefix))
    BY HostsAssumption DEF HostsAssumption
<1> QED
    BY <1>1, <1>2

(* The peer has no address but its own.                                    *)
LEMMA PeerIsAlone ==
    ASSUME NEW a, ContainsAddress(PeerAddresses, a)
    PROVE  a = PeerAddress
BY PeerHasOneAddress DEF ContainsAddress

-----------------------------------------------------------------------------
(* What is heard of a frame *)

LEMMA ArpIsHeard ==
    ASSUME NEW mac, NEW ours, NEW sockets, NEW bytes, Carries(bytes, "ARP")
    PROVE  Hear(mac, ours, sockets, bytes) = HearArp(mac, ours, Inside(bytes))
BY DEF Carries, Inside, Hear

LEMMA PacketIsHeard ==
    ASSUME NEW mac, NEW ours, NEW sockets, NEW bytes, IsPacket(bytes),
           Ipv4Of(bytes).protocol \in {"ICMP", "UDP"}
    PROVE  LET ip == Ipv4Of(bytes)
               payload == PayloadIn(bytes)
           IN  Hear(mac, ours, sockets, bytes)
                   = IF ~IsAddrAcceptable(ours, ip.destination) THEN Ignored
                     ELSE IF ip.protocol = "ICMP" THEN HearIcmp(ip, payload)
                     ELSE HearUdp(sockets, ip, payload)
<1> DEFINE ip == Ipv4Of(bytes)
           payload == PayloadIn(bytes)
           inside == Inside(bytes)
<1>1. Hear(mac, ours, sockets, bytes) = HearIpv4(ours, sockets, inside)
    BY DEF IsPacket, Carries, Inside, Hear
<1>2. ip = ReadIpv4(inside) /\ payload = PayloadOf(ip, inside)
    BY DEF Ipv4Of, PayloadIn
<1>3. ip # Rejected /\ ~IsFragmented(ip) /\ ip.protocol \in {"ICMP", "UDP"}
    BY DEF IsPacket
<1> HIDE DEF ip, payload, inside
<1>4. HearIpv4(ours, sockets, inside)
          = IF ~IsAddrAcceptable(ours, ip.destination) THEN Ignored
            ELSE CASE ip.protocol = "ICMP" -> HearIcmp(ip, payload)
                   [] ip.protocol = "UDP" -> HearUdp(sockets, ip, payload)
                   [] ip.protocol \in {"TCP", "Other"} -> Ignored
    BY <1>2, <1>3 DEF HearIpv4
<1>5. HearIpv4(ours, sockets, inside)
          = IF ~IsAddrAcceptable(ours, ip.destination) THEN Ignored
            ELSE IF ip.protocol = "ICMP" THEN HearIcmp(ip, payload)
            ELSE HearUdp(sockets, ip, payload)
    BY <1>3, <1>4
<1> QED
    BY <1>1, <1>5 DEF ip, payload

(* The socket that HearUdp finds is one that matches, if any does.  It     *)
(* asks get_mut for the address, and then for the unspecified one.         *)
Listeners(sockets, d) == {b.socket : b \in {c \in ToSet(sockets) : Matches(c, d)}}
Found(sockets, d) ==
    IF GetMut(sockets, d) # NoSocket THEN GetMut(sockets, d) ELSE GetMut(sockets, Unspecified4)

FindsListener(sockets, d) ==
    IF Listeners(sockets, d) # {}
    THEN Found(sockets, d) \in Listeners(sockets, d) /\ Found(sockets, d) # NoSocket
    ELSE Found(sockets, d) = NoSocket

LEMMA ListenerIsFound ==
    ASSUME NEW S, NEW sockets \in Seq(S), NEW d,
           \A b \in ToSet(sockets) : b.socket # NoSocket,
           \A b \in ToSet(sockets) : Matches(b, Unspecified4) => Matches(b, d)
    PROVE  FindsListener(sockets, d)
<1>1. \A k \in 1 .. Len(sockets) : sockets[k] \in ToSet(sockets)
    BY PlacesOfSet
<1>2. \A ip : \/ /\ GetMut(sockets, ip) = NoSocket
                 /\ \A b \in ToSet(sockets) : ~Matches(b, ip)
              \/ \E b \in ToSet(sockets) : Matches(b, ip) /\ GetMut(sockets, ip) = b.socket
    <2> SUFFICES ASSUME NEW ip
                 PROVE  \/ /\ GetMut(sockets, ip) = NoSocket
                           /\ \A b \in ToSet(sockets) : ~Matches(b, ip)
                        \/ \E b \in ToSet(sockets) :
                              Matches(b, ip) /\ GetMut(sockets, ip) = b.socket
        OBVIOUS
    <2>1. CASE GetMut(sockets, ip) = NoSocket /\ \A k \in 1 .. Len(sockets) : ~Matches(sockets[k], ip)
        BY <2>1, PlacesOfSet
    <2>2. CASE \E k : IsListener(sockets, ip, k) /\ GetMut(sockets, ip) = sockets[k].socket
        BY <1>1, <2>2 DEF IsListener
    <2> QED
        BY <2>1, <2>2, ListenerFound
<1>3. CASE GetMut(sockets, d) = NoSocket /\ \A b \in ToSet(sockets) : ~Matches(b, d)
    <2>1. GetMut(sockets, Unspecified4) = NoSocket
        BY <1>2, <1>3
    <2> QED
        BY <1>3, <2>1 DEF FindsListener, Found, Listeners
<1>4. CASE \E b \in ToSet(sockets) : Matches(b, d) /\ GetMut(sockets, d) = b.socket
    BY <1>4 DEF FindsListener, Found, Listeners
<1> QED
    BY <1>2, <1>3, <1>4

(* Sockets of ours: get_mut of 0.0.0.0 finds only what any address finds.  *)
LEMMA OurSocketsAreFound ==
    ASSUME BindingsInv, NEW d \in V4
    PROVE  FindsListener(bindings, d)
<1>1. ASSUME NEW b \in ToSet(bindings)
      PROVE  b.socket # NoSocket /\ (Matches(b, Unspecified4) => Matches(b, d))
    <2>1. b \in SocketBinding
        BY PlacesOfSet DEF BindingsInv
    <2>2. PICK k \in 1 .. Len(bindings) : b = bindings[k]
        BY PlacesOfSet DEF BindingsInv
    <2>3. b.socket \in 1 .. made /\ made \in Nat
        BY <2>2 DEF BindingsInv, SocketsAreApart
    <2>4. b.socket # NoSocket
        BY <2>3 DEF NoSocket
    <2>5. ASSUME Matches(b, Unspecified4)
          PROVE  Matches(b, d)
        <3>1. \/ b.target = "any" \/ b.target = "any_ipv4" \/ b.target = "any_ipv6"
              \/ b.target = "specific" /\ b.original \in V4 \cup V6
            BY <2>1, KindsOfBindings
        <3>2. Unspecified4 \notin V4 \cup V6 /\ IsV4Address(Unspecified4) /\ IsV4Address(d)
            BY AddressAssumption DEF AddressAssumption, IsV4Address
        <3> QED
            BY <2>5, <3>1, <3>2 DEF Matches
    <2> QED
        BY <2>4, <2>5
<1>2. bindings \in Seq(SocketBinding)
    BY DEF BindingsInv
<1> QED
    BY <1>1, <1>2, ListenerIsFound

LEMMA PeerSocketIsFound ==
    ASSUME NEW d
    PROVE  FindsListener(PeerBindings, d)
<1> DEFINE b == Binding(Unspecified4, TRUE, FALSE, 1)
<1>1. PeerBindings = Append(<<>>, b)
    BY DEF PeerBindings, Insert
<1>2. b.target = "any" /\ b.socket = 1
    BY DEF Binding, TargetFor, IsUnspecified
<1> HIDE DEF b
<1>3. <<>> \in Seq({b}) /\ Len(<<>>) = 0 /\ 1 .. 0 = {}
    OBVIOUS
<1>4. ToSet(<<>>) = {}
    BY <1>3, PlacesOfSet
<1>5. /\ Append(<<>>, b) \in Seq({b})
      /\ \A x : x \in ToSet(Append(<<>>, b)) <=> x \in ToSet(<<>>) \/ x = b
    BY <1>3, Appending
<1>6. \A x \in ToSet(PeerBindings) : x = b
    BY <1>1, <1>4, <1>5
<1>7. b.socket # NoSocket /\ \A ip : Matches(b, ip)
    BY <1>2 DEF NoSocket, Matches
<1> QED
    BY <1>1, <1>5, <1>6, <1>7, ListenerIsFound

-----------------------------------------------------------------------------
(* A frame that is understood, at its receiver *)

(* HeardAsMeant and DatagramsFindTheirListener of one frame and one host.  *)
IsMeant(ours, destination, meant, heard) ==
    CASE meant.kind \in {"asked", "told"} ->
             /\ heard.address = meant.address /\ heard.mac = meant.mac
             /\ heard.kind = "asked"
                    <=> meant.kind = "asked" /\ ContainsAddress(ours, destination)
      [] meant.kind = "datagram" ->
             heard # Ignored => heard.data = meant.data /\ heard.source = meant.source
      [] meant.kind \notin {"asked", "told", "datagram"} ->
             heard = IF IsFor(ours, destination) THEN meant ELSE Ignored

IsFound(ours, sockets, destination, heard) ==
    IF IsFor(ours, destination) /\ Listeners(sockets, destination) # {}
    THEN heard # Ignored /\ heard.socket \in Listeners(sockets, destination)
    ELSE heard = Ignored

LEMMA MeantOfFrames ==
    ASSUME NEW frame, frame.meant.kind \in {"asked", "told"}, ArpIsUnderstood(frame),
           NEW mac, NEW ours, NEW sockets,
           frame.to = "peer" => \A a : ContainsAddress(ours, a) => a = PeerAddress
    PROVE  LET heard == Hear(mac, ours, sockets, frame.bytes)
               arp == ReadArp(Inside(frame.bytes))
           IN  /\ IsMeant(ours, frame.destination, frame.meant, heard)
               /\ heard.kind \in {"asked", "told"} /\ heard.address = arp.sender
               /\ heard.kind = "asked" => heard.reply = ArpReply(arp, mac, arp.target)
<1> DEFINE arp == ReadArp(Inside(frame.bytes))
           asked == ContainsAddress(ours, arp.target) /\ arp.operation = "Request"
           heard == Hear(mac, ours, sockets, frame.bytes)
           meant == frame.meant
           said == [kind |-> IF asked THEN "asked" ELSE "told",
                    address |-> arp.sender, mac |-> arp.senderMac,
                    reply |-> IF asked THEN ArpReply(arp, mac, arp.target) ELSE Rejected]
<1>1. /\ Carries(frame.bytes, "ARP") /\ arp # Rejected
      /\ arp.sender = meant.address /\ arp.senderMac = meant.mac
      /\ IF meant.kind = "asked"
         THEN arp.operation = "Request" /\ arp.target = frame.destination
         ELSE arp.operation = "Reply" \/ (frame.to = "peer" /\ arp.target # PeerAddress)
    BY DEF ArpIsUnderstood
<1>2. heard = said
    BY <1>1, ArpIsHeard DEF HearArp
<1>3. /\ said.kind = (IF asked THEN "asked" ELSE "told")
      /\ said.address = arp.sender /\ said.mac = arp.senderMac
      /\ asked => said.reply = ArpReply(arp, mac, arp.target)
    OBVIOUS
<1>4. asked <=> meant.kind = "asked" /\ ContainsAddress(ours, frame.destination)
    <2> HIDE DEF arp
    <2> QED
        BY <1>1
<1> HIDE DEF said, heard, asked, arp
<1>5. IsMeant(ours, frame.destination, meant, heard)
    BY <1>1, <1>2, <1>3, <1>4 DEF IsMeant
<1> QED
    BY <1>2, <1>3, <1>5 DEF heard, arp

LEMMA MeantOfDatagrams ==
    ASSUME NEW frame, frame.meant.kind = "datagram", Ipv4IsUnderstood(frame),
           NEW mac, NEW ours, Proper(ours), NEW sockets,
           FindsListener(sockets, frame.destination)
    PROVE  LET heard == Hear(mac, ours, sockets, frame.bytes)
           IN  /\ IsMeant(ours, frame.destination, frame.meant, heard)
               /\ IsFound(ours, sockets, frame.destination, heard)
               /\ heard.kind \in {"ignored", "datagram"}
<1> DEFINE ip == Ipv4Of(frame.bytes)
           payload == PayloadIn(frame.bytes)
           udp == ReadUdp(payload)
           data == Slice(payload, 8, udp.length)
           d == frame.destination
           meant == frame.meant
           heard == Hear(mac, ours, sockets, frame.bytes)
           listener == Found(sockets, d)
           said == [kind |-> "datagram", socket |-> listener,
                    source |-> <<ip.source, udp.sourcePort>>, data |-> data]
<1>1. /\ IsPacket(frame.bytes) /\ ip.destination = d /\ ip.protocol = "UDP"
      /\ udp # Rejected /\ udp.destinationPort = Port
      /\ UdpChecksum(udp, ip.source, ip.destination, data) = udp.checksum
      /\ meant.data = data /\ meant.source = <<ip.source, udp.sourcePort>>
    BY DEF Ipv4IsUnderstood, DatagramIsUnderstood
<1>2. heard = IF ~IsAddrAcceptable(ours, d) THEN Ignored ELSE HearUdp(sockets, ip, payload)
    BY <1>1, PacketIsHeard
<1>3. IsAddrAcceptable(ours, d) <=> IsFor(ours, d)
    BY AcceptedIsFor
<1>4. HearUdp(sockets, ip, payload) = IF listener = NoSocket THEN Ignored ELSE said
    BY <1>1 DEF HearUdp, Found
<1>5. /\ said.kind = "datagram" /\ said.socket = listener
      /\ said.source = meant.source /\ said.data = meant.data
    BY <1>1
<1>6. Ignored.kind = "ignored"
    BY DEF Ignored
<1> HIDE DEF said, heard, listener, udp, ip, payload, data
<1>7. heard = (IF IsFor(ours, d) /\ listener # NoSocket THEN said ELSE Ignored) /\ said # Ignored
    BY <1>2, <1>3, <1>4, <1>5, <1>6
<1>8. IsMeant(ours, d, meant, heard)
    BY <1>5, <1>7 DEF IsMeant
<1>9. IsFound(ours, sockets, d, heard)
    <2> HIDE DEF d
    <2>1. IF Listeners(sockets, d) # {} THEN listener \in Listeners(sockets, d) /\ listener # NoSocket
          ELSE listener = NoSocket
        BY DEF FindsListener, listener, d
    <2> QED
        BY <1>5, <1>7, <2>1 DEF IsFound
<1>10. heard.kind \in {"ignored", "datagram"}
    BY <1>5, <1>6, <1>7
<1> QED
    BY <1>8, <1>9, <1>10 DEF heard

LEMMA MeantOfControls ==
    ASSUME NEW frame, frame.meant.kind \notin {"asked", "told", "datagram"},
           Ipv4IsUnderstood(frame), NEW mac, NEW ours, Proper(ours), NEW sockets
    PROVE  LET heard == Hear(mac, ours, sockets, frame.bytes)
           IN  /\ IsMeant(ours, frame.destination, frame.meant, heard)
               /\ heard = Ignored \/ (heard = frame.meant /\ IsAddrAcceptable(ours, frame.destination))
<1> DEFINE ip == Ipv4Of(frame.bytes)
           payload == PayloadIn(frame.bytes)
           d == frame.destination
           meant == frame.meant
           heard == Hear(mac, ours, sockets, frame.bytes)
<1>1. /\ IsPacket(frame.bytes) /\ ip.destination = d /\ ip.protocol = "ICMP"
      /\ HearIcmp(ip, payload) = meant
    BY DEF Ipv4IsUnderstood, ControlIsUnderstood
<1>2. heard = IF ~IsAddrAcceptable(ours, d) THEN Ignored ELSE HearIcmp(ip, payload)
    BY <1>1, PacketIsHeard
<1>3. IsAddrAcceptable(ours, d) <=> IsFor(ours, d)
    BY AcceptedIsFor
<1> HIDE DEF heard, ip, payload
<1>4. heard = IF IsFor(ours, d) THEN meant ELSE Ignored
    BY <1>1, <1>2, <1>3
<1>5. IsMeant(ours, d, meant, heard)
    BY <1>4 DEF IsMeant
<1> QED
    BY <1>3, <1>4, <1>5 DEF heard

-----------------------------------------------------------------------------
(* What is answered *)

LEMMA RequestHasEnds ==
    ASSUME NEW ip, NEW bytes, HearIcmp(ip, bytes).kind = "request"
    PROVE  HearIcmp(ip, bytes).source = ip.source /\ HearIcmp(ip, bytes).destination = ip.destination
<1> DEFINE icmp == ReadIcmp(bytes)
           heard == HearIcmp(ip, bytes)
           request == [kind |-> "request", source |-> ip.source, destination |-> ip.destination,
                       message |-> icmp]
           reply == [kind |-> "reply", target |-> ip.source, identifier |-> icmp.identifier,
                     sequence |-> icmp.sequence, time |-> ReadUnixData(icmp.data)]
           control == [kind |-> "control", message |-> icmp]
<1>1. heard =
          CASE icmp.kind = "rejected" -> Ignored
            [] icmp.kind = "EchoRequest" -> request
            [] icmp.kind = "EchoReply" -> reply
            [] icmp.kind = "DestinationUnreachable" -> ForwardAsyncError(icmp)
            [] icmp.kind \in {"SourceQuench", "Redirect", "TimeExceeded", "ParameterProblem"} ->
                   control
    BY DEF HearIcmp
<1>2. icmp.kind \in
          {"rejected", "EchoRequest", "EchoReply", "DestinationUnreachable", "SourceQuench",
           "Redirect", "TimeExceeded", "ParameterProblem"}
    BY IcmpKinds
<1>3. reply.kind = "reply" /\ control.kind = "control" /\ Ignored.kind = "ignored"
      /\ request.source = ip.source /\ request.destination = ip.destination
    BY DEF Ignored
<1>4. ForwardAsyncError(icmp).kind \in {"unreachable", "logged"}
    BY DEF ForwardAsyncError
<1>5. heard.kind = "request"
    OBVIOUS
<1> HIDE DEF heard, icmp, request, reply, control
<1>6. heard \in {Ignored, request, reply, ForwardAsyncError(icmp), control}
    BY <1>1, <1>2
<1>7. heard = request
    BY <1>3, <1>4, <1>5, <1>6
<1> QED
    BY <1>3, <1>7 DEF heard

(* A ping that was understood is answered with its own numbers and data,   *)
(* and the pinger reads its time from that.                                *)
LEMMA RepliesAreUnderstood ==
    ASSUME NEW frame, frame.meant.kind = "request", Ipv4IsUnderstood(frame),
           NEW host, host.mac \in Mac, host.neighbourMac \in Mac,
           NEW ours, Proper(ours), IsAddrAcceptable(ours, frame.destination), NEW other,
           AnswerTo(host, frame.meant).result = "sent"
    PROVE  Understood(Frame(other, AnswerTo(host, frame.meant).bytes, frame.meant.source,
                            AnswerMeans(host, frame.meant, frame.meant)))
<1> DEFINE ip == Ipv4Of(frame.bytes)
           meant == frame.meant
           answer == AnswerTo(host, meant)
           data == meant.message.data
           reply == Echo("EchoReply", Identifier, Sequence, data)
           payload == WriteEcho(reply)
           answered == [kind |-> "reply", target |-> meant.destination, identifier |-> Identifier,
                        sequence |-> Sequence, time |-> TimeIn(data)]
           new == Frame(other, answer.bytes, meant.source, answered)
<1>1. /\ IsPacket(frame.bytes) /\ ip.destination = frame.destination
      /\ HearIcmp(ip, PayloadIn(frame.bytes)) = meant
    BY DEF Ipv4IsUnderstood, ControlIsUnderstood
<1>2. PICK n : /\ meant.message = Echo("EchoRequest", Identifier, Sequence, data)
               /\ Sized(data, n)
    BY DEF Ipv4IsUnderstood, ControlIsUnderstood
<1>3. meant.source = ip.source /\ meant.destination = ip.destination
    BY <1>1, RequestHasEnds
<1>4. /\ meant.source \in Addresses /\ meant.destination \in Addresses
      /\ meant.destination # Unspecified
    <2>1. ip.source \in Addresses /\ ip.destination \in Addresses
        BY <1>1 DEF IsPacket
    <2>2. frame.destination # Unspecified
        BY UnspecifiedIsNobodys
    <2> HIDE DEF ip
    <2> QED
        BY <1>1, <1>3, <2>1, <2>2
<1>5. /\ [meant.message EXCEPT !.kind = "EchoReply"] = reply
      /\ meant.message.identifier = Identifier /\ meant.message.sequence = Sequence
    <2> HIDE DEF data
    <2> QED
        BY <1>2 DEF Echo
<1>6. answer = SendIpv4(host, meant.destination, meant.source, "ICMP", payload)
    BY <1>5 DEF AnswerTo
<1>7. AnswerMeans(host, meant, meant) = answered
    BY <1>5 DEF AnswerMeans
<1>8. Sized(payload, 8 + n)
    BY <1>2, EchoIsSized
<1> HIDE DEF data, payload, ip
<1>9. /\ Holds(answer.bytes, 0, TaggedHeader("IPv4", host.mac, host.neighbourMac, Untagged),
               TaggedLength(Untagged))
      /\ Encloses(answer.bytes, TaggedLength(Untagged), "ICMP", meant.destination, meant.source,
                  payload, 8 + n)
      /\ 8 + n \in Nat /\ 20 + (8 + n) \in Words
    BY <1>4, <1>6, <1>8, SentPacket
<1>10. Sized(host.mac, 6) /\ Sized(host.neighbourMac, 6)
    BY MacsAreSized
<1> HIDE DEF answer
<1>11. LET to == Ipv4Of(answer.bytes)
       IN  /\ IsPacket(answer.bytes) /\ PayloadIn(answer.bytes) = payload
           /\ to.protocol = "ICMP" /\ to.source = meant.destination
           /\ to.destination = meant.source
    BY <1>4, <1>9, <1>10, PacketIsRead
<1>12. ControlIsUnderstood(Ipv4Of(answer.bytes), PayloadIn(answer.bytes), answered)
    BY <1>2, <1>11, ReplyIsHeard DEF payload
<1>13. answered.kind = "reply"
    OBVIOUS
<1> HIDE DEF answered
<1>14. Ipv4IsUnderstood(new)
    BY <1>11, <1>12, <1>13, ControlsAreUnderstood
<1>15. new.meant = answered
    BY DEF Frame
<1> HIDE DEF new
<1>16. Understood(new)
    BY <1>13, <1>14, <1>15 DEF Understood
<1> QED
    BY <1>7, <1>16 DEF new, answer

(* Who is asked for by ARP answers with an address of its own.             *)
LEMMA ArpRepliesAreUnderstood ==
    ASSUME NEW frame, frame.meant.kind = "asked", ArpIsUnderstood(frame),
           NEW host, host.mac \in Mac, NEW heard, heard.kind = "asked", NEW other,
           heard.reply = ArpReply(ReadArp(Inside(frame.bytes)), host.mac,
                                  ReadArp(Inside(frame.bytes)).target),
           heard.address = ReadArp(Inside(frame.bytes)).sender
    PROVE  Understood(Frame(other, AnswerTo(host, heard).bytes, heard.address,
                            AnswerMeans(host, heard, frame.meant)))
<1> DEFINE arp == ReadArp(Inside(frame.bytes))
           m == ArpReply(arp, host.mac, arp.target)
           attempt == SendEthernet(host.mac, m.targetMac, "ARP", WriteArp(m))
           answered == [kind |-> "told", address |-> m.sender, mac |-> host.mac]
           new == Frame(other, attempt.bytes, heard.address, answered)
           read == ReadArp(Inside(attempt.bytes))
<1>1. arp.sender \in Addresses /\ arp.target \in Addresses /\ Sized(arp.senderMac, 6)
    BY DEF ArpIsUnderstood
<1>2. AnswerTo(host, heard) = attempt
    BY DEF AnswerTo
<1>3. AnswerMeans(host, heard, frame.meant) = answered
    BY DEF AnswerMeans
<1>4. /\ m.operation = "Reply" /\ m.senderMac = host.mac /\ m.sender = arp.target
      /\ m.targetMac = arp.senderMac /\ m.target = arp.sender
    BY DEF ArpReply
<1>5. Sized(host.mac, 6)
    BY MacsAreSized
<1> HIDE DEF arp, m
<1>6. attempt.result = "sent"
    BY <1>1, <1>4, <1>5, ArpFits
<1>7. attempt.bytes = WriteEthernet(EthernetHeader("ARP", host.mac, m.targetMac)) \o WriteArp(m)
    BY <1>6, SentArp
<1> HIDE DEF attempt
<1>8. /\ Carries(attempt.bytes, "ARP") /\ read # Rejected /\ read.operation = "Reply"
      /\ read.senderMac = host.mac /\ read.sender = m.sender
    BY <1>1, <1>4, <1>5, <1>7, ArpFrameIsRead
<1>9. /\ new.bytes = attempt.bytes /\ new.meant.kind = "told"
      /\ new.meant.address = m.sender /\ new.meant.mac = host.mac
    BY DEF Frame
<1> HIDE DEF new, read
<1>10. ArpIsUnderstood(new)
    BY <1>1, <1>4, <1>5, <1>8, <1>9 DEF ArpIsUnderstood, read
<1>11. Understood(new)
    BY <1>9, <1>10 DEF Understood
<1> QED
    BY <1>2, <1>3, <1>11 DEF new, m, arp

LEMMA NobodyAnswers ==
    ASSUME NEW host, NEW heard, heard.kind \notin {"request", "asked"}
    PROVE  AnswerTo(host, heard).result = "none"
BY DEF AnswerTo, Failed

LEMMA AnswersAreUnderstood ==
    ASSUME NEW frame, Understood(frame), NEW host, host.mac \in Mac, host.neighbourMac \in Mac,
           NEW ours, Proper(ours), NEW sockets, NEW other,
           frame.to = "peer" => \A a : ContainsAddress(ours, a) => a = PeerAddress,
           frame.meant.kind = "datagram" => FindsListener(sockets, frame.destination)
    PROVE  LET heard == Hear(host.mac, ours, sockets, frame.bytes)
               answer == AnswerTo(host, heard)
               to == IF heard.kind = "request" THEN heard.source ELSE heard.address
           IN  /\ IsMeant(ours, frame.destination, frame.meant, heard)
               /\ frame.meant.kind = "datagram"
                     => IsFound(ours, sockets, frame.destination, heard)
               /\ answer.result = "sent"
                     => Understood(Frame(other, answer.bytes, to,
                                         AnswerMeans(host, heard, frame.meant)))
<1> DEFINE heard == Hear(host.mac, ours, sockets, frame.bytes)
           answer == AnswerTo(host, heard)
           to == IF heard.kind = "request" THEN heard.source ELSE heard.address
           new == Frame(other, answer.bytes, to, AnswerMeans(host, heard, frame.meant))
<1> HIDE DEF heard
<1>1. CASE frame.meant.kind \in {"asked", "told"}
    <2> DEFINE arp == ReadArp(Inside(frame.bytes))
    <2>1. ArpIsUnderstood(frame)
        BY <1>1 DEF Understood
    <2>2. /\ IsMeant(ours, frame.destination, frame.meant, heard)
          /\ heard.kind \in {"asked", "told"} /\ heard.address = arp.sender
          /\ heard.kind = "asked" => heard.reply = ArpReply(arp, host.mac, arp.target)
        BY <1>1, <2>1, MeantOfFrames DEF heard
    <2>3. heard.kind = "asked" => frame.meant.kind = "asked"
        BY <1>1, <2>2 DEF IsMeant
    <2>4. CASE heard.kind = "asked"
        <3>1. to = heard.address
            BY <2>4
        <3>2. Understood(new)
            BY <2>1, <2>2, <2>3, <2>4, <3>1, ArpRepliesAreUnderstood
        <3> HIDE DEF new
        <3> QED
            BY <1>1, <2>2, <3>2 DEF new, heard
    <2>5. CASE heard.kind # "asked"
        <3>1. answer.result = "none"
            BY <2>2, <2>5, NobodyAnswers
        <3> QED
            BY <1>1, <2>2, <3>1 DEF heard
    <2> QED
        BY <2>4, <2>5
<1>2. CASE frame.meant.kind = "datagram"
    <2>1. Ipv4IsUnderstood(frame)
        BY <1>2 DEF Understood
    <2>2. /\ IsMeant(ours, frame.destination, frame.meant, heard)
          /\ IsFound(ours, sockets, frame.destination, heard)
          /\ heard.kind \in {"ignored", "datagram"}
        BY <1>2, <2>1, MeantOfDatagrams DEF heard
    <2>3. answer.result = "none"
        BY <2>2, NobodyAnswers
    <2> QED
        BY <2>2, <2>3 DEF heard
<1>3. CASE frame.meant.kind \notin {"asked", "told", "datagram"}
    <2>1. Ipv4IsUnderstood(frame)
        BY <1>3 DEF Understood
    <2>2. /\ IsMeant(ours, frame.destination, frame.meant, heard)
          /\ heard = Ignored \/ (heard = frame.meant /\ IsAddrAcceptable(ours, frame.destination))
        BY <1>3, <2>1, MeantOfControls DEF heard
    <2>4. CASE heard.kind = "request"
        <3>1. heard = frame.meant /\ IsAddrAcceptable(ours, frame.destination)
            BY <2>2, <2>4 DEF Ignored
        <3>2. to = frame.meant.source
            BY <2>4, <3>1
        <3>3. answer.result = "sent" => Understood(new)
            BY <2>1, <2>4, <3>1, <3>2, RepliesAreUnderstood
        <3> HIDE DEF new
        <3> QED
            BY <1>3, <2>2, <3>3 DEF new, heard
    <2>5. CASE heard.kind # "request"
        <3>1. heard.kind # "asked"
            BY <1>3, <2>2 DEF Ignored
        <3>2. answer.result = "none"
            BY <2>5, <3>1, NobodyAnswers
        <3> QED
            BY <1>3, <2>2, <3>2 DEF heard
    <2> QED
        BY <2>4, <2>5
<1> QED
    BY <1>1, <1>2, <1>3

-----------------------------------------------------------------------------
(* The inductive invariant of what is said and heard *)

SocketsOf(by) == IF by = "us" THEN bindings ELSE PeerBindings

SpeechInv ==
    /\ AddressesAreGranted /\ WireIsUnderstood
    /\ HeardAsMeant /\ DatagramsFindTheirListener

LEMMA HeardInParts ==
    ASSUME NEW by, NEW frame, NEW heard, NEW result, NEW size,
           last' = Heard(by, frame, heard, result, size),
           NEW ours, ours = OursOf(by)', NEW sockets, sockets = SocketsOf(by)',
           IsMeant(ours, frame.destination, frame.meant, heard),
           frame.meant.kind = "datagram" => IsFound(ours, sockets, frame.destination, heard)
    PROVE  HeardAsMeant' /\ DatagramsFindTheirListener'
<1>1. /\ last'.by = by /\ last'.destination = frame.destination /\ last'.meant = frame.meant
      /\ last'.heard = heard
    BY DEF Heard
<1>2. HeardAsMeant'
    BY <1>1 DEF HeardAsMeant, OursOf, IsMeant
<1>3. DatagramsFindTheirListener'
    BY <1>1 DEF DatagramsFindTheirListener, OursOf, SocketsOf, IsFound, Listeners
<1> QED
    BY <1>2, <1>3

LEMMA NothingHeard ==
    ASSUME last'.kind # "heard"
    PROVE  HeardAsMeant' /\ DatagramsFindTheirListener'
BY DEF HeardAsMeant, DatagramsFindTheirListener

LEMMA SameWire ==
    ASSUME WireIsUnderstood, wire' = wire
    PROVE  WireIsUnderstood'
<1>1. Understood(wire') <=> Understood(wire)'
    BY DEF Understood, ArpIsUnderstood, Ipv4IsUnderstood, QuoteIsUnderstood, Inside, Carries,
           Ipv4Of, PayloadIn, IsPacket, QuoteOf
<1> QED
    BY <1>1 DEF WireIsUnderstood

LEMMA SameAddresses ==
    ASSUME AddressesAreGranted, UNCHANGED tables
    PROVE  AddressesAreGranted'
BY DEF AddressesAreGranted, tables

LEMMA ReceiveKeepsSpeech ==
    ASSUME NEW by \in {"us", "peer"}, NEW host, host.mac \in Mac, host.neighbourMac \in Mac,
           NEW other, NEW ours, ours = OursOf(by), Proper(ours),
           NEW sockets, sockets = SocketsOf(by),
           Receive(by, host, other, ours, sockets), SpeechInv,
           by = "peer" => \A a : ContainsAddress(ours, a) => a = PeerAddress,
           wire.meant.kind = "datagram" => FindsListener(sockets, wire.destination)
    PROVE  SpeechInv'
<1> DEFINE heard == Hear(host.mac, ours, sockets, wire.bytes)
           answer == AnswerTo(host, heard)
           size == IF heard.kind = "request" THEN 8 + Len(heard.message.data) ELSE 0
           to == IF heard.kind = "request" THEN heard.source ELSE heard.address
           meaning == AnswerMeans(host, heard, wire.meant)
<1>1. /\ wire.to = by
      /\ last' = Heard(by, wire, heard, answer.result, size)
      /\ wire' = IF answer.result = "sent"
                 THEN Frame(other, answer.bytes, to, meaning) ELSE NoFrame
      /\ addresses' = addresses /\ bindings' = bindings
    BY DEF Receive, tables
<1>2. Understood(wire)
    BY <1>1 DEF SpeechInv, WireIsUnderstood
<1>3. /\ IsMeant(ours, wire.destination, wire.meant, heard)
      /\ wire.meant.kind = "datagram" => IsFound(ours, sockets, wire.destination, heard)
      /\ answer.result = "sent" => Understood(Frame(other, answer.bytes, to, meaning))
    BY <1>1, <1>2, AnswersAreUnderstood
<1> HIDE DEF heard, answer, size, to, meaning
<1>4. WireIsUnderstood'
    <2>1. CASE answer.result = "sent"
        BY <1>1, <1>3, <2>1, NewIsUnderstood
    <2>2. CASE answer.result # "sent"
        BY <1>1, <2>2, NoneIsUnderstood
    <2> QED
        BY <2>1, <2>2
<1>5. HeardAsMeant' /\ DatagramsFindTheirListener'
    <2>1. ours = OursOf(by)' /\ sockets = SocketsOf(by)'
        BY <1>1 DEF OursOf, SocketsOf
    <2> QED
        BY <1>1, <1>3, <2>1, HeardInParts
<1>6. AddressesAreGranted'
    BY <1>1 DEF SpeechInv, AddressesAreGranted
<1> QED
    BY <1>4, <1>5, <1>6 DEF SpeechInv

LEMMA WeHearAsMeant ==
    ASSUME BindingsInv, SpeechInv, WeReceive
    PROVE  SpeechInv'
<1>1. Proper(addresses)
    BY GrantedAreProper DEF SpeechInv
<1>2. Receive("us", Us, "peer", addresses, bindings) /\ wire.to = "us"
    BY DEF WeReceive, Receive
<1>3. wire.meant.kind = "datagram" => FindsListener(bindings, wire.destination)
    <2> SUFFICES ASSUME wire.meant.kind = "datagram"
                 PROVE  FindsListener(bindings, wire.destination)
        OBVIOUS
    <2>1. wire.destination \in V4
        BY <1>2 DEF SpeechInv, WireIsUnderstood, Understood, Ipv4IsUnderstood
    <2> QED
        BY <2>1, OurSocketsAreFound
<1>4. addresses = OursOf("us") /\ bindings = SocketsOf("us")
    BY DEF OursOf, SocketsOf
<1> QED
    BY <1>1, <1>2, <1>3, <1>4, HostsHaveMacs, ReceiveKeepsSpeech

LEMMA PeerHearsAsMeant ==
    ASSUME SpeechInv, PeerReceives
    PROVE  SpeechInv'
<1>1. Receive("peer", Peer, "us", PeerAddresses, PeerBindings)
    BY DEF PeerReceives
<1>2. FindsListener(PeerBindings, wire.destination)
    BY PeerSocketIsFound
<1>3. \A a : ContainsAddress(PeerAddresses, a) => a = PeerAddress
    BY PeerIsAlone
<1>4. PeerAddresses = OursOf("peer") /\ PeerBindings = SocketsOf("peer")
    BY DEF OursOf, SocketsOf
<1> QED
    BY <1>1, <1>2, <1>3, <1>4, PeerIsProper, HostsHaveMacs, ReceiveKeepsSpeech

(* The steps of which nothing is heard.                                    *)
LEMMA SendingKeepsSpeech ==
    ASSUME AddressesAreGranted, WireIsUnderstood', UNCHANGED tables,
           last'.kind # "heard"
    PROVE  SpeechInv'
BY SameAddresses, NothingHeard DEF SpeechInv

LEMMA GrantKeepsSpeech ==
    ASSUME SpeechInv, NEW g \in Grants, GrantAddress(g.address, g.prefix)
    PROVE  SpeechInv'
<1> DEFINE e == [address |-> g.address, prefix |-> g.prefix]
<1>1. addresses' = Append(addresses, e) /\ last'.kind # "heard"
    BY DEF GrantAddress, WithAddress, Nothing
<1>2. e = g
    BY PathAssumption DEF PathAssumption
<1> HIDE DEF e
<1>3. AddressesAreGranted'
    BY <1>1, <1>2, Appending DEF SpeechInv, AddressesAreGranted
<1> QED
    BY <1>1, <1>3, AnnouncementsAreUnderstood, NothingHeard DEF SpeechInv

LEMMA RemoveKeepsSpeech ==
    ASSUME RoutesInv, SpeechInv, NEW a, RemoveAddress(a)
    PROVE  SpeechInv'
<1>1. /\ ContainsAddress(addresses, a) /\ addresses' = WithoutAddress(addresses, a)
      /\ wire' = wire /\ last'.kind # "heard"
    BY DEF RemoveAddress, Nothing
<1>2. PICK k \in 1 .. Len(addresses) : addresses' = RemoveAt(addresses, k)
    BY <1>1, AddressTakenOut DEF RoutesInv
<1>3. AddressesAreGranted'
    BY <1>2, TakingOut DEF SpeechInv, AddressesAreGranted
<1> QED
    BY <1>1, <1>3, SameWire, NothingHeard DEF SpeechInv

LEMMA SpeechStep ==
    ASSUME RoutesInv, BindingsInv, SpeechInv, [PathNext]_path
    PROVE  SpeechInv'
<1>0. AddressesAreGranted /\ WireIsUnderstood
    BY DEF SpeechInv
<1>1. CASE UNCHANGED path
    <2>1. wire' = wire /\ last' = last /\ addresses' = addresses /\ bindings' = bindings
        BY <1>1 DEF path
    <2>2. AddressesAreGranted' /\ WireIsUnderstood'
        BY <1>0, <2>1, SameWire DEF AddressesAreGranted
    <2>3. HeardAsMeant' /\ DatagramsFindTheirListener'
        BY <2>1 DEF SpeechInv, HeardAsMeant, DatagramsFindTheirListener, OursOf
    <2> QED
        BY <2>2, <2>3 DEF SpeechInv
<1>2. CASE \E g \in Grants : GrantAddress(g.address, g.prefix)
    BY <1>2, GrantKeepsSpeech
<1>3. CASE \E g \in Grants : RemoveAddress(g.address)
    BY <1>3, RemoveKeepsSpeech
<1>4. CASE \E request \in RouteRequests : AddRoute(request)
    <2>1. wire' = wire /\ addresses' = addresses /\ last'.kind # "heard"
        BY <1>4 DEF AddRoute
    <2> QED
        BY <1>0, <2>1, SameWire, NothingHeard DEF SpeechInv, AddressesAreGranted
<1>5. CASE ChangeBindings
    <2>1. wire' = wire /\ UNCHANGED tables /\ last'.kind # "heard"
        BY <1>5 DEF ChangeBindings, Nothing
    <2> QED
        BY <1>0, <2>1, SameWire, SendingKeepsSpeech
<1>6. CASE \E b \in ToSet(bindings), d \in Destinations, data \in Payloads : SendDatagram(b, d, data)
    <2>1. UNCHANGED tables /\ last'.kind # "heard"
        BY <1>6 DEF SendDatagram, PutOnWire, Sent
    <2>2. WireIsUnderstood'
        BY <1>6, SentDatagramsAreUnderstood
    <2> QED
        BY <1>0, <2>1, <2>2, SendingKeepsSpeech
<1>7. CASE \E d \in Destinations, time \in Times : Ping(d, time)
    <2>1. UNCHANGED tables /\ last'.kind # "heard"
        BY <1>7 DEF Ping, PutOnWire, Sent
    <2>2. WireIsUnderstood'
        BY <1>7, SentPingsAreUnderstood
    <2> QED
        BY <1>0, <2>1, <2>2, SendingKeepsSpeech
<1>8. ASSUME \E bytes, destination, meant : PeerSends(bytes, destination, meant),
             WireIsUnderstood'
      PROVE  SpeechInv'
    <2>1. UNCHANGED tables /\ last'.kind # "heard"
        BY <1>8 DEF PeerSends, Nothing
    <2> QED
        BY <1>0, <1>8, <2>1, SendingKeepsSpeech
<1>9. CASE \E d \in V4, data \in PeerPayloads, tag \in Tags :
              PeerSendsDatagram(d, data, tag, <<0, 0, 0>>)
    <2>1. Sized(<<0, 0, 0>>, 3)
        BY SizedTuples
    <2> QED
        BY <1>8, <1>9, <2>1, PeerDatagramsAreUnderstood, PeerSendsFrames
<1>10. CASE \E d \in PeerDestinations, data \in PeerPayloads : PeerPings(d, data, <<0>>)
    <2>1. Sized(<<0>>, 1)
        BY SizedTuples
    <2> QED
        BY <1>8, <1>10, <2>1, PeerPingsAreUnderstood, PeerSendsFrames
<1>11. CASE \E d \in PeerDestinations : PeerAsks(d)
    BY <1>8, <1>11, QuestionsAreUnderstood, PeerSendsFrames
<1>12. CASE \E code \in Codes : PeerRefuses(code)
    <2>1. UNCHANGED tables /\ last'.kind # "heard"
        BY <1>12 DEF PeerRefuses, Nothing
    <2>2. WireIsUnderstood'
        BY <1>0, <1>12, RefusalsAreUnderstood
    <2> QED
        BY <1>0, <2>1, <2>2, SendingKeepsSpeech
<1>13. CASE \E d \in PeerDestinations, message \in Complaints : PeerComplains(message, d)
    BY <1>8, <1>13, ComplaintsAreUnderstood, PeerSendsFrames
<1>14. CASE WeReceive
    BY <1>14, WeHearAsMeant
<1>15. CASE PeerReceives
    BY <1>15, PeerHearsAsMeant
<1>16. CASE LoseFrame
    <2>1. UNCHANGED tables /\ last'.kind # "heard" /\ wire' = NoFrame
        BY <1>16 DEF LoseFrame, Nothing
    <2> QED
        BY <1>0, <2>1, NoneIsUnderstood, SendingKeepsSpeech
<1>17. CASE ReadReport
    <2>1. UNCHANGED tables /\ last'.kind # "heard" /\ wire' = wire
        BY <1>17 DEF ReadReport, Nothing
    <2> QED
        BY <1>0, <2>1, SameWire, SendingKeepsSpeech
<1> QED
    BY <1>1, <1>2, <1>3, <1>4, <1>5, <1>6, <1>7, <1>9, <1>10, <1>11, <1>12, <1>13,
       <1>14, <1>15, <1>16, <1>17
    DEF PathNext

LEMMA SpeechBegins == PathInit => SpeechInv
<1> SUFFICES ASSUME PathInit
             PROVE  SpeechInv
    OBVIOUS
<1>1. addresses = <<>> /\ wire.to = "nobody" /\ last.kind = "nothing"
    BY DEF PathInit, NoFrame, Nothing
<1>2. <<>> \in Seq(Grants)
    OBVIOUS
<1> QED
    BY <1>1, <1>2 DEF SpeechInv, AddressesAreGranted, WireIsUnderstood, HeardAsMeant,
                      DatagramsFindTheirListener

-----------------------------------------------------------------------------
(* Theorems *)

(* What every theorem below rests on: the order of the routes, the bindings *)
(* that agreed to share, the copies that cost a network its route, and the *)
(* frames of every handler that sends.                                     *)
THEOREM Invariance == PathSpec => []IInv
<1>1. PathInit => RoutesInv /\ BindingsInv /\ FramesInv
    BY InitHolds
<1>2. RoutesInv /\ BindingsInv /\ FramesInv /\ [PathNext]_path
          => RoutesInv' /\ BindingsInv' /\ FramesInv'
    BY RoutesStep, BindingsOnlyChange, BindingsStep, FramesStep
<1>3. RoutesInv /\ BindingsInv /\ FramesInv => IInv
    BY PartsOfIInv
<1> QED
    BY <1>1, <1>2, <1>3, PTL DEF PathSpec

(* is_bindable and insert: two sockets share an address exactly when both  *)
(* allow reuse, in whatever order sockets came and went; and a request is  *)
(* refused for nothing else.                                               *)
THEOREM SharingIsAgreedUpon == PathSpec => []SharingIsAgreed
<1>1. IInv => SharingIsAgreed
    BY RefusalsAreJustified DEF IInv, TablesTypeOK, SharingIsAgreed
<1> QED
    BY <1>1, Invariance, PTL

(* insert_or_update, remove_matching and lookup: the route that is found   *)
(* has the longest prefix of all that lead to the destination, and leaves  *)
(* from an address that is ours; the network of an address nobody contested *)
(* is routed.                                                              *)
THEOREM RoutesStaySound == PathSpec => []RoutesAreSound
<1>1. IInv => RoutesAreSound
    <2> SUFFICES ASSUME IInv
                 PROVE  RoutesAreSound
        OBVIOUS
    <2>1. routes \in Seq(RouteRecord) /\ InOrder(routes) /\ SourcesAreOurs
          /\ UncontestedNetworksAreRouted
        BY DEF IInv, TablesTypeOK, RoutesInOrder
    <2>2. ASSUME NEW d \in Addresses
          PROVE  LET leading == {r \in ToSet(routes) : Network(d, r.prefix) = r.target}
                     found == Lookup(routes, d)
                 IN  IF leading = {} THEN found = NoRoute
                     ELSE found \in leading
                          /\ \A r \in leading \ {found} : r.prefix < found.prefix
        <3> DEFINE leading == {r \in ToSet(routes) : Network(d, r.prefix) = r.target}
                   found == Lookup(routes, d)
        <3>1. \A r : r \in leading <=> r \in ToSet(routes) /\ LeadsTo(r, d)
            BY DEF LeadsTo
        <3>2. \/ found = NoRoute /\ \A r \in ToSet(routes) : ~LeadsTo(r, d)
              \/ /\ found \in ToSet(routes) /\ LeadsTo(found, d)
                 /\ \A r \in ToSet(routes) :
                       LeadsTo(r, d) /\ r # found => r.prefix < found.prefix
            BY <2>1, LookupFindsTheBest
        <3> HIDE DEF leading, found
        <3>3. IF leading = {} THEN found = NoRoute
              ELSE found \in leading /\ \A r \in leading \ {found} : r.prefix < found.prefix
            BY <3>1, <3>2
        <3> QED
            BY <3>3 DEF leading, found
    <2> QED
        BY <2>1, <2>2 DEF RoutesAreSound, LookupIsSound, SourcesAreOurs
<1> QED
    BY <1>1, Invariance, PTL

(* insert and remove: as long as the listener of an address is bound, no   *)
(* change of the other bindings makes another socket the listener.         *)
THEOREM ListenersStayPut == PathSpec => ListenersStay
<1>1. IInv /\ [PathNext]_path =>
          [\A ip \in V4 \cup V6 :
              LET listener == GetMut(bindings, ip)
              IN  listener # NoSocket /\ (\E b \in ToSet(bindings') : b.socket = listener)
                    => GetMut(bindings', ip) = listener]_vars
    BY PartsOfIInv, BindingsOnlyChange, BindingsStep DEF ListenerStays
<1> QED
    BY <1>1, Invariance, PTL DEF PathSpec, ListenersStay

(* EthernetHandler::send's assertion, which counts its header against the  *)
(* MTU that IPv4Handler::send has already filled: no frame of ours is      *)
(* longer than the MTU, and only a datagram, a ping or an echo reply within *)
(* that header of the longest that IPv4Handler::send accepts ends the      *)
(* worker, whatever its bytes, source and destination.                     *)
THEOREM FramesAlwaysFit == PathSpec => []FramesFit
<1>1. IInv => FramesFit
    BY DEF IInv, FramesFit
<1> QED
    BY <1>1, Invariance, PTL

(* Every frame, whoever wrote it, says to its reader what it was meant to, *)
(* and what is heard of it is that; only addresses that may be granted are *)
(* in the table.                                                           *)
THEOREM SpeechIsUnderstood == PathSpec => []SpeechInv
<1>1. PathInit => SpeechInv
    BY SpeechBegins
<1>2. IInv /\ SpeechInv /\ [PathNext]_path => SpeechInv'
    BY PartsOfIInv, SpeechStep
<1> QED
    BY <1>1, <1>2, Invariance, PTL DEF PathSpec

(* The readers and writers of protocols, is_addr_acceptable and the        *)
(* handlers: what a frame was meant to say is what its receiver reads from *)
(* it, however it was tagged or padded, an answer has the numbers of what  *)
(* it answers, and a packet for another host is ignored.                   *)
THEOREM WhatIsHeardWasMeant == PathSpec => []HeardAsMeant
<1>1. SpeechInv => HeardAsMeant
    BY DEF SpeechInv
<1> QED
    BY <1>1, SpeechIsUnderstood, PTL

(* UdpManager::recv and get_mut: a datagram that is for this host reaches  *)
(* one of the sockets whose binding matches its destination, if there is   *)
(* one, and otherwise no socket.                                           *)
THEOREM ListenersAreFound == PathSpec => []DatagramsFindTheirListener
<1>1. SpeechInv => DatagramsFindTheirListener
    BY DEF SpeechInv
<1> QED
    BY <1>1, SpeechIsUnderstood, PTL
=============================================================================
