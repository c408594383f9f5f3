------------------------- MODULE UdpManager_proofs -------------------------
(***************************************************************************)
(* For any addresses, ports, slots and words: no address ever has two      *)
(* listeners among the sockets that UdpManager has bound, the bit of a     *)
(* slot leads back to the socket that was given the slot, and what a Drop  *)
(* message takes away is its own socket's binding.                         *)
(***************************************************************************)
EXTENDS UdpManager, SequenceTheorems, WellFoundedInduction, TLAPS

-----------------------------------------------------------------------------
(* The sequences of bindings *)

(* A set of naturals has a least element, so Min is what it says.          *)
LEMMA LeastOfNaturals ==
    ASSUME NEW T, T \subseteq Nat, T # {}
    PROVE  \E x \in T : \A y \in T : x <= y
<1>1. PICK x \in T : \A y \in T : ~(<<y, x>> \in OpToRel(<, Nat))
    BY WFMin, NatLessThanWellFounded
<1>2. \A y \in T : ~(y < x)
    BY <1>1 DEF OpToRel
<1> QED
    BY <1>2

(* Taking an element out of a sequence: what stays keeps its order.        *)
LEMMA RemoveAtProperties ==
    ASSUME NEW S, NEW s \in Seq(S), NEW k \in 1 .. Len(s)
    PROVE  /\ RemoveAt(s, k) \in Seq(S)
           /\ Len(RemoveAt(s, k)) = Len(s) - 1
           /\ \A i \in 1 .. Len(s) - 1 :
                 RemoveAt(s, k)[i] = s[IF i < k THEN i ELSE i + 1]
<1> DEFINE before == SubSeq(s, 1, k - 1)
           after == SubSeq(s, k + 1, Len(s))
<1>0. Len(s) \in Nat /\ k \in Nat /\ 1 <= k /\ k <= Len(s)
    BY LenProperties
<1>1. /\ before \in Seq(S)
      /\ Len(before) = k - 1
      /\ \A i \in 1 .. k - 1 : before[i] = s[i]
    BY <1>0, SubSeqProperties
<1>2. /\ after \in Seq(S)
      /\ Len(after) = Len(s) - k
      /\ \A i \in 1 .. Len(s) - k : after[i] = s[k + i]
    BY <1>0, SubSeqProperties
<1>3. RemoveAt(s, k) = before \o after
    BY DEF RemoveAt
<1> HIDE DEF before, after
<1>4. /\ before \o after \in Seq(S)
      /\ Len(before \o after) = Len(before) + Len(after)
      /\ \A i \in 1 .. Len(before) + Len(after) :
            (before \o after)[i] = IF i <= Len(before) THEN before[i]
                                                      ELSE after[i - Len(before)]
    BY <1>1, <1>2, ConcatProperties
<1>5. Len(before) + Len(after) = Len(s) - 1
    BY <1>0, <1>1, <1>2
<1>6. ASSUME NEW i \in 1 .. Len(s) - 1
      PROVE  (before \o after)[i] = s[IF i < k THEN i ELSE i + 1]
    <2>1. CASE i < k
        <3>1. (before \o after)[i] = before[i]
            BY <1>0, <1>1, <1>4, <1>5, <2>1
        <3> QED
            BY <1>0, <1>1, <2>1, <3>1
    <2>2. CASE ~(i < k)
        <3>1. (before \o after)[i] = after[i - (k - 1)]
            BY <1>0, <1>1, <1>4, <1>5, <2>2
        <3>2. i - (k - 1) \in 1 .. Len(s) - k /\ k + (i - (k - 1)) = i + 1
            BY <1>0, <2>2
        <3>3. after[i - (k - 1)] = s[k + (i - (k - 1))]
            BY <1>2, <3>2
        <3> QED
            BY <2>2, <3>1, <3>2, <3>3
    <2> QED
        BY <2>1, <2>2
<1> QED
    BY <1>3, <1>4, <1>5, <1>6

(* The first element that passes a test.                                   *)
LEMMA LeastPlace ==
    ASSUME NEW S, NEW s \in Seq(S), NEW T, T \subseteq 1 .. Len(s), T # {}
    PROVE  Min(T) \in T
<1>1. T \subseteq Nat
    BY LenProperties
<1> QED
    BY <1>1, LeastOfNaturals DEF Min

(* AddressBindings::remove takes out one element, which was asked for as   *)
(* ip, or none if there is none.                                           *)
LEMMA RemoveBindingTakesOne ==
    ASSUME NEW S, NEW s \in Seq(S), NEW ip
    PROVE  \/ /\ RemoveBinding(s, ip) = s
              /\ \A k \in 1 .. Len(s) : s[k].original # ip
           \/ \E k \in 1 .. Len(s) :
                 RemoveBinding(s, ip) = RemoveAt(s, k) /\ s[k].original = ip
<1> DEFINE found == {i \in 1 .. Len(s) : s[i].original = ip}
<1>1. CASE found = {}
    BY <1>1 DEF RemoveBinding, RemoveFirstMatch
<1>2. CASE found # {}
    <2>1. Min(found) \in found
        BY <1>2, LeastPlace
    <2>2. RemoveBinding(s, ip) = RemoveAt(s, Min(found))
        BY <1>2 DEF RemoveBinding, RemoveFirstMatch, SelectInSeq
    <2> QED
        BY <2>1, <2>2
<1> QED
    BY <1>1, <1>2

(* AddressBindings::get_mut finds a binding that matches, if there is one. *)
LEMMA GetMutFinds ==
    ASSUME NEW S, NEW s \in Seq(S), NEW ip
    PROVE  \/ /\ GetMut(s, ip) = NoSocket
              /\ \A k \in 1 .. Len(s) : ~Matches(s[k], ip)
           \/ \E k \in 1 .. Len(s) :
                 GetMut(s, ip) = s[k].socket /\ Matches(s[k], ip)
<1> DEFINE found == {i \in 1 .. Len(s) : Matches(s[i], ip)}
<1>1. CASE found = {}
    BY <1>1 DEF GetMut, SelectInSeq
<1>2. CASE found # {}
    <2>1. Min(found) \in found
        BY <1>2, LeastPlace
    <2>2. Min(found) \in 1 .. Len(s) /\ Min(found) # 0
        BY <2>1, LenProperties
    <2>3. GetMut(s, ip) = s[Min(found)].socket
        BY <1>2, <2>2 DEF GetMut, SelectInSeq
    <2> QED
        BY <2>1, <2>3
<1> QED
    BY <1>1, <1>2

-----------------------------------------------------------------------------
(* The bindings of one port *)

(* No address is matched by two bindings of the sequence.                  *)
Disjoint(s) ==
    \A i, j \in 1 .. Len(s) :
        i # j => ~\E ip \in V4 \cup V6 : Matches(s[i], ip) /\ Matches(s[j], ip)

(* An exclusive dual-stack request that is granted overlaps no binding:    *)
(* one for all addresses finds none, and one for a specific address finds  *)
(* none that matches it.                                                   *)
LEMMA GrantedIsDisjoint ==
    ASSUME NEW S, NEW s \in Seq(S), NEW ip \in Ip, NEW n,
           Binding(ip, TRUE, FALSE, n) \in S,
           Disjoint(s), IsBindable(s, ip, FALSE, TRUE)
    PROVE  Disjoint(Insert(s, ip, TRUE, FALSE, n))
<1> DEFINE new == Binding(ip, TRUE, FALSE, n)
           t == Append(s, new)
<1>typed. new \in S
    OBVIOUS
<1>0. Rivals(s, ip, TRUE) = {}
    BY DEF IsBindable, IsBindableExclusive
<1>1. /\ Len(s) \in Nat
      /\ Len(t) = Len(s) + 1
      /\ \A i \in 1 .. Len(s) : t[i] = s[i]
      /\ t[Len(s) + 1] = new
    <2> HIDE DEF new
    <2> QED
        BY <1>typed, AppendProperties, LenProperties
<1>2. \A i \in 1 .. Len(s) : s[i] \in ToSet(s)
    BY DEF ToSet
<1>3. ASSUME NEW i \in 1 .. Len(s), NEW x \in V4 \cup V6, Matches(s[i], x), Matches(new, x)
      PROVE  FALSE
    <2>1. CASE IsUnspecified(ip)
        BY <1>0, <1>2, <2>1 DEF Rivals
    <2>2. CASE ~IsUnspecified(ip)
        <3>1. ~Matches(s[i], ip)
            BY <1>0, <1>2, <2>2 DEF Rivals
        <3>2. new.target = "specific" /\ new.original = ip
            BY <2>2 DEF Binding, TargetFor
        <3>3. x = ip
            BY <1>3, <3>2 DEF Matches
        <3> QED
            BY <1>3, <3>1, <3>3
    <2> QED
        BY <2>1, <2>2
<1>4. Insert(s, ip, TRUE, FALSE, n) = t
    BY DEF Insert
<1> HIDE DEF new, t
<1>5. Disjoint(t)
    <2> SUFFICES ASSUME NEW i \in 1 .. Len(t), NEW j \in 1 .. Len(t), i # j,
                        NEW x \in V4 \cup V6, Matches(t[i], x), Matches(t[j], x)
                 PROVE  FALSE
        BY DEF Disjoint
    <2>1. CASE i = Len(s) + 1
        BY <1>1, <1>3, <2>1
    <2>2. CASE j = Len(s) + 1
        BY <1>1, <1>3, <2>2
    <2>3. CASE i # Len(s) + 1 /\ j # Len(s) + 1
        <3>1. i \in 1 .. Len(s) /\ j \in 1 .. Len(s)
            BY <1>1, <2>3
        <3> QED
            BY <1>1, <3>1 DEF Disjoint
    <2> QED
        BY <2>1, <2>2, <2>3
<1> QED
    BY <1>4, <1>5

(* Removing a binding makes no two of the others overlap.                  *)
LEMMA RemovedIsDisjoint ==
    ASSUME NEW S, NEW s \in Seq(S), NEW ip, Disjoint(s)
    PROVE  /\ RemoveBinding(s, ip) \in Seq(S)
           /\ Disjoint(RemoveBinding(s, ip))
<1>1. CASE RemoveBinding(s, ip) = s
    BY <1>1
<1>2. ASSUME NEW k \in 1 .. Len(s), RemoveBinding(s, ip) = RemoveAt(s, k)
      PROVE  /\ RemoveBinding(s, ip) \in Seq(S)
             /\ Disjoint(RemoveBinding(s, ip))
    <2> DEFINE t == RemoveAt(s, k)
               From(i) == IF i < k THEN i ELSE i + 1
    <2>1. /\ t \in Seq(S)
          /\ Len(t) = Len(s) - 1
          /\ \A i \in 1 .. Len(s) - 1 : t[i] = s[From(i)]
        BY RemoveAtProperties
    <2>2. Len(s) \in Nat /\ k \in Nat
        BY LenProperties
    <2> HIDE DEF t
    <2>3. Disjoint(t)
        <3> SUFFICES ASSUME NEW i \in 1 .. Len(t), NEW j \in 1 .. Len(t), i # j
                     PROVE  ~\E x \in V4 \cup V6 : Matches(t[i], x) /\ Matches(t[j], x)
            BY DEF Disjoint
        <3>1. /\ From(i) \in 1 .. Len(s) /\ From(j) \in 1 .. Len(s)
              /\ From(i) # From(j)
            BY <2>1, <2>2
        <3>2. t[i] = s[From(i)] /\ t[j] = s[From(j)]
            BY <2>1
        <3> HIDE DEF From
        <3> QED
            BY <3>1, <3>2 DEF Disjoint
    <2> QED
        BY <1>2, <2>1, <2>3 DEF t
<1> QED
    BY <1>1, <1>2, RemoveBindingTakesOne

-----------------------------------------------------------------------------
(* The manager *)

LEMMA InitEstablishesListenersInv == Init => ListenersInv
<1> SUFFICES ASSUME Init PROVE ListenersInv
    OBVIOUS
<1>1. TablesTypeOK
    BY DEF Init, TablesTypeOK
<1>2. ListenersAreUnique
    BY DEF Init, ListenersAreUnique
<1> QED
    BY <1>1, <1>2 DEF ListenersInv

(* Only a bind and the removal of a dropped socket touch the bindings.     *)
LEMMA NextPreservesListenersInv == ListenersInv /\ [Next]_vars => ListenersInv'
<1> SUFFICES ASSUME ListenersInv, [Next]_vars PROVE ListenersInv'
    OBVIOUS
<1>0. \A port \in Port : bindings[port] \in Seq(ManagedBinding) /\ Disjoint(bindings[port])
    BY DEF ListenersInv, TablesTypeOK, ListenersAreUnique, Disjoint
<1>1. ASSUME NEW ip \in Requested, NEW port \in Port, Bind(ip, port)
      PROVE  ListenersInv'
    <2> DEFINE n == Len(slots) + 1
    <2>1. n \in Nat
        BY DEF ListenersInv, TablesTypeOK
    <2>2. ip \in Ip
        BY ManagerAssumption
    <2>3. Binding(ip, TRUE, FALSE, n) \in ManagedBinding
        BY <2>1 DEF Binding, TargetFor, ManagedBinding
    <2>4. Insert(bindings[port], ip, TRUE, FALSE, n) \in Seq(ManagedBinding)
        BY <1>0, <2>3, AppendProperties DEF Insert
    <2>5. Disjoint(Insert(bindings[port], ip, TRUE, FALSE, n))
        BY <1>0, <1>1, <2>2, <2>3, GrantedIsDisjoint DEF Bind, Bindable
    <2>6. bindings' = [bindings EXCEPT ![port] = Insert(@, ip, TRUE, FALSE, n)]
        BY <1>1 DEF Bind
    <2>7. TablesTypeOK'
        <3>1. slots' \in Seq([ip : Requested, port : Port])
            BY <1>1 DEF Bind, ListenersInv, TablesTypeOK
        <3> QED
            BY <2>4, <2>6, <3>1 DEF ListenersInv, TablesTypeOK
    <2>8. \A other \in Port : Disjoint(bindings'[other])
        BY <1>0, <2>5, <2>6 DEF ListenersInv, TablesTypeOK
    <2> QED
        BY <2>7, <2>8 DEF ListenersInv, ListenersAreUnique, Disjoint
<1>2. CASE PopDrop
    <2> DEFINE port == slots[current].port
               ip == slots[current].ip
    <2>1. bindings' = [bindings EXCEPT ![port] = RemoveBinding(@, ip)] /\ slots' = slots
        BY <1>2 DEF PopDrop
    <2>2. \A other \in Port :
            /\ RemoveBinding(bindings[other], ip) \in Seq(ManagedBinding)
            /\ Disjoint(RemoveBinding(bindings[other], ip))
        BY <1>0, RemovedIsDisjoint
    <2> HIDE DEF port, ip
    <2>3. TablesTypeOK'
        BY <2>1, <2>2 DEF ListenersInv, TablesTypeOK
    <2>4. \A other \in Port : Disjoint(bindings'[other])
        BY <1>0, <2>1, <2>2 DEF ListenersInv, TablesTypeOK
    <2> QED
        BY <2>3, <2>4 DEF ListenersInv, ListenersAreUnique, Disjoint
<1>3. CASE UNCHANGED <<bindings, slots>>
    BY <1>3 DEF ListenersInv, TablesTypeOK, ListenersAreUnique
<1>4. ASSUME NEW ip \in Requested, NEW port \in Port,
             BindUnsupported(ip) \/ BindInUse(ip, port) \/ BindNoSlot(ip, port)
      PROVE  UNCHANGED <<bindings, slots>>
    BY <1>4 DEF BindUnsupported, BindInUse, BindNoSlot, BindFails
<1>5. ASSUME NEW m \in Slot, User(m)
      PROVE  UNCHANGED <<bindings, slots>>
    BY <1>5 DEF User, Push, PushDrop, LoseDrop, Mark
<1>6. ASSUME NEW slot \in Slot, TakeBit(slot)
      PROVE  UNCHANGED <<bindings, slots>>
    BY <1>6 DEF TakeBit
<1>7. CASE EndControl \/ SwapWord \/ PopData \/ PopNothing \/ EndDrain
    BY <1>3, <1>7 DEF EndControl, SwapWord, PopData, PopNothing, EndDrain
<1>8. CASE UNCHANGED vars
    BY <1>3, <1>8 DEF vars
<1> QED
    BY <1>1, <1>2, <1>3, <1>4, <1>5, <1>6, <1>7, <1>8 DEF Next, Control, ProcessBuffers

(* No address ever has two listeners, whatever is bound, dropped and bound *)
(* again and however the bits of old slots are set: what UdpManager::recv  *)
(* finds for a packet is the one socket bound for it.                      *)
THEOREM OneListener == SafeSpec => []ListenersAreUnique
<1>1. ListenersInv => ListenersAreUnique
    BY DEF ListenersInv
<1> QED
    BY <1>1, InitEstablishesListenersInv, NextPreservesListenersInv, PTL DEF SafeSpec

-----------------------------------------------------------------------------
(* From a slot to its socket and back: the invariant *)

(* A binding for all addresses is alone on its port, and no two are for    *)
(* the same address: more than ListenersAreUnique says where there are no  *)
(* addresses but the unspecified ones.                                     *)
ApartIn(s) ==
    \A i, j \in 1 .. Len(s) :
        i # j => s[i].target = "specific" /\ s[i].original # s[j].original

Apart == \A port \in Port : ApartIn(bindings[port])

TargetsFit ==
    \A port \in Port : \A b \in ToSet(bindings[port]) :
        b.target = TargetFor(b.original, TRUE)

(* A slot that is not taken has no socket.                                 *)
FreshSlots == \A n \in Slot : n > Len(slots) => user[n] = "unbound" /\ ring[n] = <<>>

(* The Drop message is the last a socket pushes.                           *)
DropIsLast ==
    \A n \in Slot : \A i \in 1 .. Len(ring[n]) :
        ring[n][i] = "drop" => i = Len(ring[n]) /\ user[n] \in {"mark_drop", "closed"}

(* What a bound socket has pushed is announced by the bit of its own slot. *)
OnTheWay ==
    \A n \in 1 .. Len(slots) :
        IsBound(n) /\ ring[n] # <<>> =>
            \/ user[n] \in {"mark", "mark_drop"}
            \/ n \in ready \cup captured
            \/ worker = "drain_socket" /\ Served(current) = n

DrainHasSocket == worker = "drain_socket" => Served(current) \in 1 .. Len(slots)

OnlySpecific == \A n \in 1 .. Len(slots) : ~IsUnspecified(slots[n].ip)

(* As long as nobody asks for all addresses, a Drop takes the binding of   *)
(* the socket that pushed it.                                              *)
RemovedAreGone == OnlySpecific => \A n \in removed : ~IsBound(n)

IInv ==
    /\ TypeOK
    /\ Apart
    /\ TargetsFit
    /\ FreshSlots
    /\ DropIsLast
    /\ OnTheWay
    /\ DrainHasSocket
    /\ RemovedAreGone

-----------------------------------------------------------------------------
(* What the tables say of a socket *)

(* An element of a sequence has a place in it.                             *)
LEMMA HasPlace ==
    ASSUME NEW S, NEW s \in Seq(S)
    PROVE  /\ \A x \in ToSet(s) : \E k \in 1 .. Len(s) : x = s[k]
           /\ \A k \in 1 .. Len(s) : s[k] \in ToSet(s) /\ s[k] \in S
BY ElementOfSeq DEF ToSet

LEMMA BindingsShape ==
    ASSUME TypeOK, NEW port \in Port
    PROVE  /\ bindings[port] \in Seq(ManagedBinding)
           /\ \A k \in 1 .. Len(bindings[port]) :
                /\ bindings[port][k] \in ManagedBinding
                /\ bindings[port][k].socket \in 1 .. Len(slots)
                /\ slots[bindings[port][k].socket] =
                      [ip |-> bindings[port][k].original, port |-> port]
<1>1. bindings[port] \in Seq(ManagedBinding)
    BY DEF TypeOK, TablesTypeOK
<1> QED
    BY <1>1, HasPlace DEF TypeOK

LEMMA SlotShape ==
    ASSUME TypeOK
    PROVE  /\ slots \in Seq([ip : Requested, port : Port])
           /\ Len(slots) \in Nat
           /\ \A n \in 1 .. Len(slots) :
                n \in Slot /\ slots[n].ip \in Requested /\ slots[n].port \in Port
<1>1. slots \in Seq([ip : Requested, port : Port]) /\ Len(slots) <= Slots
    BY DEF TypeOK, TablesTypeOK
<1>2. Len(slots) \in Nat /\ Slots \in Nat
    BY <1>1, ManagerAssumption
<1>3. ASSUME NEW n \in 1 .. Len(slots)
      PROVE  slots[n] \in [ip : Requested, port : Port]
    BY <1>1, ElementOfSeq
<1> QED
    BY <1>1, <1>2, <1>3 DEF Slot

(* A bound socket is bound under the address and port of its slot.         *)
LEMMA BoundPlace ==
    ASSUME TypeOK, NEW n, IsBound(n)
    PROVE  /\ n \in 1 .. Len(slots)
           /\ \E k \in 1 .. Len(bindings[slots[n].port]) :
                /\ bindings[slots[n].port][k].socket = n
                /\ bindings[slots[n].port][k].original = slots[n].ip
<1>1. PICK port \in Port : \E b \in ToSet(bindings[port]) : b.socket = n
    BY DEF IsBound
<1>2. bindings[port] \in Seq(ManagedBinding)
    BY BindingsShape
<1>3. PICK k \in 1 .. Len(bindings[port]) : bindings[port][k].socket = n
    BY <1>1, <1>2, HasPlace
<1>4. n \in 1 .. Len(slots) /\ slots[n] = [ip |-> bindings[port][k].original, port |-> port]
    BY <1>3, BindingsShape
<1> QED
    BY <1>3, <1>4

LEMMA PlaceBinds ==
    ASSUME TypeOK, NEW port \in Port, NEW k \in 1 .. Len(bindings[port])
    PROVE  IsBound(bindings[port][k].socket)
BY BindingsShape, HasPlace DEF IsBound

(* A binding matches the address it was asked for, and where bindings are  *)
(* apart no other one does.                                                *)
LEMMA MatchesItsOwn ==
    ASSUME NEW s \in Seq(ManagedBinding), ApartIn(s),
           NEW k \in 1 .. Len(s), NEW j \in 1 .. Len(s)
    PROVE  Matches(s[j], s[k].original) <=> j = k
<1>1. s[k] \in ManagedBinding /\ s[j] \in ManagedBinding
    BY HasPlace
<1>2. s[k].target \in {"any", "specific"} /\ s[j].target \in {"any", "specific"}
    BY <1>1 DEF ManagedBinding
<1> QED
    BY <1>2 DEF ApartIn, Matches

LEMMA GetMutOfOwn ==
    ASSUME NEW s \in Seq(ManagedBinding), ApartIn(s), NEW k \in 1 .. Len(s)
    PROVE  GetMut(s, s[k].original) = s[k].socket
BY MatchesItsOwn, GetMutFinds

LEMMA OwnServed ==
    ASSUME TypeOK, Apart, NEW n, IsBound(n)
    PROVE  Served(n) = n
<1>1. PICK k \in 1 .. Len(bindings[slots[n].port]) :
        /\ bindings[slots[n].port][k].socket = n
        /\ bindings[slots[n].port][k].original = slots[n].ip
    BY BoundPlace
<1>2. slots[n].port \in Port
    BY BoundPlace, SlotShape
<1>3. bindings[slots[n].port] \in Seq(ManagedBinding) /\ ApartIn(bindings[slots[n].port])
    BY <1>2, BindingsShape DEF Apart
<1> QED
    BY <1>1, <1>3, GetMutOfOwn DEF Served

(* Whoever is served is bound, by a binding that matches the slot.         *)
LEMMA ServedIsBound ==
    ASSUME TypeOK, NEW m \in 1 .. Len(slots), Served(m) # NoSocket
    PROVE  /\ Served(m) \in 1 .. Len(slots)
           /\ IsBound(Served(m))
           /\ \E k \in 1 .. Len(bindings[slots[m].port]) :
                /\ Served(m) = bindings[slots[m].port][k].socket
                /\ Matches(bindings[slots[m].port][k], slots[m].ip)
<1>1. slots[m].port \in Port
    BY SlotShape
<1>2. PICK k \in 1 .. Len(bindings[slots[m].port]) :
        /\ Served(m) = bindings[slots[m].port][k].socket
        /\ Matches(bindings[slots[m].port][k], slots[m].ip)
    BY <1>1, BindingsShape, GetMutFinds DEF Served
<1> QED
    BY <1>1, <1>2, BindingsShape, PlaceBinds

-----------------------------------------------------------------------------
(* What the steps do to the tables *)

LEMMA AppendedSet ==
    ASSUME NEW S, NEW s \in Seq(S), NEW b \in S
    PROVE  /\ ToSet(Append(s, b)) = ToSet(s) \cup {b}
           /\ Append(s, b) \in Seq(S)
           /\ Len(Append(s, b)) = Len(s) + 1
           /\ \A k \in 1 .. Len(s) : Append(s, b)[k] = s[k]
           /\ Append(s, b)[Len(s) + 1] = b
<1>1. /\ Append(s, b) \in Seq(S)
      /\ Len(Append(s, b)) = Len(s) + 1
      /\ \A k \in 1 .. Len(s) : Append(s, b)[k] = s[k]
      /\ Append(s, b)[Len(s) + 1] = b
      /\ Len(s) \in Nat
    BY AppendProperties, LenProperties
<1>2. 1 .. Len(s) + 1 = (1 .. Len(s)) \cup {Len(s) + 1}
    BY <1>1
<1>3. ToSet(Append(s, b)) = ToSet(s) \cup {b}
    BY <1>1, <1>2 DEF ToSet
<1> QED
    BY <1>1, <1>3

(* What is in a sequence without its k-th element.                         *)
LEMMA RemovedSet ==
    ASSUME NEW S, NEW s \in Seq(S), NEW k \in 1 .. Len(s)
    PROVE  \A x : x \in ToSet(RemoveAt(s, k)) <=> \E i \in 1 .. Len(s) : i # k /\ x = s[i]
<1> DEFINE t == RemoveAt(s, k)
<1>1. /\ t \in Seq(S)
      /\ Len(t) = Len(s) - 1
      /\ \A i \in 1 .. Len(s) - 1 : t[i] = s[IF i < k THEN i ELSE i + 1]
    BY RemoveAtProperties
<1>2. Len(s) \in Nat /\ k \in Nat /\ 1 <= k /\ k <= Len(s)
    BY LenProperties
<1> HIDE DEF t
<1>3. ASSUME NEW x \in ToSet(t) PROVE \E i \in 1 .. Len(s) : i # k /\ x = s[i]
    <2>1. PICK i \in 1 .. Len(s) - 1 : x = t[i]
        BY <1>1, <1>3, HasPlace
    <2>2. CASE i < k
        BY <1>1, <1>2, <2>1, <2>2
    <2>3. CASE ~(i < k)
        BY <1>1, <1>2, <2>1, <2>3
    <2> QED
        BY <2>2, <2>3
<1>4. ASSUME NEW i \in 1 .. Len(s), i # k PROVE s[i] \in ToSet(t)
    <2>1. CASE i < k
        <3>1. i \in 1 .. Len(t) /\ t[i] = s[i]
            BY <1>1, <1>2, <2>1
        <3> QED
            BY <1>1, <3>1, HasPlace
    <2>2. CASE ~(i < k)
        <3>1. i - 1 \in 1 .. Len(t) /\ t[i - 1] = s[(i - 1) + 1]
            BY <1>1, <1>2, <1>4, <2>2
        <3>2. t[i - 1] = s[i]
            BY <1>2, <3>1
        <3> QED
            BY <1>1, <3>1, <3>2, HasPlace
    <2> QED
        BY <2>1, <2>2
<1> QED
    BY <1>3, <1>4 DEF t

(* A bind appends to both tables.                                          *)
LEMMA BindTables ==
    ASSUME TypeOK, NEW ip \in Requested, NEW port \in Port, Bind(ip, port)
    PROVE  LET n == Len(slots) + 1
               b == Binding(ip, TRUE, FALSE, n)
           IN  /\ n \in Slot
               /\ slots' \in Seq([ip : Requested, port : Port])
               /\ Len(slots') = n
               /\ \A m \in 1 .. Len(slots) : slots'[m] = slots[m]
               /\ slots'[n] = [ip |-> ip, port |-> port]
               /\ b \in ManagedBinding
               /\ bindings' \in [Port -> Seq(ManagedBinding)]
               /\ \A other \in Port \ {port} : bindings'[other] = bindings[other]
               /\ bindings'[port] = Append(bindings[port], b)
<1> DEFINE n == Len(slots) + 1
           b == Binding(ip, TRUE, FALSE, n)
<1>1. Len(slots) \in Nat /\ Slots \in Nat /\ Len(slots) < Slots
    BY SlotShape, ManagerAssumption DEF Bind, SlotIsFree
<1>2. n \in Slot
    BY <1>1 DEF Slot
<1>3. b \in ManagedBinding
    BY <1>1 DEF Binding, TargetFor, ManagedBinding
<1>4. slots' = Append(slots, [ip |-> ip, port |-> port])
    BY DEF Bind
<1>5. /\ slots' \in Seq([ip : Requested, port : Port])
      /\ Len(slots') = n
      /\ \A m \in 1 .. Len(slots) : slots'[m] = slots[m]
      /\ slots'[n] = [ip |-> ip, port |-> port]
    <2>1. [ip |-> ip, port |-> port] \in [ip : Requested, port : Port]
        OBVIOUS
    <2> QED
        BY <1>4, <2>1, SlotShape, AppendedSet
<1>6. bindings' = [bindings EXCEPT ![port] = Append(bindings[port], b)]
    BY DEF Bind, Insert
<1>7. bindings \in [Port -> Seq(ManagedBinding)]
    BY DEF TypeOK, TablesTypeOK
<1> HIDE DEF b
<1>8. Append(bindings[port], b) \in Seq(ManagedBinding)
    BY <1>3, <1>7, AppendedSet
<1>9. /\ bindings' \in [Port -> Seq(ManagedBinding)]
      /\ \A other \in Port \ {port} : bindings'[other] = bindings[other]
      /\ bindings'[port] = Append(bindings[port], b)
    BY <1>6, <1>7, <1>8
<1> QED
    BY <1>2, <1>3, <1>5, <1>9 DEF b

(* A bound socket stays bound when another binds.                          *)
LEMMA BindBinds ==
    ASSUME TypeOK, NEW ip \in Requested, NEW port \in Port, Bind(ip, port)
    PROVE  \A m : IsBound(m)' <=> IsBound(m) \/ m = Len(slots) + 1
<1> DEFINE b == Binding(ip, TRUE, FALSE, Len(slots) + 1)
<1>1. b.socket = Len(slots) + 1
    BY DEF Binding
<1>2. /\ b \in ManagedBinding
      /\ \A other \in Port \ {port} : bindings'[other] = bindings[other]
      /\ bindings'[port] = Append(bindings[port], b)
    BY BindTables
<1> HIDE DEF b
<1>3. ToSet(bindings'[port]) = ToSet(bindings[port]) \cup {b}
    BY <1>2, BindingsShape, AppendedSet
<1>4. ASSUME NEW m
      PROVE  (\E q \in Port : \E x \in ToSet(bindings'[q]) : x.socket = m)
                <=> (\E q \in Port : \E x \in ToSet(bindings[q]) : x.socket = m)
                    \/ m = Len(slots) + 1
    BY <1>1, <1>2, <1>3
<1> QED
    BY <1>4 DEF IsBound

(* The drain of a slot, when a message is popped: who is served.           *)
LEMMA DrainShape ==
    ASSUME TypeOK, DrainHasSocket, worker = "drain_socket"
    PROVE  /\ current \in 1 .. Len(slots)
           /\ Served(current) \in 1 .. Len(slots)
           /\ Served(current) \in Slot
           /\ IsBound(Served(current))
           /\ slots[current].port \in Port
<1>1. current \in 1 .. Len(slots)
    BY SlotShape DEF TypeOK
<1>2. Served(current) \in 1 .. Len(slots) /\ Served(current) # NoSocket
    BY SlotShape DEF DrainHasSocket, NoSocket
<1> QED
    BY <1>1, <1>2, SlotShape, ServedIsBound

(* A Drop message takes out one binding of the slot's port, or none.       *)
LEMMA PopDropTables ==
    ASSUME TypeOK, DrainHasSocket, PopDrop
    PROVE  LET port == slots[current].port
               s == bindings[port]
           IN  /\ bindings' \in [Port -> Seq(ManagedBinding)]
               /\ \A other \in Port \ {port} : bindings'[other] = bindings[other]
               /\ \/ /\ bindings'[port] = s
                     /\ \A k \in 1 .. Len(s) : s[k].original # slots[current].ip
                  \/ \E k \in 1 .. Len(s) :
                        bindings'[port] = RemoveAt(s, k) /\ s[k].original = slots[current].ip
<1> DEFINE port == slots[current].port
           ip == slots[current].ip
           s == bindings[port]
<1>1. port \in Port
    BY DrainShape DEF PopDrop
<1>2. bindings \in [Port -> Seq(ManagedBinding)]
    BY DEF TypeOK, TablesTypeOK
<1>3. bindings' = [bindings EXCEPT ![port] = RemoveBinding(s, ip)]
    BY DEF PopDrop
<1> HIDE DEF port, ip
<1>4. bindings'[port] = RemoveBinding(s, ip)
      /\ \A other \in Port \ {port} : bindings'[other] = bindings[other]
    BY <1>1, <1>2, <1>3
<1>5. s \in Seq(ManagedBinding)
    BY <1>1, <1>2
<1> HIDE DEF s
<1>6. \/ /\ RemoveBinding(s, ip) = s
         /\ \A k \in 1 .. Len(s) : s[k].original # ip
      \/ \E k \in 1 .. Len(s) :
            RemoveBinding(s, ip) = RemoveAt(s, k) /\ s[k].original = ip
    BY <1>5, RemoveBindingTakesOne
<1>7. RemoveBinding(s, ip) \in Seq(ManagedBinding)
    BY <1>5, <1>6, RemoveAtProperties
<1>8. bindings' \in [Port -> Seq(ManagedBinding)]
    BY <1>1, <1>2, <1>3, <1>7
<1> QED
    BY <1>4, <1>6, <1>8 DEF port, ip, s

(* The bindings after a Drop message are among those before.               *)
LEMMA PopDropKeeps ==
    ASSUME TypeOK, DrainHasSocket, PopDrop, NEW q \in Port
    PROVE  ToSet(bindings'[q]) \subseteq ToSet(bindings[q])
<1> DEFINE port == slots[current].port
<1>1. /\ \A other \in Port \ {port} : bindings'[other] = bindings[other]
      /\ \/ bindings'[port] = bindings[port]
         \/ \E k \in 1 .. Len(bindings[port]) : bindings'[port] = RemoveAt(bindings[port], k)
    BY PopDropTables
<1> HIDE DEF port
<1>2. CASE bindings'[q] = bindings[q]
    BY <1>2
<1>3. ASSUME NEW k \in 1 .. Len(bindings[q]), bindings'[q] = RemoveAt(bindings[q], k)
      PROVE  ToSet(bindings'[q]) \subseteq ToSet(bindings[q])
    <2>1. bindings[q] \in Seq(ManagedBinding)
        BY BindingsShape
    <2>2. \A x \in ToSet(RemoveAt(bindings[q], k)) : \E i \in 1 .. Len(bindings[q]) : x = bindings[q][i]
        BY <2>1, RemovedSet
    <2> QED
        BY <1>3, <2>1, <2>2, HasPlace
<1> QED
    BY <1>1, <1>2, <1>3

(* Only the socket whose Drop message it is can lose its binding: the      *)
(* binding asked for by the slot's address matches it, so it is the one    *)
(* that was served.                                                        *)
LEMMA OnlyOwnGoes ==
    ASSUME TypeOK, Apart, DrainHasSocket, PopDrop, NEW m, IsBound(m), m # Served(current)
    PROVE  IsBound(m)'
<1> DEFINE q == slots[m].port
           port == slots[current].port
<1>1. PICK k \in 1 .. Len(bindings[q]) : bindings[q][k].socket = m
    BY BoundPlace
<1>2. q \in Port /\ bindings[q] \in Seq(ManagedBinding) /\ ApartIn(bindings[q])
    BY BoundPlace, SlotShape, BindingsShape DEF Apart
<1>3. /\ \A other \in Port \ {port} : bindings'[other] = bindings[other]
      /\ \/ bindings'[port] = bindings[port]
         \/ \E i \in 1 .. Len(bindings[port]) :
               /\ bindings'[port] = RemoveAt(bindings[port], i)
               /\ bindings[port][i].original = slots[current].ip
    BY PopDropTables
<1>4. Served(current) = GetMut(bindings[port], slots[current].ip)
    BY DEF Served
<1> HIDE DEF q, port
<1>5. bindings[q][k] \in ToSet(bindings'[q])
    <2>1. CASE bindings'[q] = bindings[q]
        BY <1>2, <2>1, HasPlace
    <2>2. ASSUME NEW i \in 1 .. Len(bindings[q]), q = port,
                 bindings'[q] = RemoveAt(bindings[q], i),
                 bindings[q][i].original = slots[current].ip
          PROVE  bindings[q][k] \in ToSet(bindings'[q])
        <3>1. Served(current) = bindings[q][i].socket
            BY <1>2, <1>4, <2>2, GetMutOfOwn
        <3>2. i # k
            BY <1>1, <3>1
        <3> QED
            BY <1>2, <2>2, <3>2, RemovedSet
    <2> QED
        BY <1>2, <1>3, <2>1, <2>2
<1> QED
    BY <1>1, <1>2, <1>5 DEF IsBound

(* Where nobody asks for all addresses, it does lose it.                   *)
LEMMA OwnGoes ==
    ASSUME TypeOK, Apart, TargetsFit, OnlySpecific, DrainHasSocket, PopDrop,
           NEW n, n = Served(current)
    PROVE  ~IsBound(n)'
<1> DEFINE q == slots[current].port
           s == bindings[q]
<1>1. /\ current \in 1 .. Len(slots) /\ n \in 1 .. Len(slots) /\ n # NoSocket
      /\ q \in Port
    BY DrainShape, SlotShape DEF PopDrop, NoSocket
<1>2. PICK k \in 1 .. Len(s) : n = s[k].socket /\ Matches(s[k], slots[current].ip)
    BY <1>1, ServedIsBound
<1>3. /\ s \in Seq(ManagedBinding) /\ ApartIn(s) /\ s[k] \in ToSet(s)
      /\ slots[n] = [ip |-> s[k].original, port |-> q]
    BY <1>1, <1>2, BindingsShape, HasPlace DEF Apart
<1>4. s[k].original = slots[current].ip
    <2>1. ~IsUnspecified(s[k].original)
        BY <1>1, <1>3 DEF OnlySpecific
    <2>2. s[k].target = "specific"
        BY <1>1, <1>3, <2>1 DEF TargetsFit, TargetFor
    <2> QED
        BY <1>2, <2>2 DEF Matches
<1>5. /\ \A other \in Port \ {q} : bindings'[other] = bindings[other]
      /\ \/ /\ bindings'[q] = s
            /\ \A i \in 1 .. Len(s) : s[i].original # slots[current].ip
         \/ \E i \in 1 .. Len(s) :
               bindings'[q] = RemoveAt(s, i) /\ s[i].original = slots[current].ip
    BY PopDropTables
<1>6. bindings'[q] = RemoveAt(s, k)
    BY <1>3, <1>4, <1>5 DEF ApartIn
<1>7. ASSUME NEW p \in Port, NEW b \in ToSet(bindings'[p]), b.socket = n
      PROVE  FALSE
    <2>1. b \in ToSet(bindings[p])
        BY PopDropKeeps
    <2>2. slots[n] = [ip |-> b.original, port |-> p]
        BY <1>7, <2>1 DEF TypeOK
    <2>3. p = q /\ b.original = s[k].original
        BY <1>3, <2>2
    <2>4. PICK i \in 1 .. Len(s) : i # k /\ b = s[i]
        BY <1>3, <1>6, <1>7, <2>3, RemovedSet
    <2> QED
        BY <1>3, <2>3, <2>4 DEF ApartIn
<1> QED
    BY <1>7 DEF IsBound

-----------------------------------------------------------------------------
(* The invariant is inductive *)

(* All of TypeOK but the tables.                                           *)
Shapes ==
    /\ ready \subseteq 1 .. Len(slots)
    /\ user \in [Slot -> {"unbound", "open", "mark", "mark_drop", "closed"}]
    /\ ring \in [Slot -> Seq({"data", "drop"})]
    /\ data \in 0 .. MaxData
    /\ worker \in {"control", "capture", "drain", "drain_socket"}
    /\ word \in 0 .. LastWord
    /\ captured \subseteq 1 .. Len(slots)
    /\ current \in 0 .. Len(slots)
    /\ worker = "drain_socket" => current # 0
    /\ removed \subseteq 1 .. Len(slots)
    /\ answer \in {"none", "ok", "unsupported", "in_use", "no_slot"}

TablesFit ==
    /\ TablesTypeOK
    /\ Len(slots) <= Slots
    /\ \A port \in Port : \A b \in ToSet(bindings[port]) :
          /\ b.socket \in 1 .. Len(slots)
          /\ slots[b.socket] = [ip |-> b.original, port |-> port]

LEMMA TypeIsItsParts == TypeOK <=> Shapes /\ TablesFit
BY DEF TypeOK, Shapes, TablesFit

Fails(ip, port) == BindUnsupported(ip) \/ BindInUse(ip, port) \/ BindNoSlot(ip, port)

(* Only a bind and a Drop message touch the tables.                        *)
LEMMA TableSteps ==
    ASSUME [Next]_vars
    PROVE  \/ \E ip \in Requested, port \in Port : Bind(ip, port)
           \/ PopDrop
           \/ UNCHANGED <<bindings, slots>>
<1>1. ASSUME NEW ip \in Requested, NEW port \in Port, Fails(ip, port)
      PROVE  UNCHANGED <<bindings, slots>>
    BY <1>1 DEF Fails, BindUnsupported, BindInUse, BindNoSlot, BindFails
<1>2. ASSUME NEW m \in Slot, User(m)
      PROVE  UNCHANGED <<bindings, slots>>
    BY <1>2 DEF User, Push, PushDrop, LoseDrop, Mark
<1>3. ASSUME NEW slot \in Slot, TakeBit(slot)
      PROVE  UNCHANGED <<bindings, slots>>
    BY <1>3 DEF TakeBit
<1>4. CASE EndControl \/ SwapWord \/ PopData \/ PopNothing \/ EndDrain
    BY <1>4 DEF EndControl, SwapWord, PopData, PopNothing, EndDrain
<1>5. CASE UNCHANGED vars
    BY <1>5 DEF vars
<1> QED
    BY <1>1, <1>2, <1>3, <1>4, <1>5 DEF Next, Control, ProcessBuffers, Fails

LEMMA LookupStays ==
    ASSUME UNCHANGED <<bindings, slots>>
    PROVE  /\ \A m : Served(m)' = Served(m)
           /\ \A m : IsBound(m)' <=> IsBound(m)
           /\ Len(slots') = Len(slots)
<1>1. bindings' = bindings /\ slots' = slots
    OBVIOUS
<1>2. ASSUME NEW m PROVE Served(m)' = Served(m)
    BY <1>1 DEF Served
<1>3. ASSUME NEW m PROVE IsBound(m)' <=> IsBound(m)
    BY <1>1 DEF IsBound
<1> QED
    BY <1>1, <1>2, <1>3

LEMMA TablesFitStep == IInv /\ [Next]_vars => TablesFit'
<1> SUFFICES ASSUME IInv, [Next]_vars PROVE TablesFit'
    OBVIOUS
<1>0. TypeOK /\ DrainHasSocket /\ TablesFit
    BY TypeIsItsParts DEF IInv
<1>1. ASSUME NEW ip \in Requested, NEW port \in Port, Bind(ip, port)
      PROVE  TablesFit'
    <2> DEFINE n == Len(slots) + 1
               b == Binding(ip, TRUE, FALSE, n)
    <2>1. /\ n \in Slot
          /\ slots' \in Seq([ip : Requested, port : Port])
          /\ Len(slots') = n
          /\ \A m \in 1 .. Len(slots) : slots'[m] = slots[m]
          /\ slots'[n] = [ip |-> ip, port |-> port]
          /\ b \in ManagedBinding
          /\ bindings' \in [Port -> Seq(ManagedBinding)]
          /\ \A other \in Port \ {port} : bindings'[other] = bindings[other]
          /\ bindings'[port] = Append(bindings[port], b)
        BY <1>0, <1>1, BindTables
    <2>2. b.socket = n /\ b.original = ip
        BY DEF Binding
    <2>3. Len(slots) \in Nat
        BY <1>0, SlotShape
    <2>4. n \in 1 .. n /\ \A m \in 1 .. Len(slots) : m \in 1 .. n
        BY <2>3
    <2>5. n <= Slots
        BY <2>1, ManagerAssumption DEF Slot
    <2> HIDE DEF b, n
    <2>6. ToSet(bindings'[port]) = ToSet(bindings[port]) \cup {b}
        BY <1>0, <2>1, BindingsShape, AppendedSet
    <2>7. ASSUME NEW q \in Port, NEW x \in ToSet(bindings'[q])
          PROVE  x.socket \in 1 .. n /\ slots'[x.socket] = [ip |-> x.original, port |-> q]
        <3>1. CASE x \in ToSet(bindings[q])
            BY <1>0, <2>1, <2>4, <3>1 DEF TablesFit
        <3>2. CASE q = port /\ x = b
            BY <2>1, <2>2, <2>4, <3>2
        <3> QED
            BY <2>1, <2>6, <2>7, <3>1, <3>2
    <2> QED
        BY <2>1, <2>5, <2>7 DEF TablesFit, TablesTypeOK
<1>2. CASE PopDrop
    <2>1. /\ bindings' \in [Port -> Seq(ManagedBinding)]
          /\ \A q \in Port : ToSet(bindings'[q]) \subseteq ToSet(bindings[q])
          /\ slots' = slots
        BY <1>0, <1>2, PopDropTables, PopDropKeeps DEF PopDrop
    <2> QED
        BY <1>0, <2>1 DEF TablesFit, TablesTypeOK
<1>3. CASE UNCHANGED <<bindings, slots>>
    BY <1>0, <1>3 DEF TablesFit, TablesTypeOK
<1> QED
    BY <1>1, <1>2, <1>3, TableSteps

LEMMA ApartStep == IInv /\ [Next]_vars => Apart'
<1> SUFFICES ASSUME IInv, [Next]_vars PROVE Apart'
    OBVIOUS
<1>0. TypeOK /\ DrainHasSocket /\ Apart
    BY DEF IInv
<1>1. ASSUME NEW ip \in Requested, NEW port \in Port, Bind(ip, port)
      PROVE  Apart'
    <2> DEFINE b == Binding(ip, TRUE, FALSE, Len(slots) + 1)
               s == bindings[port]
               t == Append(s, b)
    <2>1. /\ b \in ManagedBinding
          /\ \A other \in Port \ {port} : bindings'[other] = bindings[other]
          /\ bindings'[port] = t
        BY <1>0, <1>1, BindTables
    <2>2. s \in Seq(ManagedBinding) /\ ApartIn(s) /\ Len(s) \in Nat
        BY <1>0, BindingsShape, LenProperties DEF Apart
    <2>3. Rivals(s, ip, TRUE) = {}
        BY <1>1 DEF Bind, Bindable, IsBindable, IsBindableExclusive
    <2>4. b.original = ip /\ b.target = IF IsUnspecified(ip) THEN "any" ELSE "specific"
        BY DEF Binding, TargetFor
    <2>5. /\ Len(t) = Len(s) + 1
          /\ \A k \in 1 .. Len(s) : t[k] = s[k]
          /\ t[Len(s) + 1] = b
        <3> HIDE DEF b, s
        <3> QED
            BY <2>1, <2>2, AppendedSet
    <2>6. ASSUME NEW k \in 1 .. Len(s)
          PROVE  /\ s[k].target = "specific" /\ s[k].original # ip
                 /\ b.target = "specific"
        <3>0. s[k] \in ToSet(s) /\ s[k] \in ManagedBinding
            <4> HIDE DEF s
            <4> QED
                BY <2>2, HasPlace
        <3>1. s[k] \in ToSet(s) /\ s[k].target \in {"any", "specific"}
            BY <3>0 DEF ManagedBinding
        <3>2. ~IsUnspecified(ip) /\ ~Matches(s[k], ip)
            BY <2>3, <3>1 DEF Rivals
        <3> QED
            BY <2>4, <3>1, <3>2 DEF Matches
    <2> HIDE DEF b, s, t
    <2>7. ApartIn(t)
        <3> SUFFICES ASSUME NEW i \in 1 .. Len(t), NEW j \in 1 .. Len(t), i # j
                     PROVE  t[i].target = "specific" /\ t[i].original # t[j].original
            BY DEF ApartIn
        <3>1. CASE i = Len(s) + 1
            <4>1. j \in 1 .. Len(s)
                BY <2>2, <2>5, <3>1
            <4> QED
                BY <2>4, <2>5, <2>6, <3>1, <4>1
        <3>2. CASE j = Len(s) + 1
            <4>1. i \in 1 .. Len(s)
                BY <2>2, <2>5, <3>2
            <4> QED
                BY <2>4, <2>5, <2>6, <3>2, <4>1
        <3>3. CASE i # Len(s) + 1 /\ j # Len(s) + 1
            <4>1. i \in 1 .. Len(s) /\ j \in 1 .. Len(s)
                BY <2>2, <2>5, <3>3
            <4> QED
                BY <2>2, <2>5, <4>1 DEF ApartIn
        <3> QED
            BY <3>1, <3>2, <3>3
    <2> QED
        BY <1>0, <2>1, <2>7 DEF Apart
<1>2. CASE PopDrop
    <2> SUFFICES ASSUME NEW q \in Port PROVE ApartIn(bindings'[q])
        BY DEF Apart
    <2>1. bindings[q] \in Seq(ManagedBinding) /\ ApartIn(bindings[q]) /\ Len(bindings[q]) \in Nat
        BY <1>0, BindingsShape, LenProperties DEF Apart
    <2>2. \/ bindings'[q] = bindings[q]
          \/ \E k \in 1 .. Len(bindings[q]) : bindings'[q] = RemoveAt(bindings[q], k)
        BY <1>0, <1>2, PopDropTables
    <2>3. ASSUME NEW k \in 1 .. Len(bindings[q]), bindings'[q] = RemoveAt(bindings[q], k)
          PROVE  ApartIn(bindings'[q])
        <3> DEFINE s == bindings[q]
                   t == RemoveAt(s, k)
                   From(i) == IF i < k THEN i ELSE i + 1
        <3>1. /\ Len(t) = Len(s) - 1
              /\ \A i \in 1 .. Len(s) - 1 : t[i] = s[From(i)]
            BY <2>1, RemoveAtProperties
        <3>2. k \in Nat /\ s \in Seq(ManagedBinding) /\ ApartIn(s) /\ Len(s) \in Nat
            BY <2>1
        <3> HIDE DEF s, t
        <3>3. ASSUME NEW i \in 1 .. Len(t), NEW j \in 1 .. Len(t), i # j
              PROVE  t[i].target = "specific" /\ t[i].original # t[j].original
            <4>1. /\ From(i) \in 1 .. Len(s) /\ From(j) \in 1 .. Len(s)
                  /\ From(i) # From(j)
                BY <3>1, <3>2, <3>3
            <4>2. t[i] = s[From(i)] /\ t[j] = s[From(j)]
                BY <3>1
            <4> HIDE DEF From
            <4> QED
                BY <3>2, <4>1, <4>2 DEF ApartIn
        <3> QED
            BY <2>3, <3>3 DEF ApartIn, s, t
    <2> QED
        BY <2>1, <2>2, <2>3
<1>3. CASE UNCHANGED <<bindings, slots>>
    BY <1>0, <1>3 DEF Apart
<1> QED
    BY <1>1, <1>2, <1>3, TableSteps

LEMMA TargetsStep == IInv /\ [Next]_vars => TargetsFit'
<1> SUFFICES ASSUME IInv, [Next]_vars PROVE TargetsFit'
    OBVIOUS
<1>0. TypeOK /\ DrainHasSocket /\ TargetsFit
    BY DEF IInv
<1>1. ASSUME NEW ip \in Requested, NEW port \in Port, Bind(ip, port)
      PROVE  TargetsFit'
    <2> DEFINE b == Binding(ip, TRUE, FALSE, Len(slots) + 1)
    <2>1. /\ b \in ManagedBinding
          /\ \A other \in Port \ {port} : bindings'[other] = bindings[other]
          /\ bindings'[port] = Append(bindings[port], b)
        BY <1>0, <1>1, BindTables
    <2>2. b.target = TargetFor(b.original, TRUE)
        BY DEF Binding
    <2> HIDE DEF b
    <2>3. ToSet(bindings'[port]) = ToSet(bindings[port]) \cup {b}
        BY <1>0, <2>1, BindingsShape, AppendedSet
    <2> QED
        BY <1>0, <2>1, <2>2, <2>3 DEF TargetsFit
<1>2. CASE PopDrop
    <2>1. \A q \in Port : ToSet(bindings'[q]) \subseteq ToSet(bindings[q])
        BY <1>0, <1>2, PopDropKeeps
    <2> QED
        BY <1>0, <2>1 DEF TargetsFit
<1>3. CASE UNCHANGED <<bindings, slots>>
    BY <1>0, <1>3 DEF TargetsFit
<1> QED
    BY <1>1, <1>2, <1>3, TableSteps

(* The other variables, step by step.                                      *)
LEMMA ShapesStep == IInv /\ [Next]_vars => Shapes'
<1> SUFFICES ASSUME IInv, [Next]_vars PROVE Shapes'
    OBVIOUS
<1>0. TypeOK /\ Shapes /\ FreshSlots /\ DrainHasSocket /\ Len(slots) \in Nat
    BY TypeIsItsParts, SlotShape DEF IInv
<1>00. LastWord \in Nat
    BY ManagerAssumption DEF LastWord, WordOf
<1>1. ASSUME NEW ip \in Requested, NEW port \in Port, Bind(ip, port)
      PROVE  Shapes'
    <2>1. Len(slots') = Len(slots) + 1 /\ Len(slots) + 1 \in Slot
        BY <1>0, <1>1, BindTables
    <2>2. 1 .. Len(slots) \subseteq 1 .. Len(slots') /\ 0 .. Len(slots) \subseteq 0 .. Len(slots')
        BY <1>0, <2>1
    <2>3. /\ user' = [user EXCEPT ![Len(slots) + 1] = "open"] /\ answer' = "ok"
          /\ UNCHANGED <<ready, data, ring, worker, word, captured, current, removed>>
        BY <1>1 DEF Bind, workerVars
    <2>4. user' \in [Slot -> {"unbound", "open", "mark", "mark_drop", "closed"}]
        BY <1>0, <2>1, <2>3 DEF Shapes
    <2> QED
        BY <1>0, <2>2, <2>3, <2>4 DEF Shapes
<1>2. ASSUME NEW ip \in Requested, NEW port \in Port, Fails(ip, port)
      PROVE  Shapes'
    BY <1>0, <1>2
       DEF Shapes, Fails, BindUnsupported, BindInUse, BindNoSlot, BindFails, workerVars, userVars
<1>3. CASE EndControl
    BY <1>0, <1>00, <1>3 DEF Shapes, EndControl, userVars
<1>4. ASSUME NEW n \in Slot, User(n)
      PROVE  Shapes'
    <2>1. CASE Push(n)
        BY <1>0, <2>1, ManagerAssumption DEF Shapes, Push, workerVars
    <2>2. CASE PushDrop(n)
        BY <1>0, <2>2 DEF Shapes, PushDrop, workerVars
    <2>3. CASE LoseDrop(n)
        BY <1>0, <2>3 DEF Shapes, LoseDrop, workerVars
    <2>4. CASE Mark(n)
        <3>1. n \in 1 .. Len(slots)
            BY <1>0, <2>4 DEF FreshSlots, Mark, Slot
        <3> QED
            BY <1>0, <2>4, <3>1 DEF Shapes, Mark, workerVars
    <2> QED
        BY <1>4, <2>1, <2>2, <2>3, <2>4 DEF User
<1>5. CASE SwapWord
    <2>1. word' \in 0 .. LastWord
        BY <1>0, <1>00, <1>5 DEF Shapes, SwapWord
    <2>2. ready' \subseteq ready /\ captured' \subseteq captured \cup ready
        BY <1>5 DEF SwapWord
    <2>3. worker' \in {"capture", "drain"}
        BY <1>5 DEF SwapWord
    <2>4. UNCHANGED <<slots, user, data, ring, current, removed, answer>>
        BY <1>5 DEF SwapWord, userVars
    <2> QED
        BY <1>0, <2>1, <2>2, <2>3, <2>4 DEF Shapes
<1>6. ASSUME NEW slot \in Slot, TakeBit(slot)
      PROVE  Shapes'
    BY <1>0, <1>6 DEF Shapes, TakeBit, userVars
<1>7. CASE PopData
    <2>1. Served(current) \in Slot
        BY <1>0, <1>7, DrainShape DEF PopData
    <2> QED
        BY <1>0, <1>7, <2>1 DEF Shapes, PopData, userVars, workerVars
<1>8. CASE PopDrop
    <2>1. Served(current) \in Slot /\ Served(current) \in 1 .. Len(slots)
        BY <1>0, <1>8, DrainShape DEF PopDrop
    <2>2. ring[Served(current)] \in Seq({"data", "drop"}) /\ ring[Served(current)] # <<>>
        BY <1>0, <1>8, <2>1 DEF Shapes, PopDrop
    <2>3. ring' \in [Slot -> Seq({"data", "drop"})]
        <3>1. Tail(ring[Served(current)]) \in Seq({"data", "drop"})
            BY <2>2, HeadTailProperties
        <3>2. ring' = [ring EXCEPT ![Served(current)] = Tail(@)]
            BY <1>8 DEF PopDrop
        <3> QED
            BY <1>0, <3>1, <3>2 DEF Shapes
    <2>4. removed' \subseteq 1 .. Len(slots)
        BY <1>0, <1>8, <2>1 DEF Shapes, PopDrop
    <2>5. /\ worker' = "drain" /\ current' = 0
          /\ UNCHANGED <<slots, ready, user, data, word, captured, answer>>
        BY <1>8 DEF PopDrop, DrainEnds, userVars
    <2> QED
        BY <1>0, <2>3, <2>4, <2>5 DEF Shapes
<1>9. CASE PopNothing
    BY <1>0, <1>9 DEF Shapes, PopNothing, DrainEnds, userVars
<1>10. CASE EndDrain
    BY <1>0, <1>10 DEF Shapes, EndDrain, userVars
<1>11. CASE UNCHANGED vars
    BY <1>0, <1>11 DEF Shapes, vars, userVars, workerVars
<1> QED
    BY <1>1, <1>2, <1>3, <1>4, <1>5, <1>6, <1>7, <1>8, <1>9, <1>10, <1>11
       DEF Next, Control, ProcessBuffers, Fails

(* Rings and threads: who pushed what.                                     *)
LEMMA RingsStep == IInv /\ [Next]_vars => FreshSlots' /\ DropIsLast'
<1> SUFFICES ASSUME IInv, [Next]_vars PROVE FreshSlots' /\ DropIsLast'
    OBVIOUS
<1>0. /\ TypeOK /\ FreshSlots /\ DropIsLast /\ DrainHasSocket /\ Len(slots) \in Nat
      /\ user \in [Slot -> {"unbound", "open", "mark", "mark_drop", "closed"}]
      /\ ring \in [Slot -> Seq({"data", "drop"})]
    BY SlotShape DEF IInv, TypeOK
<1>1. ASSUME NEW ip \in Requested, NEW port \in Port, Bind(ip, port)
      PROVE  FreshSlots' /\ DropIsLast'
    <2>1. Len(slots') = Len(slots) + 1 /\ Len(slots) + 1 \in Slot
        BY <1>0, <1>1, BindTables
    <2>2. ring' = ring /\ user' = [user EXCEPT ![Len(slots) + 1] = "open"]
        BY <1>1 DEF Bind
    <2>3. ring[Len(slots) + 1] = <<>>
        BY <1>0, <2>1 DEF FreshSlots
    <2>4. FreshSlots'
        BY <1>0, <2>1, <2>2 DEF FreshSlots, Slot
    <2>5. DropIsLast'
        BY <1>0, <2>1, <2>2, <2>3 DEF DropIsLast
    <2> QED
        BY <2>4, <2>5
<1>2. ASSUME NEW ip \in Requested, NEW port \in Port, Fails(ip, port)
      PROVE  UNCHANGED <<slots, user, ring>>
    BY <1>2 DEF Fails, BindUnsupported, BindInUse, BindNoSlot, BindFails, userVars
<1>3. ASSUME NEW n \in Slot, User(n)
      PROVE  FreshSlots' /\ DropIsLast'
    <2>0. slots' = slots /\ ring[n] \in Seq({"data", "drop"}) /\ Len(ring[n]) \in Nat
        BY <1>0, <1>3, LenProperties DEF User, Push, PushDrop, LoseDrop, Mark
    <2>1. CASE Push(n)
        <3>1. user[n] = "open" /\ n <= Len(slots)
            BY <1>0, <2>1 DEF Push, FreshSlots, Slot
        <3>2. \A i \in 1 .. Len(ring[n]) : ring[n][i] # "drop"
            BY <1>0, <3>1 DEF DropIsLast
        <3>3. /\ ring' = [ring EXCEPT ![n] = Append(@, "data")]
              /\ user' = [user EXCEPT ![n] = "mark"]
            BY <2>1 DEF Push
        <3>4. /\ Len(Append(ring[n], "data")) = Len(ring[n]) + 1
              /\ \A k \in 1 .. Len(ring[n]) : Append(ring[n], "data")[k] = ring[n][k]
              /\ Append(ring[n], "data")[Len(ring[n]) + 1] = "data"
            BY <2>0, AppendedSet
        <3>5. \A i \in 1 .. Len(ring'[n]) : ring'[n][i] # "drop"
            BY <1>0, <2>0, <3>2, <3>3, <3>4
        <3> QED
            BY <1>0, <2>0, <3>1, <3>3, <3>5 DEF FreshSlots, DropIsLast
    <2>2. CASE PushDrop(n)
        <3>1. user[n] = "open" /\ n <= Len(slots)
            BY <1>0, <2>2 DEF PushDrop, FreshSlots, Slot
        <3>2. \A i \in 1 .. Len(ring[n]) : ring[n][i] # "drop"
            BY <1>0, <3>1 DEF DropIsLast
        <3>3. /\ ring' = [ring EXCEPT ![n] = Append(@, "drop")]
              /\ user' = [user EXCEPT ![n] = "mark_drop"]
            BY <2>2 DEF PushDrop
        <3>4. /\ Len(Append(ring[n], "drop")) = Len(ring[n]) + 1
              /\ \A k \in 1 .. Len(ring[n]) : Append(ring[n], "drop")[k] = ring[n][k]
            BY <2>0, AppendedSet
        <3>5. \A i \in 1 .. Len(ring'[n]) : ring'[n][i] = "drop" => i = Len(ring'[n])
            BY <1>0, <2>0, <3>2, <3>3, <3>4
        <3> QED
            BY <1>0, <2>0, <3>1, <3>3, <3>5 DEF FreshSlots, DropIsLast
    <2>3. CASE LoseDrop(n)
        BY <1>0, <2>0, <2>3 DEF LoseDrop, FreshSlots, DropIsLast
    <2>4. CASE Mark(n)
        BY <1>0, <2>0, <2>4 DEF Mark, FreshSlots, DropIsLast
    <2> QED
        BY <1>3, <2>1, <2>2, <2>3, <2>4 DEF User
<1>4. ASSUME PopData \/ PopDrop
      PROVE  FreshSlots' /\ DropIsLast'
    <2> DEFINE n == Served(current)
    <2>1. n \in Slot /\ n \in 1 .. Len(slots)
        BY <1>0, <1>4, DrainShape DEF PopData, PopDrop
    <2>2. /\ slots' = slots /\ user' = user /\ ring[n] # <<>>
          /\ ring' = [ring EXCEPT ![n] = Tail(@)]
        BY <1>4 DEF PopData, PopDrop, userVars
    <2> HIDE DEF n
    <2>3. ring[n] \in Seq({"data", "drop"}) /\ Len(ring[n]) \in Nat
        BY <1>0, <2>1, LenProperties
    <2>4. /\ Len(Tail(ring[n])) = Len(ring[n]) - 1
          /\ \A i \in 1 .. Len(ring[n]) - 1 : Tail(ring[n])[i] = ring[n][i + 1]
        BY <2>2, <2>3, HeadTailProperties
    <2>5. ring'[n] = Tail(ring[n])
        BY <1>0, <2>1, <2>2
    <2>6. ASSUME NEW i \in 1 .. Len(ring'[n]), ring'[n][i] = "drop"
          PROVE  i = Len(ring'[n]) /\ user[n] \in {"mark_drop", "closed"}
        <3>1. i + 1 \in 1 .. Len(ring[n]) /\ ring[n][i + 1] = "drop"
            BY <2>3, <2>4, <2>5, <2>6
        <3>2. i + 1 = Len(ring[n]) /\ user[n] \in {"mark_drop", "closed"}
            BY <1>0, <2>1, <3>1 DEF DropIsLast
        <3> QED
            BY <2>3, <2>4, <2>5, <2>6, <3>2
    <2> QED
        BY <1>0, <2>1, <2>2, <2>6 DEF FreshSlots, DropIsLast
<1>5. ASSUME NEW slot \in Slot, TakeBit(slot)
      PROVE  UNCHANGED <<slots, user, ring>>
    BY <1>5 DEF TakeBit, userVars
<1>6. CASE EndControl \/ SwapWord \/ PopNothing \/ EndDrain \/ UNCHANGED vars
    <2> UNCHANGED <<slots, user, ring>>
        BY <1>6 DEF EndControl, SwapWord, PopNothing, EndDrain, vars, userVars
    <2> QED
        BY <1>0 DEF FreshSlots, DropIsLast
<1>7. CASE UNCHANGED <<slots, user, ring>>
    BY <1>0, <1>7 DEF FreshSlots, DropIsLast
<1> QED
    BY <1>1, <1>2, <1>3, <1>4, <1>5, <1>6, <1>7 DEF Next, Control, ProcessBuffers, Fails

(* A slot that is drained has a socket, up to the Drop message.            *)
LEMMA DrainStep == IInv /\ [Next]_vars => DrainHasSocket'
<1> SUFFICES ASSUME IInv, [Next]_vars, worker' = "drain_socket"
             PROVE  Served(current)' \in 1 .. Len(slots')
    BY DEF DrainHasSocket
<1>0. TypeOK /\ DrainHasSocket /\ Len(slots) \in Nat /\ captured \subseteq 1 .. Len(slots)
    BY SlotShape DEF IInv, TypeOK
<1>1. ASSUME NEW slot \in Slot, TakeBit(slot)
      PROVE  Served(current)' \in 1 .. Len(slots')
    <2>1. /\ slot \in 1 .. Len(slots) /\ Served(slot) # NoSocket
          /\ current' = slot /\ UNCHANGED <<bindings, slots>>
        BY <1>0, <1>1 DEF TakeBit
    <2>2. Served(slot) \in 1 .. Len(slots)
        BY <1>0, <2>1, ServedIsBound
    <2>3. Served(current)' = Served(slot)
        BY <2>1 DEF Served
    <2> QED
        BY <2>1, <2>2, <2>3
<1>2. CASE UNCHANGED <<bindings, slots, worker, current>>
    <2>1. Served(current)' = Served(current)
        BY <1>2 DEF Served
    <2> QED
        BY <1>0, <1>2, <2>1 DEF DrainHasSocket
<1>3. ASSUME NEW ip \in Requested, NEW port \in Port, Bind(ip, port)
      PROVE  FALSE
    BY <1>3 DEF Bind, workerVars
<1>4. ASSUME NEW ip \in Requested, NEW port \in Port, Fails(ip, port)
      PROVE  UNCHANGED <<bindings, slots, worker, current>>
    BY <1>4 DEF Fails, BindUnsupported, BindInUse, BindNoSlot, BindFails, workerVars
<1>5. ASSUME NEW n \in Slot, User(n)
      PROVE  UNCHANGED <<bindings, slots, worker, current>>
    BY <1>5 DEF User, Push, PushDrop, LoseDrop, Mark, workerVars
<1>6. ~PopDrop /\ ~PopNothing /\ ~EndDrain /\ ~EndControl /\ ~SwapWord
    BY DEF PopDrop, PopNothing, EndDrain, EndControl, SwapWord, DrainEnds
<1>7. CASE PopData \/ UNCHANGED vars
    BY <1>2, <1>7 DEF PopData, vars, workerVars
<1> QED
    BY <1>1, <1>2, <1>3, <1>4, <1>5, <1>6, <1>7 DEF Next, Control, ProcessBuffers, Fails

(* Nothing is behind the Drop message in a ring.                           *)
LEMMA DropEmptiesRing ==
    ASSUME DropIsLast, ring \in [Slot -> Seq({"data", "drop"})],
           NEW n \in Slot, ring[n] # <<>>, Head(ring[n]) = "drop",
           ring' = [ring EXCEPT ![n] = Tail(@)]
    PROVE  ring'[n] = <<>>
<1>1. ring[n] \in Seq({"data", "drop"}) /\ Len(ring[n]) \in Nat /\ Len(ring[n]) # 0
    BY LenProperties, EmptySeq
<1>2. ring[n][1] = "drop"
    BY <1>1, HeadTailProperties
<1>3. Len(ring[n]) = 1
    <2>1. 1 \in 1 .. Len(ring[n])
        BY <1>1
    <2> QED
        BY <1>2, <2>1 DEF DropIsLast
<1>4. Tail(ring[n]) \in Seq({"data", "drop"}) /\ Len(Tail(ring[n])) = 0
    BY <1>1, <1>3, HeadTailProperties
<1>5. Tail(ring[n]) = <<>>
    BY <1>4, EmptySeq
<1> QED
    BY <1>5

(* What is announced stays announced until it is drained.                  *)
LEMMA OnTheWayStep == IInv /\ [Next]_vars => OnTheWay'
<1> SUFFICES ASSUME IInv, [Next]_vars,
                    NEW n \in 1 .. Len(slots'), IsBound(n)', ring'[n] # <<>>
             PROVE  \/ user'[n] \in {"mark", "mark_drop"}
                    \/ n \in ready' \cup captured'
                    \/ worker' = "drain_socket" /\ Served(current)' = n
    BY DEF OnTheWay
<1> DEFINE Goal == \/ user'[n] \in {"mark", "mark_drop"}
                   \/ n \in ready' \cup captured'
                   \/ worker' = "drain_socket" /\ Served(current)' = n
           Announced == \/ user[n] \in {"mark", "mark_drop"}
                        \/ n \in ready \cup captured
                        \/ worker = "drain_socket" /\ Served(current) = n
<1>0. /\ TypeOK /\ Apart /\ FreshSlots /\ DropIsLast /\ OnTheWay /\ DrainHasSocket
      /\ Len(slots) \in Nat
      /\ user \in [Slot -> {"unbound", "open", "mark", "mark_drop", "closed"}]
      /\ ring \in [Slot -> Seq({"data", "drop"})]
    BY SlotShape DEF IInv, TypeOK
<1>1. ASSUME NEW ip \in Requested, NEW port \in Port, Bind(ip, port)
      PROVE  Goal
    <2>1. Len(slots) + 1 \in Slot /\ Len(slots') = Len(slots) + 1
        BY <1>0, <1>1, BindTables
    <2>2. /\ ring' = ring /\ ready' = ready /\ captured' = captured /\ worker = "control"
          /\ user' = [user EXCEPT ![Len(slots) + 1] = "open"]
        BY <1>1 DEF Bind, workerVars
    <2>3. n # Len(slots) + 1
        BY <1>0, <2>1, <2>2 DEF FreshSlots
    <2>4. n \in 1 .. Len(slots) /\ n \in Slot /\ IsBound(n)
        BY <1>0, <1>1, <2>1, <2>3, SlotShape, BindBinds
    <2> QED
        BY <1>0, <2>1, <2>2, <2>3, <2>4 DEF OnTheWay
<1>2. CASE PopDrop
    <2>0. /\ slots' = slots /\ n \in 1 .. Len(slots) /\ n \in Slot
        BY <1>0, <1>2, SlotShape DEF PopDrop
    <2>1. IsBound(n)
        BY <1>0, <1>2, PopDropKeeps DEF IsBound
    <2>2. PICK m : m = Served(current)
        OBVIOUS
    <2>3. /\ UNCHANGED <<user, ready, captured>>
          /\ ring[m] # <<>> /\ Head(ring[m]) = "drop"
          /\ ring' = [ring EXCEPT ![m] = Tail(@)]
        BY <1>2, <2>2 DEF PopDrop, userVars
    <2>4. CASE m # n
        <3>1. ring'[n] = ring[n]
            BY <1>0, <2>0, <2>3, <2>4
        <3> QED
            BY <1>0, <2>0, <2>1, <2>2, <2>3, <2>4, <3>1 DEF OnTheWay
    <2>5. CASE m = n
        BY <1>0, <2>0, <2>3, <2>5, DropEmptiesRing
    <2> QED
        BY <2>4, <2>5
<1>3. CASE UNCHANGED <<bindings, slots>>
    <2>0. /\ n \in 1 .. Len(slots) /\ n \in Slot /\ IsBound(n)
          /\ \A m : Served(m)' = Served(m)
        BY <1>0, <1>3, SlotShape, LookupStays
    <2>1. ring[n] # <<>> => Announced
        BY <1>0, <2>0 DEF OnTheWay
    <2>2. ASSUME NEW ip \in Requested, NEW port \in Port, Fails(ip, port)
          PROVE  UNCHANGED <<user, ring, ready, captured, worker, current>>
        BY <2>2 DEF Fails, BindUnsupported, BindInUse, BindNoSlot, BindFails, workerVars, userVars
    <2>3. ASSUME NEW m \in Slot, User(m)
          PROVE  Goal
        <3>1. UNCHANGED <<captured, worker, current>> /\ ready \subseteq ready'
            BY <2>3 DEF User, Push, PushDrop, LoseDrop, Mark, workerVars
        <3>2. Served(current)' = Served(current)
            BY <1>3, <3>1 DEF Served
        <3>3. CASE m # n
            <4>1. user'[n] = user[n] /\ ring'[n] = ring[n]
                BY <1>0, <2>0, <2>3, <3>3 DEF User, Push, PushDrop, LoseDrop, Mark
            <4> QED
                BY <2>1, <3>1, <3>2, <4>1
        <3>4. CASE m = n
            <4>1. CASE Push(n) \/ PushDrop(n)
                BY <1>0, <2>0, <4>1 DEF Push, PushDrop
            <4>2. CASE LoseDrop(n)
                <5>1. user[n] = "open" /\ ring' = ring /\ ready' = ready
                    BY <4>2 DEF LoseDrop
                <5> QED
                    BY <2>1, <3>1, <3>2, <5>1
            <4>3. CASE Mark(n)
                BY <4>3 DEF Mark
            <4> QED
                BY <2>3, <3>4, <4>1, <4>2, <4>3 DEF User
        <3> QED
            BY <3>3, <3>4
    <2>4. CASE SwapWord
        <3>1. /\ UNCHANGED <<user, ring>> /\ worker = "capture"
              /\ ready' \cup captured' = ready \cup captured
            BY <2>4 DEF SwapWord, userVars
        <3> QED
            BY <2>1, <3>1
    <2>5. ASSUME NEW slot \in Slot, TakeBit(slot)
          PROVE  Goal
        <3>1. /\ UNCHANGED <<user, ring, ready>> /\ worker = "drain"
              /\ captured' = captured \ {slot}
            BY <2>5 DEF TakeBit, userVars
        <3>2. CASE slot # n
            BY <2>1, <3>1, <3>2
        <3>3. CASE slot = n
            <4>1. Served(n) = n /\ n # NoSocket
                BY <1>0, <2>0, OwnServed DEF NoSocket
            <4>2. worker' = "drain_socket" /\ current' = n
                BY <2>5, <3>3, <4>1 DEF TakeBit
            <4>3. Served(current)' = Served(n)
                BY <1>3, <4>2 DEF Served
            <4> QED
                BY <4>1, <4>2, <4>3
        <3> QED
            BY <3>2, <3>3
    <2>6. CASE PopData
        <3>1. /\ UNCHANGED <<user, ready, captured, worker, current>> /\ worker = "drain_socket"
              /\ ring' = [ring EXCEPT ![Served(current)] = Tail(@)]
            BY <2>6 DEF PopData, userVars, workerVars
        <3>2. Served(current)' = Served(current)
            BY <1>3, <3>1 DEF Served
        <3>3. CASE Served(current) = n
            BY <3>1, <3>2, <3>3
        <3>4. CASE Served(current) # n
            <4>1. ring'[n] = ring[n]
                BY <1>0, <2>0, <3>1, <3>4
            <4> QED
                BY <2>1, <3>1, <3>2, <4>1
        <3> QED
            BY <3>3, <3>4
    <2>7. CASE PopNothing
        <3>1. /\ UNCHANGED <<user, ring, ready, captured>>
              /\ ring[Served(current)] = <<>>
            BY <2>7 DEF PopNothing, userVars
        <3> QED
            BY <2>1, <3>1
    <2>8. CASE EndControl \/ EndDrain
        <3>1. /\ UNCHANGED <<user, ring, ready, captured>> /\ worker # "drain_socket"
            BY <2>8 DEF EndControl, EndDrain, userVars
        <3> QED
            BY <2>1, <3>1
    <2>9. CASE UNCHANGED <<user, ring, ready, captured, worker, current>>
        <3>1. Served(current)' = Served(current)
            BY <1>3, <2>9 DEF Served
        <3> QED
            BY <2>1, <2>9, <3>1
    <2>10. CASE UNCHANGED vars
        BY <2>9, <2>10 DEF vars, userVars, workerVars
    <2> QED
        BY <1>1, <1>2, <2>2, <2>3, <2>4, <2>5, <2>6, <2>7, <2>8, <2>9, <2>10
           DEF Next, Control, ProcessBuffers, Fails
<1> QED
    BY <1>1, <1>2, <1>3, TableSteps

(* A socket that was dropped and removed is not bound again: slots are     *)
(* taken once.                                                             *)
LEMMA RemovedStep == IInv /\ [Next]_vars => RemovedAreGone'
<1> SUFFICES ASSUME IInv, [Next]_vars, OnlySpecific', NEW n \in removed'
             PROVE  ~IsBound(n)'
    BY DEF RemovedAreGone
<1>0. /\ TypeOK /\ Apart /\ TargetsFit /\ DrainHasSocket /\ RemovedAreGone
      /\ Len(slots) \in Nat /\ removed \subseteq 1 .. Len(slots)
    BY SlotShape DEF IInv, TypeOK
<1>1. ASSUME NEW ip \in Requested, NEW port \in Port, Bind(ip, port)
      PROVE  ~IsBound(n)'
    <2>1. /\ Len(slots') = Len(slots) + 1
          /\ \A m \in 1 .. Len(slots) : slots'[m] = slots[m]
        BY <1>0, <1>1, BindTables
    <2>2. n \in removed /\ n # Len(slots) + 1
        BY <1>0, <1>1 DEF Bind
    <2>3. \A m \in 1 .. Len(slots) : m \in 1 .. Len(slots')
        BY <1>0, <2>1
    <2>4. OnlySpecific
        BY <2>1, <2>3 DEF OnlySpecific
    <2> QED
        BY <1>0, <1>1, <2>2, <2>4, BindBinds DEF RemovedAreGone
<1>2. CASE PopDrop
    <2>1. /\ slots' = slots
          /\ n \in removed \/ n = Served(current)
        BY <1>2 DEF PopDrop
    <2>2. OnlySpecific
        BY <2>1 DEF OnlySpecific
    <2>3. CASE n = Served(current)
        BY <1>0, <1>2, <2>2, <2>3, OwnGoes
    <2>4. CASE n \in removed
        <3>1. ~IsBound(n)
            BY <1>0, <2>2, <2>4 DEF RemovedAreGone
        <3>2. \A q \in Port : ToSet(bindings'[q]) \subseteq ToSet(bindings[q])
            BY <1>0, <1>2, PopDropKeeps
        <3> QED
            BY <3>1, <3>2 DEF IsBound
    <2> QED
        BY <2>1, <2>3, <2>4
<1>3. CASE UNCHANGED <<bindings, slots, removed>>
    BY <1>0, <1>3, LookupStays DEF RemovedAreGone, OnlySpecific
<1>4. ASSUME NEW ip \in Requested, NEW port \in Port, Fails(ip, port)
      PROVE  UNCHANGED <<bindings, slots, removed>>
    BY <1>4 DEF Fails, BindUnsupported, BindInUse, BindNoSlot, BindFails
<1>5. ASSUME NEW m \in Slot, User(m)
      PROVE  UNCHANGED <<bindings, slots, removed>>
    BY <1>5 DEF User, Push, PushDrop, LoseDrop, Mark
<1>6. ASSUME NEW slot \in Slot, TakeBit(slot)
      PROVE  UNCHANGED <<bindings, slots, removed>>
    BY <1>6 DEF TakeBit
<1>7. CASE EndControl \/ SwapWord \/ PopData \/ PopNothing \/ EndDrain
    BY <1>3, <1>7 DEF EndControl, SwapWord, PopData, PopNothing, EndDrain
<1>8. CASE UNCHANGED vars
    BY <1>3, <1>8 DEF vars
<1> QED
    BY <1>1, <1>2, <1>3, <1>4, <1>5, <1>6, <1>7, <1>8 DEF Next, Control, ProcessBuffers, Fails

LEMMA InitInvariant == Init => IInv
<1> SUFFICES ASSUME Init PROVE IInv
    OBVIOUS
<1>1. /\ slots = <<>> /\ Len(slots) = 0 /\ ready = {} /\ removed = {} /\ captured = {}
      /\ current = 0 /\ word = 0 /\ data = 0 /\ worker = "control" /\ answer = "none"
      /\ bindings = [port \in Port |-> <<>>]
      /\ user = [n \in Slot |-> "unbound"] /\ ring = [n \in Slot |-> <<>>]
    BY DEF Init
<1>2. \A port \in Port : bindings[port] = <<>> /\ ToSet(bindings[port]) = {}
    BY <1>1 DEF ToSet
<1>3. TablesFit
    BY <1>1, <1>2, ManagerAssumption DEF TablesFit, TablesTypeOK
<1>4. 0 \in 0 .. LastWord /\ 0 \in 0 .. MaxData
    BY ManagerAssumption DEF LastWord, WordOf
<1>5. Shapes
    BY <1>1, <1>4 DEF Shapes
<1>6. Apart /\ TargetsFit
    <2>1. ApartIn(<<>>)
        BY DEF ApartIn
    <2> QED
        BY <1>2, <2>1 DEF Apart, TargetsFit
<1>7. FreshSlots /\ DropIsLast
    BY <1>1 DEF FreshSlots, DropIsLast
<1>8. OnTheWay /\ DrainHasSocket /\ RemovedAreGone
    BY <1>1 DEF OnTheWay, DrainHasSocket, RemovedAreGone
<1> QED
    BY <1>3, <1>5, <1>6, <1>7, <1>8, TypeIsItsParts DEF IInv

LEMMA NextInvariant == IInv /\ [Next]_vars => IInv'
<1>1. ASSUME IInv, [Next]_vars PROVE TypeOK'
    <2>1. Shapes' /\ TablesFit'
        BY <1>1, ShapesStep, TablesFitStep
    <2> QED
        BY <2>1 DEF TypeOK, Shapes, TablesFit
<1> QED
    BY <1>1, ApartStep, TargetsStep, RingsStep, DrainStep, OnTheWayStep, RemovedStep DEF IInv

(* The invariant holds in every state of the manager.                      *)
THEOREM Invariance == SafeSpec => []IInv
BY InitInvariant, NextInvariant, PTL DEF SafeSpec

(* The tables keep their shape, and a socket is bound under its slot's     *)
(* address and port.                                                       *)
THEOREM TypeCorrect == SafeSpec => []TypeOK
<1>1. IInv => TypeOK
    BY DEF IInv
<1> QED
    BY <1>1, Invariance, PTL

(* process_buffers gets from what a bound socket pushed back to that       *)
(* socket: a bit that leads to it is set until its ring is drained, and    *)
(* the address of its slot finds no other socket, however the addresses of *)
(* old slots overlap.                                                      *)
THEOREM BoundAreServed == SafeSpec => []BoundSocketsAreServed
<1>1. IInv => BoundSocketsAreServed
    <2> SUFFICES ASSUME IInv PROVE BoundSocketsAreServed
        OBVIOUS
    <2>1. SlotFindsItsSocket
        BY OwnServed DEF IInv, SlotFindsItsSocket
    <2>2. RingIsServed
        BY <2>1 DEF IInv, OnTheWay, RingIsServed, SlotFindsItsSocket
    <2> QED
        BY <2>1, <2>2 DEF BoundSocketsAreServed
<1> QED
    BY <1>1, Invariance, PTL

(* A binding goes only by the Drop message of its own socket, even when    *)
(* the message was found through the bit of another socket's slot.         *)
THEOREM RemovalsAreOwn == SafeSpec => RemovalIsOwn
<1>1. IInv /\ [Next]_vars =>
         [\A n \in Slot : IsBound(n) /\ ~IsBound(n)' => n \in removed']_vars
    <2> SUFFICES ASSUME IInv, [Next]_vars, NEW n \in Slot, IsBound(n), ~IsBound(n)'
                 PROVE  n \in removed'
        OBVIOUS
    <2>0. TypeOK /\ Apart /\ DrainHasSocket
        BY DEF IInv
    <2>1. PopDrop
        BY <2>0, TableSteps, LookupStays, BindBinds
    <2>2. n = Served(current)
        BY <2>0, <2>1, OnlyOwnGoes
    <2> QED
        BY <2>1, <2>2 DEF PopDrop
<1> QED
    BY <1>1, Invariance, PTL DEF SafeSpec, RemovalIsOwn

(* On an interface on which nobody asks for all addresses, a bind is told  *)
(* that an address is in use only because of a socket that is not dropped  *)
(* or whose Drop message has not been taken.                               *)
THEOREM InUseIsTrueOfSpecific == SafeSpec => SpecificInUseMeansInUse
<1>1. ASSUME IInv, OnlySpecific, NEW ip \in Requested, NEW port \in Port, BindInUse(ip, port)
      PROVE  \E b \in Rivals(bindings[port], ip, TRUE) : b.socket \notin removed
    <2>1. PICK b \in ToSet(bindings[port]) : b \in Rivals(bindings[port], ip, TRUE)
        BY <1>1 DEF BindInUse, Bindable, IsBindable, IsBindableExclusive, Rivals
    <2>2. IsBound(b.socket)
        BY <2>1 DEF IsBound
    <2> QED
        BY <1>1, <2>1, <2>2 DEF IInv, RemovedAreGone
<1>2. IInv => [OnlySpecific => \A ip \in Requested, port \in Port :
                  BindInUse(ip, port) =>
                      \E b \in Rivals(bindings[port], ip, TRUE) : b.socket \notin removed]_vars
    BY <1>1
<1> QED
    BY <1>2, Invariance, PTL DEF SpecificInUseMeansInUse, OnlySpecific
=============================================================================
