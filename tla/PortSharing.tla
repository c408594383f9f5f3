---------------------------- MODULE PortSharing ----------------------------
(***************************************************************************)
(* One port as its bindings come and go: AddressBindings under every       *)
(* request its interface allows, with and without reuse, dual stack or     *)
(* not.  (UdpManager itself only makes exclusive dual-stack requests; the  *)
(* unit tests of port_binding.rs make the others.)                         *)
(***************************************************************************)
EXTENDS PortBindings, FiniteSets

CONSTANTS MaxBindings   \* bound: bindings made in a run

(* There are addresses of both versions: binding to all of them takes some.  *)
ASSUME SharingAssumption == MaxBindings \in Nat /\ V4 # {} /\ V6 # {}

VARIABLES
    bindings,   \* AddressBindings of the port
    made        \* bindings made so far; names the next socket

vars == <<bindings, made>>

Init == bindings = <<>> /\ made = 0

(* is_bindable is asked, and insert follows if it agrees.                   *)
Bind(ip, reuse, dualStack) ==
    /\ made < MaxBindings
    /\ IsBindable(bindings, ip, reuse, dualStack)
    /\ bindings' = Insert(bindings, ip, dualStack, reuse, made + 1)
    /\ made' = made + 1

Unbind(ip) ==
    /\ \E b \in ToSet(bindings) : b.original = ip
    /\ bindings' = RemoveBinding(bindings, ip)
    /\ UNCHANGED made

Next ==
    \/ \E ip \in Ip, reuse, dualStack \in BOOLEAN : Bind(ip, reuse, dualStack)
    \/ \E ip \in Ip : Unbind(ip)

Spec == Init /\ [][Next]_vars

-----------------------------------------------------------------------------
(* Properties *)

(* What a binding is for: the specific addresses whose packets it may get.   *)
(* This is the reference the rules are judged by.                            *)
Covers(b) == {ip \in V4 \cup V6 : Matches(b, ip)}

(* Two sockets that could get the same packet have both agreed to share,     *)
(* whatever the order in which they came and whichever others went.          *)
SharingIsMutual ==
    \A i, j \in 1 .. Len(bindings) :
        i # j /\ Covers(bindings[i]) \cap Covers(bindings[j]) # {}
            => bindings[i].reuse /\ bindings[j].reuse

(* The rules refuse nothing else: a request is granted exactly when every    *)
(* binding it overlaps allows reuse, and it does too.                        *)
RefusalIsJustified ==
    \A ip \in Ip, reuse, dualStack \in BOOLEAN :
        LET wanted == Covers(Binding(ip, dualStack, reuse, 0))
            Overlapping == {b \in ToSet(bindings) : Covers(b) \cap wanted # {}}
        IN  IsBindable(bindings, ip, reuse, dualStack)
                <=> \A b \in Overlapping : reuse /\ b.reuse

(* Both: sockets share a port exactly when they agreed to                    *)
(* (is_bindable_exclusive and is_bindable_allow_reuse, six cases each).      *)
SharingIsAgreed == SharingIsMutual /\ RefusalIsJustified

(* A newcomer never takes packets from a socket that has them: the listener  *)
(* of an address changes only when the listener itself goes.                 *)
ListenersStay ==
    [][\A ip \in V4 \cup V6 :
          LET listener == GetMut(bindings, ip)
          IN  listener # NoSocket /\ (\E b \in ToSet(bindings') : b.socket = listener)
                => GetMut(bindings', ip) = listener]_vars
=============================================================================
