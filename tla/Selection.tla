----------------------------- MODULE Selection -----------------------------
(***************************************************************************)
(* What a loop over a vector keeps, takes or meets: some of its places,    *)
(* from the first to the last (Vec::retain, and the loops over the send    *)
(* buffer and the addresses being added).                                  *)
(***************************************************************************)
EXTENDS Naturals, Sequences, FiniteSets

(* The one way to go through places from the first to the last.             *)
Ascending(places) ==
    {at \in [1 .. Cardinality(places) -> places] :
        /\ \A place \in places : \E k \in DOMAIN at : at[k] = place
        /\ \A j, k \in DOMAIN at : j < k => at[j] < at[k]}

(* What is met there.                                                       *)
Picked(s, at) == [k \in DOMAIN at |-> s[at[k]]]
=============================================================================
