---------------------------- MODULE MCArpResolver ----------------------------
(* Two addresses, each of which may be a next hop and be added.  Symmetry    *)
(* holds for the safety runs: no operator orders addresses or calls.         *)
EXTENDS ArpResolver, TLC

CONSTANTS x, y, a1, a2
MCSymmetry == Permutations({x, y}) \cup Permutations({a1, a2})
=============================================================================
