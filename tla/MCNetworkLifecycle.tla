------------------------- MODULE MCNetworkLifecycle -------------------------
(* Two interfaces, one after the other with the same address or both at   *)
(* once with different ones.                                               *)
EXTENDS NetworkLifecycle

CONSTANTS m1, m2, all
=============================================================================
