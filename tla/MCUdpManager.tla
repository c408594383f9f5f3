---------------------------- MODULE MCUdpManager ----------------------------
(* Two addresses of one IP version, one of the other and both unspecified    *)
(* ones; the ready bits take two words as soon as there are three slots.     *)
EXTENDS UdpManager

CONSTANTS a, b, c, any4, any6, p, q
=============================================================================
