----------------------------- MODULE MCUdpSocket -----------------------------
(* A socket switched to blocking, and one switched back and forth.         *)
EXTENDS UdpSocket

CONSTANTS p, q
MCBlocking == {"blocking"}
MCEither == {"blocking", "nonblocking"}
=============================================================================
