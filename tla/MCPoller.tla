------------------------------ MODULE MCPoller ------------------------------
(* Registrations of both halves, and of the reading half alone. *)
EXTENDS Poller

CONSTANTS s1
MCCalls == {<<"read", "write">>, <<"read">>}
=============================================================================
