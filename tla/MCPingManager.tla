--------------------------- MODULE MCPingManager ---------------------------
(* A session of two pings and one without end, which sends every tick.      *)
EXTENDS PingManager

CONSTANTS t, one, other

MCCalls == << [target |-> t, count |-> 2, interval |-> 2],
              [target |-> t, count |-> NoCount, interval |-> 0] >>
=============================================================================
