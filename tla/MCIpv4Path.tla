----------------------------- MODULE MCIpv4Path -----------------------------
(* Addresses of six bits: two of ours in one network of sixteen, one of them *)
(* perhaps in a smaller one, a peer in the larger, a stranger outside.       *)
EXTENDS Ipv4Path

CONSTANTS six, any6

MCOurMac == <<2, 0, 0, 0, 0, 1>>
MCPeerMac == <<2, 0, 0, 0, 1, 255>>
MCTimes == {[seconds |-> 70000, micros |-> 9, monotonic |-> <<7>>],
            [seconds |-> 1, micros |-> 300, monotonic |-> <<>>]}
MCGrants == {[address |-> 17, prefix |-> 2], [address |-> 18, prefix |-> 2],
             [address |-> 18, prefix |-> 4]}
MCRouteRequests ==
    {[target |-> 5, prefix |-> 0, nextHop |-> 20, source |-> NoAddress],
     [target |-> 16, prefix |-> 2, nextHop |-> 20, source |-> 18],
     [target |-> 40, prefix |-> 2, nextHop |-> 19, source |-> NoAddress]}
MCPayloads == {[i \in 1 .. n |-> 7] : n \in {0, 58, 59, 72}}
MCPeerPayloads == {<<>>, <<1, 2, 255>>, [i \in 1 .. 59 |-> 7]}
MCTags == {<<>>, <<5>>}
MCComplaints ==
    {[kind |-> "SourceQuench", data |-> <<1>>],
     [kind |-> "Redirect", code |-> 1, gateway |-> 19, data |-> <<2>>],
     [kind |-> "TimeExceeded", code |-> 1, data |-> <<3, 3>>],
     [kind |-> "ParameterProblem", pointer |-> 4, data |-> <<>>]}
=============================================================================
