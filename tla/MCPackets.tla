----------------------------- MODULE MCPackets -----------------------------
(* Three packets of one UDP flow; two queries that meet in a queue of one,  *)
(* beside a TCP packet; and one packet of each kind of UDP traffic.         *)
EXTENDS PacketLoop

CONSTANTS p1, p2, p3

MCPacketSet == {p1, p2, p3}
Mix(a, b, c) == [p \in MCPacketSet |-> CASE p = p1 -> a [] p = p2 -> b [] OTHER -> c]
MCTraffic ==
  {Mix("udp", "udp", "udp"), Mix("dns", "dns", "tcp"), Mix("dns", "udp", "quic")}
=============================================================================
