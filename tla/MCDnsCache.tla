----------------------------- MODULE MCDnsCache -----------------------------
EXTENDS DnsCache

CONSTANTS k1, k2, c1, c2

MCKeys == {k1, k2}

\* An answer without a usable TTL, and one whose TTL is between the maxima.
MCTTLsOf == [k \in MCKeys |-> IF k = k1 THEN {0, 9} ELSE {3, 6}]
=============================================================================
