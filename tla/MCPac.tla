-------------------------------- MODULE MCPac --------------------------------
(* Three calls of Resolve, two of them for the same URL.                    *)
EXTENDS PacResolver, TLC

CONSTANTS c1, c2, c3, u1, u2

MCUrlOf == [c \in Calls |-> IF c = c3 THEN u2 ELSE u1]

=============================================================================
