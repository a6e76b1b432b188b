-------------------------------- MODULE MCDns --------------------------------
(***************************************************************************)
(* Instances of DnsEngine: queries for the same key and for another name   *)
(* on the same server.                                                     *)
(***************************************************************************)
EXTENDS DnsEngine, TLC

CONSTANTS q1, q2, q3, q4, k1, k2, s1

MCKeyOf == q1 :> k1 @@ q2 :> k1 @@ q3 :> k2

MCServerOf == k1 :> s1 @@ k2 :> s1

\* q4 asks for whatever q1 asks for, in a form ParseQuery rejects.
MCKeyOf4 == MCKeyOf @@ q4 :> k1

\* q1 and q2 ask for the same key.
Symmetric == Permutations({q1, q2})
=============================================================================
