-------------------------------- MODULE MCNat --------------------------------
(***************************************************************************)
(* Instances of NatSessions: one client endpoint used for two connections  *)
(* to different destinations.                                              *)
(***************************************************************************)
EXTENDS NatSessions, TLC

CONSTANTS c1, c2, k1, a, b

MCKeyOf == c1 :> k1 @@ c2 :> k1
MCDstOf == c1 :> a @@ c2 :> b

=============================================================================
