------------------------------ MODULE MCServer ------------------------------
(* Instances of Server: one client that makes every kind of connection,    *)
(* and one whose direct connection competes with it for the accept loop    *)
(* and for Close.                                                          *)
EXTENDS Server, TLC

CONSTANTS c1, c2

Route(proxy, https, user, bypass) ==
  [proxy |-> proxy, https |-> https, user |-> user, bypass |-> bypass]
Direct == Route(FALSE, FALSE, FALSE, FALSE)

Transparent(helloLen, blocked, route) ==
  [nat |-> TRUE, local |-> TRUE, serverFirst |-> FALSE, web |-> TRUE, connect |-> FALSE,
   helloLen |-> helloLen, body |-> 0, blocked |-> blocked, route |-> route]
ServerFirst ==
  [Transparent(1, "none", Direct) EXCEPT !.serverFirst = TRUE, !.web = FALSE]
Explicit(connect, blocked, route) ==
  [Transparent(1, blocked, route) EXCEPT !.nat = FALSE, !.connect = connect]

MCProfiles ==
  (c1 :> { Transparent(2, "none", Route(TRUE, FALSE, TRUE, FALSE)),
           Transparent(1, "name", Direct), Transparent(2, "ip", Direct),
           Explicit(TRUE, "none", Route(TRUE, TRUE, FALSE, FALSE)),
           Explicit(FALSE, "none", Route(TRUE, FALSE, TRUE, TRUE)),
           [Explicit(FALSE, "none", Direct) EXCEPT !.body = 1],
           Explicit(FALSE, "name", Direct),
           [Explicit(TRUE, "none", Direct) EXCEPT !.local = FALSE] }
   @@ c2 :> {ServerFirst})
MCChunks == c1 :> 3 @@ c2 :> 0
MCDown == c1 :> 2 @@ c2 :> 0
=============================================================================
