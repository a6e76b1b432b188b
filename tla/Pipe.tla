-------------------------------- MODULE Pipe --------------------------------
(***************************************************************************)
(* What PipeConnEx promises to the two peers it connects, without clocks,  *)
(* goroutines or buffers: each direction carries its stream in order and   *)
(* not more than was sent, and an end of stream is passed on only after    *)
(* the whole stream, unless the relay cuts the direction itself.  Relay    *)
(* implements this specification.                                          *)
(***************************************************************************)
EXTENDS Naturals

VARIABLES
    sent,     \* chunks each peer has sent
    got,      \* chunks each peer has been given
    ended,    \* peers that have ended their stream
    told,     \* peers that have been told the end of the other's stream
    cut,      \* directions the relay has cut
    closed    \* both connections are closed

vars == <<sent, got, ended, told, cut, closed>>

Sides == {"client", "upstream"}

Other(s) == IF s = "client" THEN "upstream" ELSE "client"

Init ==
    /\ sent = [s \in Sides |-> 0] /\ got = [s \in Sides |-> 0]
    /\ ended = {} /\ told = {} /\ cut = {} /\ closed = FALSE

Send(s) ==
    /\ ~closed /\ s \notin ended
    /\ sent' = [sent EXCEPT ![s] = @ + 1]
    /\ UNCHANGED <<got, ended, told, cut, closed>>

End(s) ==
    /\ ~closed
    /\ ended' = ended \cup {s}
    /\ UNCHANGED <<sent, got, told, cut, closed>>

Deliver(s) ==
    /\ ~closed /\ Other(s) \notin told
    /\ got[Other(s)] < sent[s]
    /\ got' = [got EXCEPT ![Other(s)] = @ + 1]
    /\ UNCHANGED <<sent, ended, told, cut, closed>>

\* A half-close: the other direction goes on.
PassEnd(s) ==
    /\ ~closed /\ s \in ended /\ s \notin cut
    /\ got[Other(s)] = sent[s]
    /\ told' = told \cup {Other(s)}
    /\ UNCHANGED <<sent, got, ended, cut, closed>>

\* An idle direction is ended by the relay.
Cut(s) ==
    /\ Other(s) \notin told
    /\ cut' = cut \cup {s}
    /\ told' = told \cup {Other(s)}
    /\ UNCHANGED <<sent, got, ended, closed>>

\* An error, or the end of both directions.
Close ==
    /\ closed' = TRUE
    /\ UNCHANGED <<sent, got, ended, told, cut>>

Next ==
    \/ \E s \in Sides : Send(s) \/ End(s) \/ Deliver(s) \/ PassEnd(s) \/ Cut(s)
    \/ Close

Spec == Init /\ [][Next]_vars

=============================================================================
