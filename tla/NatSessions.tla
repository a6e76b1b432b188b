----------------------------- MODULE NatSessions -----------------------------
(***************************************************************************)
(* Transparent TCP interception on Windows: the packet workers of          *)
(* internal/interceptor/redirector.go, the NAT session table they share    *)
(* with the connection handlers of internal/proxy/server.go, and the       *)
(* table's garbage collector.                                              *)
(*                                                                         *)
(* A client endpoint (a SessionKey: IP and port) carries one connection    *)
(* after another.  The table is indexed by the endpoint alone, several     *)
(* workers process the captured packets of one endpoint concurrently, and  *)
(* the handler of an old connection may still be unwinding when the        *)
(* endpoint is in use again.                                               *)
(*                                                                         *)
(* The two TCP stacks (the client's and the one under the proxy's          *)
(* listener) and the WinDivert driver are external: their actions keep     *)
(* what the redirector can observe of them.                                *)
(***************************************************************************)
EXTENDS Naturals, FiniteSets

CONSTANTS
    Conns,      \* TCP connections the clients open, each at most once
    Keys,       \* client endpoints (SessionKey)
    Dsts,       \* original destinations (IP and port)
    KeyOf,      \* the endpoint each connection is opened from
    DstOf,      \* the destination each connection is opened to
    MaxPackets, \* bound: packets captured and not yet injected again
    MaxRare,    \* bound: segments emitted by closed connections and
                \* sessions that outlive their TTL, together
    None

ASSUME ConstantsAssumption ==
    /\ KeyOf \in [Conns -> Keys]
    /\ DstOf \in [Conns -> Dsts]
    /\ None \notin Conns \cup Keys \cup Dsts
    /\ MaxPackets \in Nat
    /\ MaxRare \in Nat

VARIABLES
    client,     \* the client's end of each connection
    rare,       \* how many of the events MaxRare bounds there have been
    latest,     \* the connection most recently opened from each endpoint
    leg,        \* the proxy stack's socket of each connection
    handler,    \* the handleClient goroutine of each connection
    orig,       \* the original destination it looked up, until it returns
    sessions,   \* Redirector.sessions
    captured,   \* packets the packetLoop goroutines hold or are to receive
    rewritten,  \* packets they have rewritten and not yet sent on
    gc,         \* the key sessionGCLoop has found expired and not yet deleted
    aged,       \* endpoints at which a session outlived its TTL
    straggler   \* endpoints at which a superseded connection's packet was
                \* processed after the endpoint had been opened again

vars == <<client, rare, latest, leg, handler, orig, sessions, captured,
          rewritten, gc, aged, straggler>>

-----------------------------------------------------------------------------
(* Types.                                                                  *)

ClientStates == {"idle", "syn", "open", "closed"}

LegStates == {"none", "synrcvd", "estab", "closewait", "finwait"}

HandlerStates ==
    {"none", "accepted", "serving", "explicit",
     "returned", "deleted", "done"}

Packet == [conn: Conns, dir: {"out", "back"},
           kind: {"syn", "synack", "seg", "fin", "rst"}]

\* What a worker sends: the packet, and the source address it gave it (None
\* where it left the source as it was).
Rewritten == [packet: Packet, from: Dsts \cup {None}]

\* SessionInfo: OriginalDstIP/OriginalDstPort, and LastSeen reduced to
\* whether it is more than sessionTTL old.
SessionInfo == [dst: Dsts, stale: BOOLEAN]

ASSUME NoneIsNoSession == None \notin SessionInfo

TypeOK ==
    /\ client \in [Conns -> ClientStates]
    /\ rare \in 0..MaxRare
    /\ latest \in [Keys -> Conns \cup {None}]
    /\ leg \in [Conns -> LegStates]
    /\ handler \in [Conns -> HandlerStates]
    /\ orig \in [Conns -> Dsts \cup {None}]
    /\ sessions \in [Keys -> SessionInfo \cup {None}]
    /\ captured \in SUBSET Packet
    /\ rewritten \in SUBSET Rewritten
    /\ gc \in Keys \cup {None}
    /\ aged \in SUBSET Keys
    /\ straggler \in SUBSET Keys

Init ==
    /\ client = [c \in Conns |-> "idle"]
    /\ rare = 0
    /\ latest = [k \in Keys |-> None]
    /\ leg = [c \in Conns |-> "none"]
    /\ handler = [c \in Conns |-> "none"]
    /\ orig = [c \in Conns |-> None]
    /\ sessions = [k \in Keys |-> None]
    /\ captured = {}
    /\ rewritten = {}
    /\ gc = None
    /\ aged = {}
    /\ straggler = {}

-----------------------------------------------------------------------------
(* The packets WinDivert has captured.  Two to eight workers receive them  *)
(* in order and process them concurrently, so that any captured packet may *)
(* be the next one rewritten.  A packet that finds the queue full is lost. *)

Out(c, kind) == [conn |-> c, dir |-> "out", kind |-> kind]

Back(c, kind) == [conn |-> c, dir |-> "back", kind |-> kind]

Capture(p) ==
    captured' = IF Cardinality(captured) + Cardinality(rewritten) < MaxPackets
                THEN captured \cup {p}
                ELSE captured

\* The stack that gets an injected packet may send an answer.
Answer(replies) == captured' = captured \cup replies

Live(c) == client[c] \in {"syn", "open"}

-----------------------------------------------------------------------------
(* The clients.  A port is free again as soon as its connection is closed; *)
(* a closed connection may still emit segments (retransmitted FIN, the ACK *)
(* of TIME_WAIT).                                                          *)

ClientConnect(c) ==
    /\ client[c] = "idle"
    /\ \A d \in Conns : KeyOf[d] = KeyOf[c] => ~Live(d)
    /\ client' = [client EXCEPT ![c] = "syn"]
    /\ latest' = [latest EXCEPT ![KeyOf[c]] = c]
    /\ Capture(Out(c, "syn"))
    /\ UNCHANGED <<rare, leg, handler, orig, sessions, rewritten, gc, aged,
                   straggler>>

\* A retransmission while connecting, a data segment once connected.
ClientSend(c) ==
    /\ Live(c)
    /\ Capture(Out(c, IF client[c] = "syn" THEN "syn" ELSE "seg"))
    /\ UNCHANGED <<client, rare, latest, leg, handler, orig, sessions,
                   rewritten, gc, aged, straggler>>

ClientClose(c) ==
    /\ Live(c)
    /\ client' = [client EXCEPT ![c] = "closed"]
    /\ \E kind \in {"fin", "rst"} : Capture(Out(c, kind))
    /\ UNCHANGED <<rare, latest, leg, handler, orig, sessions, rewritten, gc,
                   aged, straggler>>

ClientLate(c) ==
    /\ client[c] = "closed"
    /\ rare < MaxRare
    /\ rare' = rare + 1
    /\ Capture(Out(c, "fin"))
    /\ UNCHANGED <<client, latest, leg, handler, orig, sessions, rewritten,
                   gc, aged, straggler>>

-----------------------------------------------------------------------------
(* packetLoop: a worker rewrites a captured packet, in one step, and sends *)
(* it on in a later one; between the two the table may change.             *)

Rewrite(p, from) ==
    /\ captured' = captured \ {p}
    /\ rewritten' = rewritten \cup {[packet |-> p, from |-> from]}

\* Mutant: an entry that exists is never replaced.
FirstEntryKept(info, p) ==
    [dst |-> IF info # None THEN info.dst ELSE DstOf[p.conn], stale |-> FALSE]

\* Mutant: only a SYN creates an entry.
OnlySynCreates(info, p) ==
    IF info = None /\ p.kind # "syn" THEN None
    ELSE [dst |-> DstOf[p.conn], stale |-> FALSE]

\* The entry a captured client packet leaves behind: a SYN, a changed
\* destination or a missing entry stores a new SessionInfo, any other packet
\* refreshes the one found.
SessionAfter(info, p) ==
    IF /\ info # None
       /\ p.kind # "syn"
       /\ info.dst = DstOf[p.conn]
    THEN [info EXCEPT !.stale = FALSE]
    ELSE [dst |-> DstOf[p.conn], stale |-> FALSE]

\* FORWARD NAT: record the original destination, redirect to the proxy.  Load
\* and Store are one step: whatever another goroutine does to the entry between
\* them, the table ends as if it had done so before or after both.
ForwardNAT(p) ==
    LET k == KeyOf[p.conn]
    IN  /\ p.dir = "out"
        /\ sessions' = [sessions EXCEPT ![k] = SessionAfter(@, p)]
        /\ straggler' = IF p.conn # latest[k] THEN straggler \cup {k}
                                              ELSE straggler
        /\ Rewrite(p, None)
        /\ UNCHANGED <<client, rare, latest, leg, handler, orig, gc, aged>>

\* REVERSE NAT: the source becomes the session's destination; a packet without
\* a session stays as it is.
ReverseNAT(p) ==
    LET k == KeyOf[p.conn]
    IN  /\ p.dir = "back"
        /\ IF sessions[k] # None
           THEN /\ sessions' = [sessions EXCEPT ![k].stale = FALSE]
                /\ Rewrite(p, sessions[k].dst)
           ELSE /\ UNCHANGED sessions
                /\ Rewrite(p, None)
        /\ UNCHANGED <<client, rare, latest, leg, handler, orig, gc, aged, straggler>>

\* The other connections from c's endpoint that still have a socket at the
\* proxy: they occupy the four-tuple c's packets are redirected to.
OtherLegs(c) ==
    {d \in Conns \ {c} : KeyOf[d] = KeyOf[c] /\ leg[d] # "none"}

\* Sequence numbers protect an occupant from strays, but the segments of a
\* connection its client still holds draw the reset that displaces it.
Displaced(c) ==
    [d \in Conns |-> IF d \in OtherLegs(c) THEN "none" ELSE leg[d]]

ProxySyn(c) ==
    /\ UNCHANGED handler
    /\ \/ /\ leg[c] = "none" /\ handler[c] = "none"
          /\ leg' = [Displaced(c) EXCEPT ![c] = "synrcvd"]
          /\ Answer({Back(c, "synack")})
       \/ /\ leg[c] = "synrcvd"
          /\ UNCHANGED leg
          /\ Answer({Back(c, "synack")})
       \/ /\ \/ leg[c] \notin {"none", "synrcvd"}
             \/ handler[c] # "none"
             \/ OtherLegs(c) # {} /\ ~Live(c)
          /\ UNCHANGED leg
          /\ Answer({})

ProxySegment(c) ==
    \/ /\ leg[c] = "synrcvd"
       /\ leg' = [leg EXCEPT ![c] = "estab"]
       /\ handler' = [handler EXCEPT ![c] = "accepted"]
       /\ Answer({})
    \/ /\ leg[c] \in {"none", "finwait"}
       /\ OtherLegs(c) = {} \/ Live(c)
       /\ leg' = [Displaced(c) EXCEPT ![c] = "none"]
       /\ Answer({Back(c, "rst")})
       /\ UNCHANGED handler
    \/ /\ leg[c] \in {"estab", "closewait"} \/ (OtherLegs(c) # {} /\ ~Live(c))
       /\ Answer({})
       /\ UNCHANGED <<leg, handler>>

ProxyFin(c) ==
    /\ leg' = [leg EXCEPT ![c] =
                  IF @ \in {"estab", "closewait"} THEN "closewait" ELSE "none"]
    /\ Answer({})
    /\ UNCHANGED handler

ProxyReset(c) ==
    /\ leg' = [leg EXCEPT ![c] = "none"]
    /\ Answer({})
    /\ UNCHANGED handler

\* What the stack under the proxy's listener does with a redirected packet.
ProxyStack(p) ==
    \/ p.kind = "syn" /\ ProxySyn(p.conn)
    \/ p.kind = "seg" /\ ProxySegment(p.conn)
    \/ p.kind = "fin" /\ ProxyFin(p.conn)
    \/ p.kind = "rst" /\ ProxyReset(p.conn)

\* The redirected packet reaches the proxy.
SendForward(r) ==
    /\ r.packet.dir = "out"
    /\ ProxyStack(r.packet)
    /\ UNCHANGED <<client, rare, latest, orig, sessions, gc, aged, straggler>>

\* What the client's stack does with a packet of the connection it knows.
ClientStack(p, c) ==
    \/ /\ p.kind = "synack"
       /\ client' = [client EXCEPT ![c] = IF @ = "syn" THEN "open" ELSE @]
       /\ Answer({Out(c, IF Live(c) THEN "seg" ELSE "rst")})
    \/ /\ p.kind = "seg"
       /\ Answer({})
       /\ UNCHANGED client
    \/ /\ p.kind = "fin"
       /\ client' = [client EXCEPT ![c] = "closed"]
       /\ Answer({Out(c, "fin")})
    \/ /\ p.kind = "rst"
       /\ client' = [client EXCEPT ![c] = "closed"]
       /\ Answer({})

\* The client recognises the packet only if it comes from the destination it
\* connected to.  Its stack knows no connection to the proxy's own address: it
\* drops the packet, or resets the proxy's socket.
SendReverse(r) ==
    LET c == r.packet.conn
    IN  /\ r.packet.dir = "back"
        /\ \/ /\ r.from = DstOf[c]
              /\ ClientStack(r.packet, c)
              /\ UNCHANGED leg
           \/ /\ r.from # DstOf[c]
              /\ leg' \in {leg, IF r.from = None THEN [leg EXCEPT ![c] = "none"] ELSE leg}
              /\ Answer({})
              /\ UNCHANGED client
        /\ UNCHANGED <<rare, latest, handler, orig, sessions, gc, aged, straggler>>

-----------------------------------------------------------------------------
(* handleClient, the goroutine the accept loop starts for a connection.     *)

\* Mutant: a destination once looked up is remembered for the endpoint.
LookupRemembered(c) ==
    LET k == KeyOf[c]
        known == {d \in Conns : KeyOf[d] = k /\ orig[d] # None}
    IN  /\ handler[c] = "accepted"
        /\ sessions[k] # None
        /\ orig' = [orig EXCEPT ![c] =
                       IF known # {} THEN orig[CHOOSE d \in known : TRUE]
                                     ELSE sessions[k].dst]
        /\ sessions' = [sessions EXCEPT ![k].stale = FALSE]
        /\ handler' = [handler EXCEPT ![c] = "serving"]
        /\ UNCHANGED <<client, rare, latest, leg, captured, rewritten, gc,
                       aged, straggler>>

\* A connection without a session is served as an explicit proxy request.
LookupOriginalDestination(c) ==
    LET k == KeyOf[c]
    IN  /\ handler[c] = "accepted"
        /\ IF sessions[k] # None
           THEN /\ orig' = [orig EXCEPT ![c] = sessions[k].dst]
                /\ sessions' = [sessions EXCEPT ![k].stale = FALSE]
                /\ handler' = [handler EXCEPT ![c] = "serving"]
           ELSE /\ handler' = [handler EXCEPT ![c] = "explicit"]
                /\ UNCHANGED <<orig, sessions>>
        /\ UNCHANGED <<client, rare, latest, leg, captured, rewritten, gc,
                       aged, straggler>>

\* The relay writes a segment of the upstream's answer to the client.
Respond(c) ==
    /\ handler[c] = "serving"
    /\ leg[c] \in {"estab", "closewait"}
    /\ Capture(Back(c, "seg"))
    /\ UNCHANGED <<client, rare, latest, leg, handler, orig, sessions,
                   rewritten, gc, aged, straggler>>

\* Closing the accepted connection: nothing to do on a socket already gone.
CloseConn(c) ==
    IF leg[c] \in {"estab", "closewait"}
    THEN /\ leg' = [leg EXCEPT ![c] = "finwait"]
         /\ Capture(Back(c, "fin"))
    ELSE UNCHANGED <<leg, captured>>

\* Blocked by policy, client gone, dial failed: return without a relay.
ReturnEarly(c) ==
    /\ handler[c] \in {"serving", "explicit"}
    /\ handler' = [handler EXCEPT ![c] = "returned"]
    /\ orig' = [orig EXCEPT ![c] = None]
    /\ UNCHANGED <<client, rare, latest, leg, sessions, captured,
                   rewritten, gc, aged, straggler>>

\* The relay is over: PipeConn closes both connections before it returns.
ReturnFromRelay(c) ==
    /\ handler[c] \in {"serving", "explicit"}
    /\ handler' = [handler EXCEPT ![c] = "returned"]
    /\ orig' = [orig EXCEPT ![c] = None]
    /\ CloseConn(c)
    /\ UNCHANGED <<client, rare, latest, sessions, rewritten, gc, aged,
                   straggler>>

\* First half of the deferred cleanup: the entry of the endpoint is removed,
\* whichever connection put it there.
DeleteSession(c) ==
    /\ handler[c] = "returned"
    /\ handler' = [handler EXCEPT ![c] = "deleted"]
    /\ sessions' = [sessions EXCEPT ![KeyOf[c]] = None]
    /\ UNCHANGED <<client, rare, latest, leg, orig, captured, rewritten, gc,
                   aged, straggler>>

\* Second half of the deferred cleanup.
DeferredClose(c) ==
    /\ handler[c] = "deleted"
    /\ handler' = [handler EXCEPT ![c] = "done"]
    /\ CloseConn(c)
    /\ UNCHANGED <<client, rare, latest, orig, sessions, rewritten, gc, aged,
                   straggler>>

\* The stack retransmits a FIN until it is acknowledged ...
FinRetransmit(c) ==
    /\ leg[c] = "finwait"
    /\ Capture(Back(c, "fin"))
    /\ UNCHANGED <<client, rare, latest, leg, handler, orig, sessions,
                   rewritten, gc, aged, straggler>>

\* ... and its timers end a handshake or a close that gets no answer.
LegTimeout(c) ==
    /\ leg[c] \in {"synrcvd", "finwait"}
    /\ leg' = [leg EXCEPT ![c] = "none"]
    /\ UNCHANGED <<client, rare, latest, handler, orig, sessions, captured,
                   rewritten, gc, aged, straggler>>

-----------------------------------------------------------------------------
(* sessionGCLoop.  LastSeen is read in one step, the key deleted in a later *)
(* one.                                                                    *)

Age(k) ==
    /\ sessions[k] # None
    /\ ~sessions[k].stale
    /\ rare < MaxRare
    /\ rare' = rare + 1
    /\ sessions' = [sessions EXCEPT ![k].stale = TRUE]
    /\ aged' = aged \cup {k}
    /\ UNCHANGED <<client, latest, leg, handler, orig, captured,
                   rewritten, gc, straggler>>

\* Mutant: the collector does not look at LastSeen.
GcFindAny(k) ==
    /\ gc = None
    /\ sessions[k] # None
    /\ gc' = k
    /\ UNCHANGED <<client, rare, latest, leg, handler, orig, sessions,
                   captured, rewritten, aged, straggler>>

GcFindExpired(k) ==
    /\ gc = None
    /\ sessions[k] # None
    /\ sessions[k].stale
    /\ gc' = k
    /\ UNCHANGED <<client, rare, latest, leg, handler, orig, sessions,
                   captured, rewritten, aged, straggler>>

GcDelete ==
    /\ gc # None
    /\ sessions' = [sessions EXCEPT ![gc] = None]
    /\ gc' = None
    /\ UNCHANGED <<client, rare, latest, leg, handler, orig, captured,
                   rewritten, aged, straggler>>

-----------------------------------------------------------------------------
(* The specification.                                                      *)

ClientStep(c) ==
    \/ ClientConnect(c)
    \/ ClientSend(c)
    \/ ClientClose(c)
    \/ ClientLate(c)

\* The two halves of a turn of a packetLoop goroutine.
Process(p) ==
    /\ p \in captured
    /\ ForwardNAT(p) \/ ReverseNAT(p)

Send(r) ==
    /\ r \in rewritten
    /\ rewritten' = rewritten \ {r}
    /\ SendForward(r) \/ SendReverse(r)

ProcessOf(c, dir) == \E p \in captured : p.conn = c /\ p.dir = dir /\ Process(p)

SendOf(c, dir) ==
    \E r \in rewritten : r.packet.conn = c /\ r.packet.dir = dir /\ Send(r)

\* The steps a handler goroutine takes without waiting for a peer.
HandlerProgress(c) ==
    \/ LookupOriginalDestination(c)
    \/ DeleteSession(c)
    \/ DeferredClose(c)

HandlerStep(c) ==
    \/ HandlerProgress(c)
    \/ Respond(c)
    \/ ReturnEarly(c)
    \/ ReturnFromRelay(c)
    \/ FinRetransmit(c)
    \/ LegTimeout(c)

GcStep == GcDelete \/ \E k \in Keys : Age(k) \/ GcFindExpired(k)

Next ==
    \/ \E c \in Conns : ClientStep(c) \/ HandlerStep(c)
    \/ \E p \in captured : Process(p)
    \/ \E r \in rewritten : Send(r)
    \/ GcStep

Spec == Init /\ [][Next]_vars

\* Goroutines are scheduled: the captured packets of a connection, in each
\* direction, are rewritten and sent on, and a handler that is not waiting for a peer
\* eventually runs.  The stack's timers expire.
Fairness ==
    /\ \A c \in Conns, dir \in {"out", "back"} :
          WF_vars(ProcessOf(c, dir)) /\ WF_vars(SendOf(c, dir))
    /\ \A c \in Conns : WF_vars(HandlerProgress(c))
    /\ \A c \in Conns : WF_vars(LegTimeout(c))

FairSpec == Spec /\ Fairness

\* In addition the clients keep sending: a SYN is retransmitted, an open
\* connection has data or a keep-alive probe to send, and it gets through.
TalkingSpec == FairSpec /\ \A c \in Conns : SF_vars(ClientSend(c))

-----------------------------------------------------------------------------
(* Properties.                                                             *)

\* A handler serving a connection its client still holds relays it to the
\* destination the client dialled, unless a packet of an older connection
\* from the same endpoint was processed after the endpoint was reused.
\* (SYN and changed-destination packets overwrite the session;
\* LookupOriginalDestination reads it by endpoint.)
MisrouteNeedsStraggler ==
    \A c \in Conns :
        Live(c) /\ orig[c] # None /\ KeyOf[c] \notin straggler
            => orig[c] = DstOf[c]

\* An intercepted connection is mistaken for an explicit proxy request
\* (handleClient's lookup fails) only if another handler of the endpoint has
\* deleted the session, or the session has been idle for a whole TTL.
MissNeedsDeletion ==
    \A c \in Conns :
        handler[c] = "explicit"
            => \/ KeyOf[c] \in aged
               \/ \E d \in Conns \ {c} : /\ KeyOf[d] = KeyOf[c]
                                         /\ handler[d] \in {"deleted", "done"}

\* A client learns that the handler has closed its connection; server.go,
\* "Dropping connection sends FIN/RST to client".  True of a client that keeps
\* sending: its packet recreates the session the handler has deleted, so that
\* the answer of the proxy's stack finds its way back.  (A handler that is done
\* stays so, hence the form: done and still live is never for ever.)
CloseReachesClient ==
    \A c \in Conns : []<>(handler[c] = "done" => ~Live(c))

\* A connection attempt does not hang: whatever old connections of the
\* endpoint leave behind, the client is answered.
ConnectIsAnswered ==
    \A c \in Conns : []<>(client[c] # "syn")

=============================================================================
