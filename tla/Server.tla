------------------------------- MODULE Server -------------------------------
(***************************************************************************)
(* The proxy server (internal/proxy/server.go): the accept loop, one       *)
(* handler goroutine per client, and Close.  A handler asks for the        *)
(* original destination; a transparent client is peeked at, a client       *)
(* without one speaks HTTP to the proxy.  Both are checked against the     *)
(* filter, routed, dialled (ProxyDial) and relayed.  The relay is the one  *)
(* of module Relay, of which only order and end matter here.               *)
(*                                                                         *)
(* A client's bytes are chunks numbered from 1: chunk 1 begins the hello,  *)
(* or is the request, and what the hello names is known from its first     *)
(* helloLen chunks; a request may announce a body, the next body chunks.   *)
(* Upstream sends chunks too, the first perhaps together with the proxy's  *)
(* 200.                                                                    *)
(***************************************************************************)
EXTENDS ProxyDial, Sequences

CONSTANTS
    Profiles,    \* per client, the connections it may make
    Chunks,      \* per client, bound: chunks it may send
    DownChunks,  \* per client, bound: chunks upstream may send
    None

VARIABLES
    loop,        \* the accept loop: "accept" or "ended"
    hand,        \* the connection between Accept and activeConns.Add
    listening,
    closed,      \* s.closed
    closer,      \* where Close is
    activeConns, \* the wait group
    h,           \* per client, its connection and its handler
    late         \* ghost: handlers counted after the wait had ended

serverVars == <<loop, hand, listening, closed, closer, activeConns, late>>
vars == <<serverVars, h, dial>>

(* What can be said of a connection before it is made.  blocked: what the  *)
(* filter blocks of the destination, its address, the name in the hello or *)
(* nothing.                                                                *)
Kinds == [nat : BOOLEAN, local : BOOLEAN, serverFirst : BOOLEAN, web : BOOLEAN,
          connect : BOOLEAN, helloLen : Nat, body : Nat,
          blocked : {"none", "name", "ip"}, route : Routes]

ASSUME ServerAssumption ==
  /\ IsFiniteSet(Callers) /\ None \notin Callers
  /\ Profiles \in [Callers -> SUBSET Kinds]
  /\ Chunks \in [Callers -> Nat] /\ DownChunks \in [Callers -> Nat]

Running == {"start", "peek", "request", "policy", "dial", "dialled", "write",
            "body", "relay", "return"}

ClientState ==
  [pc : Running \cup {"away", "backlog", "hand", "released", "done"},
   kind : Kinds, sent : Nat, read : Nat, buf : Seq(Nat), up : Seq(Nat), named : BOOLEAN,
   early : Seq(Nat), down : Seq(Nat), answer : {"none", "200", "403", "502"},
   session : BOOLEAN, clientOpen : BOOLEAN, excused : BOOLEAN]

TypeOK ==
  /\ loop \in {"accept", "ended"} /\ hand \in Callers \cup {None}
  /\ listening \in BOOLEAN /\ closed \in BOOLEAN
  /\ closer \in {"no", "flagged", "waiting", "drained", "timedout"}
  /\ activeConns \in 0 .. Cardinality(Callers)
  /\ late \subseteq Callers
  /\ h \in [Callers -> ClientState]
  /\ \A c \in Callers :
       /\ h[c].sent \in 0 .. Chunks[c] /\ h[c].read \in 0 .. h[c].sent
       /\ h[c].buf \in Seq(1 .. Chunks[c]) /\ h[c].up \in Seq(1 .. Chunks[c])
       /\ h[c].early \in Seq(1 .. DownChunks[c]) /\ h[c].down \in Seq(1 .. DownChunks[c])
  /\ DialTypeOK

NewClient(kind) ==
  [pc |-> "away", kind |-> kind, sent |-> 0, read |-> 0, buf |-> <<>>, up |-> <<>>,
   named |-> FALSE, early |-> <<>>, down |-> <<>>, answer |-> "none",
   session |-> kind.nat, clientOpen |-> TRUE, excused |-> FALSE]

Init ==
  /\ loop = "accept" /\ hand = None /\ listening = TRUE
  /\ closed = FALSE /\ closer = "no" /\ activeConns = 0 /\ late = {}
  /\ h \in {f \in [Callers -> {NewClient(k) : k \in UNION {Profiles[c] : c \in Callers}}] :
              \A c \in Callers : f[c].kind \in Profiles[c]}
  /\ dial = [c \in Callers |-> NoDial([proxy |-> FALSE, https |-> FALSE, user |-> FALSE, bypass |-> FALSE])]

-----------------------------------------------------------------------------
(* Clients and upstream servers.                                           *)

Unread(c) == h[c].sent - h[c].read
Upd(c, r) == h' = [h EXCEPT ![c] = r]
At(c, pc) == h[c].pc = pc
KeepServer == UNCHANGED serverVars
Goto(c, pc) == [h[c] EXCEPT !.pc = pc]

ClientConnects(c) ==
  /\ At(c, "away") /\ listening
  /\ Upd(c, Goto(c, "backlog"))
  /\ KeepServer /\ UNCHANGED dial

ClientSends(c) ==
  /\ h[c].pc # "away" /\ h[c].clientOpen /\ h[c].sent < Chunks[c]
  /\ Upd(c, [h[c] EXCEPT !.sent = @ + 1])
  /\ KeepServer /\ UNCHANGED dial

-----------------------------------------------------------------------------
(* StartWithListener: the accept loop.                                     *)

Accept(c) ==
  /\ loop = "accept" /\ hand = None /\ listening /\ At(c, "backlog")
  /\ hand' = c
  /\ Upd(c, Goto(c, "hand"))
  /\ UNCHANGED <<loop, listening, closed, closer, activeConns, late, dial>>

StartHandler(c) ==
  /\ hand = c
  /\ hand' = None
  /\ activeConns' = activeConns + 1
  /\ late' = IF closer = "drained" THEN late \cup {c} ELSE late
  /\ Upd(c, Goto(c, "start"))
  /\ UNCHANGED <<loop, listening, closed, closer, dial>>

\* Accept fails once the listener is closed; other errors are retried.
AcceptFails ==
  /\ loop = "accept" /\ hand = None /\ ~listening /\ closed
  /\ loop' = "ended"
  /\ UNCHANGED <<hand, listening, closed, closer, activeConns, late, h, dial>>

-----------------------------------------------------------------------------
(* handleClient and handleExplicitProxyClient.                             *)

\* The original destination decides how the client is served.  Explicit
\* clients that are not local get a 403.
Lookup(c) ==
  /\ At(c, "start")
  /\ LET k == h[c].kind
     IN  Upd(c, CASE k.nat /\ k.serverFirst -> Goto(c, "policy")
                  [] k.nat /\ ~k.serverFirst -> Goto(c, "peek")
                  [] ~k.nat /\ k.local -> Goto(c, "request")
                  [] OTHER -> [Goto(c, "return") EXCEPT !.answer = "403"])
  /\ KeepServer /\ UNCHANGED dial

\* One read takes what has arrived, n chunks, and no more.
Peek(c, n) ==
  /\ At(c, "peek") /\ n \in 1 .. Unread(c)
  /\ Upd(c, [h[c] EXCEPT !.pc = "policy", !.read = n, !.buf = [i \in 1 .. n |-> i],
                         !.named = h[c].kind.web /\ n >= h[c].kind.helloLen])
  /\ KeepServer /\ UNCHANGED dial

\* 50 ms without data: the client may be waiting for the server.
PeekTimeout(c) ==
  /\ At(c, "peek") /\ Unread(c) = 0
  /\ Upd(c, Goto(c, "policy"))
  /\ KeepServer /\ UNCHANGED dial

\* The client has gone without sending anything.
PeekEOF(c) ==
  /\ At(c, "peek") /\ Unread(c) = 0
  /\ Upd(c, Goto(c, "return"))
  /\ KeepServer /\ UNCHANGED dial

\* http.ReadRequest through a reader that may have taken more than the
\* request: what it holds besides goes to the relay.  The request itself is
\* forwarded only if it is no CONNECT.
ReadRequest(c, n) ==
  /\ At(c, "request") /\ n \in 1 .. Unread(c)
  /\ Upd(c, [h[c] EXCEPT !.pc = "policy", !.read = n, !.named = TRUE,
                         !.buf = IF h[c].kind.connect THEN [i \in 1 .. n - 1 |-> i + 1]
                                 ELSE [i \in 1 .. n |-> i]])
  /\ KeepServer /\ UNCHANGED dial

\* No request in 5 s, an end of stream or something that is not HTTP.
RequestFails(c) ==
  /\ At(c, "request")
  /\ Upd(c, [Goto(c, "return") EXCEPT !.excused = TRUE])
  /\ KeepServer /\ UNCHANGED dial

(* ShouldBlock is asked for the name if it is known, else for the address. *)
Blocks(c) == h[c].kind.blocked = IF h[c].named THEN "name" ELSE "ip"

(* Web traffic goes to the proxy, once its first bytes have been seen; an  *)
(* explicit client's always.                                               *)
UsesProxy(c) ==
  /\ h[c].kind.route.proxy
  /\ h[c].kind.nat => h[c].kind.web /\ h[c].read > 0

\* Filter, routing decision and call of DialOutbound.  A blocked transparent
\* client is dropped, an explicit one gets a 403.
Policy(c) ==
  /\ At(c, "policy")
  /\ IF Blocks(c)
     THEN /\ Upd(c, [Goto(c, "return") EXCEPT !.answer = IF h[c].kind.nat THEN @ ELSE "403"])
          /\ UNCHANGED dial
     ELSE /\ Upd(c, Goto(c, "dial"))
          /\ DialOutbound(c, [h[c].kind.route EXCEPT !.proxy = UsesProxy(c)])
  /\ KeepServer

\* The filter or the resolver panics; the handler's deferred calls run.
HandlerPanics(c) ==
  /\ At(c, "policy")
  /\ Upd(c, [Goto(c, "return") EXCEPT !.excused = TRUE])
  /\ KeepServer /\ UNCHANGED dial

Dialling(c) ==
  /\ At(c, "dial") /\ DialStep(c)
  /\ KeepServer /\ UNCHANGED h

DialExpires(c) ==
  /\ At(c, "dial") /\ DeadlineFires(c)
  /\ KeepServer /\ UNCHANGED h

\* DialOutbound returns.  early: what the reader of the proxy's 200 took of
\* the bytes after it.
DialReturns(c, early) ==
  /\ At(c, "dial")
  /\ early # <<>> => dial[c].route.proxy /\ DownChunks[c] > 0
  /\ \/ /\ dial[c].pc = "ok"
        /\ Upd(c, [Goto(c, "dialled") EXCEPT !.early = early])
     \/ /\ dial[c].pc = "failed" /\ early = <<>>
        /\ Upd(c, [Goto(c, "return") EXCEPT !.answer = IF h[c].kind.nat THEN @ ELSE "502"])
  /\ KeepServer /\ UNCHANGED dial

\* A CONNECT is answered; other clients' first bytes are written upstream.
Dialled(c) ==
  /\ At(c, "dialled")
  /\ LET k == h[c].kind
     IN  Upd(c, IF ~k.nat /\ k.connect THEN [Goto(c, "relay") EXCEPT !.answer = "200"]
                ELSE Goto(c, IF h[c].buf = <<>> THEN "relay" ELSE "write"))
  /\ KeepServer /\ UNCHANGED dial

AnswerFails(c) ==
  /\ At(c, "dialled") /\ ~h[c].kind.nat /\ h[c].kind.connect
  /\ Upd(c, [Goto(c, "return") EXCEPT !.excused = TRUE])
  /\ KeepServer /\ UNCHANGED dial

\* What was peeked at goes upstream; the write has a deadline.
WriteInitial(c) ==
  /\ At(c, "write") /\ h[c].kind.nat
  /\ Upd(c, [Goto(c, "relay") EXCEPT !.up = h[c].buf, !.buf = <<>>])
  /\ KeepServer /\ UNCHANGED dial

(* The next chunk from the client, out of the request's reader before the  *)
(* socket, goes upstream.                                                  *)
Arrived(c) == h[c].buf # <<>> \/ Unread(c) > 0
TakenUp(c) ==
  IF h[c].buf # <<>> THEN [h[c] EXCEPT !.up = Append(@, Head(h[c].buf)), !.buf = Tail(@)]
  ELSE [h[c] EXCEPT !.read = @ + 1, !.up = Append(@, h[c].read + 1)]

\* req.Write and req.WriteProxy send the request's header, ...
WriteRequest(c) ==
  /\ At(c, "write") /\ ~h[c].kind.nat
  /\ Upd(c, [TakenUp(c) EXCEPT !.pc = "body"])
  /\ KeepServer /\ UNCHANGED dial

\* ... then copy its body from the client, whose read deadline is gone, and no
\* more than its body.  What the writer still buffers counts as sent.
CopyBody(c) ==
  /\ At(c, "body") /\ Len(h[c].up) <= h[c].kind.body /\ Arrived(c)
  /\ Upd(c, TakenUp(c))
  /\ KeepServer /\ UNCHANGED dial

BodyWritten(c) ==
  /\ At(c, "body") /\ Len(h[c].up) > h[c].kind.body
  /\ Upd(c, Goto(c, "relay"))
  /\ KeepServer /\ UNCHANGED dial

(* The handler is blocked in the read of a body.                           *)
AwaitsBody(c) == At(c, "body") /\ Len(h[c].up) <= h[c].kind.body /\ ~Arrived(c)

\* A write fails, or its deadline has passed; neither is noticed while the
\* body is waited for.
WriteFails(c) ==
  /\ h[c].pc \in {"write", "body"} /\ ~AwaitsBody(c)
  /\ Upd(c, [Goto(c, "return") EXCEPT !.excused = TRUE])
  /\ KeepServer /\ UNCHANGED dial

\* The client goes before it has sent the body.
BodyFails(c) ==
  /\ AwaitsBody(c)
  /\ Upd(c, [Goto(c, "return") EXCEPT !.excused = TRUE])
  /\ KeepServer /\ UNCHANGED dial

\* Mutant: the relay reads the client's socket past the request's reader.
UpIgnoresReader(c) ==
  /\ At(c, "relay") /\ Unread(c) > 0
  /\ Upd(c, [h[c] EXCEPT !.read = @ + 1, !.up = Append(@, h[c].read + 1)])
  /\ KeepServer /\ UNCHANGED dial

\* PipeConnEx, towards upstream: what the request's reader holds comes first.
RelayUp(c) ==
  /\ At(c, "relay") /\ Arrived(c)
  /\ Upd(c, TakenUp(c))
  /\ KeepServer /\ UNCHANGED dial

\* Towards the client: what came with the proxy's answer comes first.
RelayDown(c) ==
  /\ At(c, "relay")
  /\ \/ /\ h[c].early # <<>>
        /\ Upd(c, [h[c] EXCEPT !.down = Append(@, Head(h[c].early)), !.early = Tail(@)])
     \/ /\ h[c].early = <<>> /\ Len(h[c].down) < DownChunks[c]
        /\ Upd(c, [h[c] EXCEPT !.down = Append(@, Len(@) + 1)])
  /\ KeepServer /\ UNCHANGED dial

RelayEnds(c) ==
  /\ At(c, "relay")
  /\ Upd(c, Goto(c, "return"))
  /\ KeepServer /\ UNCHANGED dial

\* Mutant: the upstream connection is not closed.
ReturnKeepsOut(c) ==
  /\ At(c, "return")
  /\ Upd(c, [Goto(c, "released") EXCEPT !.session = FALSE, !.clientOpen = FALSE])
  /\ UNCHANGED dial
  /\ KeepServer

\* The deferred calls: the upstream connection, the session, the client.
HandlerReturns(c) ==
  /\ At(c, "return")
  /\ Upd(c, [Goto(c, "released") EXCEPT !.session = FALSE, !.clientOpen = FALSE])
  /\ dial' = [dial EXCEPT ![c] = [NoDial(@.route) EXCEPT !.open = dial[c].open \ {dial[c].conn}]]
  /\ KeepServer

HandlerDone(c) ==
  /\ At(c, "released")
  /\ Upd(c, Goto(c, "done"))
  /\ activeConns' = activeConns - 1
  /\ UNCHANGED <<loop, hand, listening, closed, closer, late, dial>>

-----------------------------------------------------------------------------
(* Close.                                                                  *)

CloseFlag ==
  /\ closer = "no"
  /\ closed' = TRUE /\ closer' = "flagged"
  /\ UNCHANGED <<loop, hand, listening, activeConns, late, h, dial>>

\* The clients the kernel has accepted and the program has not are reset.
CloseListener ==
  /\ closer = "flagged"
  /\ listening' = FALSE /\ closer' = "waiting"
  /\ h' = [c \in Callers |-> IF At(c, "backlog") THEN [Goto(c, "done") EXCEPT !.session = FALSE, !.clientOpen = FALSE]
                             ELSE h[c]]
  /\ UNCHANGED <<loop, hand, closed, activeConns, late, dial>>

\* Mutant: the wait group is not waited for.
CloseWithoutWait ==
  /\ closer = "waiting"
  /\ closer' = "drained"
  /\ UNCHANGED <<loop, hand, listening, closed, activeConns, late, h, dial>>

CloseDrained ==
  /\ closer = "waiting" /\ activeConns = 0
  /\ closer' = "drained"
  /\ UNCHANGED <<loop, hand, listening, closed, activeConns, late, h, dial>>

\* Mutant: Close waits for as long as it takes.
NoTimeout == FALSE /\ UNCHANGED vars

\* Three seconds.
CloseTimesOut ==
  /\ closer = "waiting"
  /\ closer' = "timedout"
  /\ UNCHANGED <<loop, hand, listening, closed, activeConns, late, h, dial>>

-----------------------------------------------------------------------------
Earlies(c) == {<<>>} \cup {<<1>>}

(* Steps the handler takes by itself, by the scheduler or by a timeout.    *)
Handle(c) ==
  \/ Lookup(c) \/ PeekTimeout(c) \/ PeekEOF(c) \/ \E n \in 1 .. Chunks[c] : Peek(c, n)
  \/ \E n \in 1 .. Chunks[c] : ReadRequest(c, n)
  \/ RequestFails(c) \/ Policy(c) \/ HandlerPanics(c)
  \/ At(c, "dial") /\ dial[c].pc = "dialing" /\ Dialling(c)
  \/ DialExpires(c) \/ \E e \in Earlies(c) : DialReturns(c, e)
  \/ Dialled(c) \/ AnswerFails(c)
  \/ WriteInitial(c) \/ WriteRequest(c) \/ CopyBody(c) \/ BodyWritten(c) \/ WriteFails(c)
  \/ HandlerReturns(c) \/ HandlerDone(c)

Next ==
  \/ \E c \in Callers :
       \/ ClientConnects(c) \/ ClientSends(c)
       \/ Accept(c) \/ StartHandler(c)
       \/ Handle(c) \/ Dialling(c) \/ BodyFails(c)
       \/ RelayUp(c) \/ RelayDown(c) \/ RelayEnds(c)
  \/ AcceptFails
  \/ CloseFlag \/ CloseListener \/ CloseDrained \/ CloseTimesOut

Spec == Init /\ [][Next]_vars

(* Goroutines that can run do run, and timeouts fire.  Nothing is assumed  *)
(* of clients, of the proxy's answers, or of a relay's end.                *)
FairSpec ==
  /\ Spec
  /\ \A c \in Callers : WF_vars(Handle(c)) /\ WF_vars(StartHandler(c))
  /\ WF_vars(\E c \in Callers : Accept(c))
  /\ WF_vars(AcceptFails) /\ WF_vars(CloseListener) /\ WF_vars(CloseDrained) /\ WF_vars(CloseTimesOut)

-----------------------------------------------------------------------------
FirstChunk(c) == IF ~h[c].kind.nat /\ h[c].kind.connect THEN 2 ELSE 1

\* Both ways the bytes arrive in order and without gap or repetition: what
\* was peeked at, what the request's reader took too much, what came with
\* the proxy's 200, and what the relay reads itself.
StreamsInOrder ==
  /\ TypeOK
  /\ \A c \in Callers :
    /\ \A i \in DOMAIN h[c].up : h[c].up[i] = FirstChunk(c) + i - 1
    /\ \A i \in DOMAIN h[c].down : h[c].down[i] = i

\* A handler that has returned, by whatever path, has closed both
\* connections and deleted the session, and an explicit client's request was
\* forwarded or answered unless a write failed or the policy panicked.  The
\* dial inside it leaves nothing behind either.
HandlerReleasesAll ==
  /\ DialLeavesNothing
  /\ \A c \in Callers :
    h[c].pc \in {"released", "done"} =>
      /\ ~h[c].clientOpen /\ ~h[c].session /\ dial[c].open = {}
      /\ ~h[c].kind.nat /\ h[c].read > 0 =>
           h[c].answer # "none" \/ h[c].up # <<>> \/ h[c].excused

\* When Close reports that the connections have drained no handler runs,
\* save one whose connection was in the accept loop's hand, accepted and not
\* yet counted.
DrainedMeansDone ==
  closer = "drained" => \A c \in Callers : h[c].pc \in Running \cup {"released"} => c \in late

\* Close returns and the accept loop ends, however many handlers hang; and
\* a handler hangs only in a relay, for the body of a request that its client
\* has announced and not sent, or on a proxy that is silent where there is no
\* deadline: in the TLS handshake, with bypass_sspi and in the Basic retry.
EverythingEnds ==
  /\ [](closed => <>(closer \in {"drained", "timedout"} /\ loop = "ended"))
  /\ \A c \in Callers :
       <>[](\/ h[c].pc \in {"away", "done"}
            \/ At(c, "relay")
            \/ AwaitsBody(c)
            \/ At(c, "dial") /\ Unbounded(c))
=============================================================================
