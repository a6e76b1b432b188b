----------------------------- MODULE ProxyDial ------------------------------
(***************************************************************************)
(* Forwarder.DialOutbound (internal/proxy/forwarder.go) and the CONNECT    *)
(* handshake of internal/sspi/negotiator.go: a direct dial, or a tunnel    *)
(* through an upstream proxy with Basic credentials sent first, SSPI when  *)
(* the proxy asks for it on Windows, and a second connection with Basic    *)
(* when SSPI fails.                                                        *)
(*                                                                         *)
(* Every caller has a dial of its own, a record of the function dial.  The *)
(* proxy at the other end is external: it answers anything, or nothing.    *)
(* Binding a local port and its retries are part of the outcome of a dial; *)
(* SSPI tokens and header syntax are data.                                 *)
(***************************************************************************)
EXTENDS Naturals, FiniteSets

CONSTANTS
    Callers,
    SSPISteps,   \* rounds of performSSPIHandshake (5 in the code)
    Windows      \* runtime.GOOS = "windows"

ASSUME DialAssumption == SSPISteps \in Nat \ {0} /\ Windows \in BOOLEAN

VARIABLE dial

(* What a proxy may answer a CONNECT with; the schemes and the closing of  *)
(* the connection matter with a 407 only.                                  *)
Answers ==
  {[status |-> s, closed |-> FALSE, basic |-> FALSE, sspi |-> FALSE] : s \in {"200", "other", "error"}}
    \cup [status : {"407"}, closed : BOOLEAN, basic : BOOLEAN, sspi : BOOLEAN]

Routes == [proxy : BOOLEAN, https : BOOLEAN, user : BOOLEAN, bypass : BOOLEAN]

DialState ==
  [pc       : {"idle", "dialing", "tls", "waiting", "ok", "failed"},
   route    : Routes,
   kind     : {"none", "bypass", "first", "sspi", "basic", "fresh"},
   conn     : 1 .. 2,              \* the second one is the fresh retry
   open     : SUBSET (1 .. 2),     \* sockets that are open
   deadline : BOOLEAN,             \* conn has a deadline
   hasBasic : BOOLEAN,             \* the first 407 offered Basic
   round    : Nat,
   connects : Nat,                 \* ghost: CONNECT requests sent
   basics   : Nat]                 \* ghost: of which with Basic credentials

DialTypeOK == dial \in [Callers -> DialState]

NoDial(route) ==
  [pc |-> "idle", route |-> route, kind |-> "none", conn |-> 1, open |-> {}, deadline |-> FALSE,
   hasBasic |-> FALSE, round |-> 0, connects |-> 0, basics |-> 0]

-----------------------------------------------------------------------------
Failed(d) == [d EXCEPT !.pc = "failed", !.open = @ \ {d.conn}, !.deadline = FALSE]

Request(d, kind, basic) ==
  [d EXCEPT !.pc = "waiting", !.kind = kind, !.connects = @ + 1,
            !.basics = IF basic THEN @ + 1 ELSE @]

(* The first request on a connection.  AuthenticateProxyTunnel sets a      *)
(* deadline and clears it when it returns; the bypass and the retry have   *)
(* none.                                                                   *)
FirstRequest(d) ==
  CASE d.conn = 2                    -> Request(d, "fresh", TRUE)
    [] d.conn # 2 /\ d.route.bypass  -> Request(d, "bypass", d.route.user)
    [] d.conn # 2 /\ ~d.route.bypass ->
         [Request(d, "first", d.route.user) EXCEPT !.deadline = TRUE]

Established(d) == [d EXCEPT !.pc = "ok", !.deadline = FALSE]

(* ErrSSPIFailedWithBasicAvailable: DialOutbound closes the connection and *)
(* dials another one.                                                      *)
Retry(d) ==
  [d EXCEPT !.pc = "dialing", !.kind = "none", !.conn = 2, !.deadline = FALSE,
            !.open = @ \ {d.conn}]

SSPIFailed(d) == IF d.hasBasic /\ d.route.user THEN Retry(d) ELSE Failed(d)

(* AuthenticateProxyTunnel after the first answer.                         *)
FirstAnswer(d, a) ==
  LET e == [d EXCEPT !.hasBasic = a.basic]
  IN  CASE a.status = "200" -> {Established(d)}
        [] a.status \notin {"200", "407"} -> {Failed(d)}
        [] a.status = "407" /\ a.closed ->
             {IF a.basic /\ d.route.user THEN Retry(e) ELSE Failed(e)}
        [] a.status = "407" /\ ~a.closed /\ Windows /\ a.sspi ->
             {[Request(e, "sspi", FALSE) EXCEPT !.round = 1], SSPIFailed(e)}
        [] a.status = "407" /\ ~a.closed /\ ~(Windows /\ a.sspi) ->
             {IF a.basic /\ d.route.user THEN Request(e, "basic", TRUE) ELSE Failed(e)}

(* performSSPIHandshake after an answer: another round needs a 407 with a  *)
(* challenge, a context that is not complete and a token for it.           *)
SSPIAnswer(d, a) ==
  CASE a.status = "200" -> {Established(d)}
    [] a.status = "407" /\ d.round < SSPISteps ->
         {[Request(d, "sspi", FALSE) EXCEPT !.round = @ + 1], SSPIFailed(d)}
    [] OTHER -> {SSPIFailed(d)}

(* The bypass, the second Basic request and the retry end with the answer. *)
LastAnswer(d, a) == {IF a.status = "200" THEN Established(d) ELSE Failed(d)}

AfterAnswer(d, a) ==
  CASE d.kind = "first" -> FirstAnswer(d, a)
    [] d.kind = "sspi"  -> SSPIAnswer(d, a)
    [] OTHER            -> LastAnswer(d, a)

-----------------------------------------------------------------------------
DialOutbound(c, route) ==
  /\ dial[c].pc = "idle"
  /\ dial' = [dial EXCEPT ![c] = [NoDial(route) EXCEPT !.pc = "dialing"]]

\* dialTCP has a timeout of its own.
DialFails(c) ==
  /\ dial[c].pc = "dialing"
  /\ dial' = [dial EXCEPT ![c] = Failed(@)]

DialConnects(c) ==
  /\ dial[c].pc = "dialing"
  /\ LET d == [dial[c] EXCEPT !.open = @ \cup {dial[c].conn}]
     IN  dial' = [dial EXCEPT ![c] =
                    IF ~d.route.proxy THEN Established(d)
                    ELSE IF d.route.https THEN [d EXCEPT !.pc = "tls"]
                    ELSE FirstRequest(d)]

\* The TLS handshake with the proxy has no deadline.
Handshake(c) ==
  /\ dial[c].pc = "tls"
  /\ \E d \in {FirstRequest(dial[c]), Failed(dial[c])} : dial' = [dial EXCEPT ![c] = d]

Answer(c, a) ==
  /\ dial[c].pc = "waiting"
  /\ \E d \in AfterAnswer(dial[c], a) : dial' = [dial EXCEPT ![c] = d]

\* A read or write that waits is ended by the deadline, if there is one.
DeadlineFires(c) ==
  /\ dial[c].deadline
  /\ Answer(c, [status |-> "error", closed |-> FALSE, basic |-> FALSE, sspi |-> FALSE])

DialStep(c) ==
  \/ DialFails(c)
  \/ DialConnects(c)
  \/ Handshake(c)
  \/ \E a \in Answers : Answer(c, a)

(* A dial that waits for the proxy with nothing to end the wait.           *)
Unbounded(c) == dial[c].pc = "tls" \/ (dial[c].pc = "waiting" /\ ~dial[c].deadline)

-----------------------------------------------------------------------------
\* DialOutbound returns with exactly one open connection and no deadline
\* left on it, or with none at all, whichever of the answers, errors and
\* retries it went through; and a proxy that goes on refusing is not asked for
\* ever: one dial sends a bounded number of requests, the Basic credentials
\* twice at most and only to a proxy that has some.
DialLeavesNothing ==
  \A c \in Callers :
    /\ dial[c].pc = "ok" => dial[c].open = {dial[c].conn} /\ ~dial[c].deadline
    /\ dial[c].pc = "failed" => dial[c].open = {} /\ ~dial[c].deadline
    /\ Cardinality(dial[c].open) <= 1
    /\ dial[c].connects <= SSPISteps + 2
    /\ dial[c].basics <= 2
    /\ ~dial[c].route.user => dial[c].basics = 0
    /\ dial[c].round > 0 => Windows
=============================================================================
