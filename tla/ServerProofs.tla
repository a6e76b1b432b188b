---------------------------- MODULE ServerProofs ----------------------------
(***************************************************************************)
(* Proofs about the proxy server, for any number of clients, any bytes and *)
(* any behaviour of the proxies: types, the order of the bytes, the filter,*)
(* what a handler leaves behind, and what Close may conclude.              *)
(***************************************************************************)
EXTENDS Server, FiniteSetTheorems, SequenceTheorems, TLAPS

-----------------------------------------------------------------------------
(* What is known of a dial d.                                              *)

\* The credentials a dial has used so far.
Frugal(d) ==
  /\ d.connects <= SSPISteps + 2
  /\ d.basics <= 2
  /\ ~d.route.user => d.basics = 0
  /\ d.round > 0 => Windows

\* What was sent before the next request: nothing on the first connection, and
\* on the second, which only a user has, at most what SSPI needs.
Before(d) ==
  IF d.conn = 1 THEN d.connects = 0 /\ d.basics = 0 /\ d.round = 0
  ELSE d.route.user /\ d.connects <= SSPISteps + 1 /\ d.basics <= 1

\* A request is on its way.
Asked(d) ==
  /\ d.kind \in {"first", "bypass"} => d.conn = 1 /\ d.connects = 1 /\ d.basics <= 1 /\ d.round = 0
  /\ d.kind = "sspi" =>
       /\ d.conn = 1 /\ d.basics <= 1
       /\ d.round \in 1 .. SSPISteps /\ d.connects = d.round + 1
  /\ d.kind \in {"basic", "fresh"} => d.route.user

\* The connection in use is the one that is open.
Connected(d) == d.open = {d.conn}

DialSound(d) ==
  /\ Frugal(d)
  /\ d.pc \in {"idle", "dialing", "failed"} => d.open = {}
  /\ d.pc \in {"tls", "waiting", "ok"} => Connected(d)
  /\ d.deadline => d.pc = "waiting"
  /\ d.pc \in {"idle", "dialing", "tls"} => Before(d)
  /\ d.pc = "waiting" => Asked(d)

-----------------------------------------------------------------------------
(* What is known of a client c whose handler is in state r, with dial d.   *)

Bounded(c, r) ==
  /\ r.sent \in 0 .. Chunks[c] /\ r.read \in 0 .. r.sent
  /\ r.buf \in Seq(1 .. Chunks[c]) /\ r.up \in Seq(1 .. Chunks[c])
  /\ r.early \in Seq(1 .. DownChunks[c]) /\ r.down \in Seq(1 .. DownChunks[c])

First(r) == IF ~r.kind.nat /\ r.kind.connect THEN 2 ELSE 1

NothingRead == {"away", "backlog", "hand", "start", "peek", "request"}
Routed == {"dial", "dialled", "write", "body", "relay"}

\* A sequence of consecutive chunks, the first of which is a.
Runs(s, a) == \A i \in 1 .. Len(s) : s[i] = a + i - 1

\* What went upstream is the beginning of what the client sent, ...
Forwarded(r) == Runs(r.up, First(r))

\* ... and what the handler holds is the rest of what it has read.
Held(r) ==
  /\ r.read = First(r) - 1 + Len(r.up) + Len(r.buf)
  /\ Runs(r.buf, First(r) + Len(r.up))

UpInOrder(r) ==
  /\ r.pc \in NothingRead => r.read = 0 /\ r.buf = <<>>
  /\ r.pc \in NothingRead \cup {"policy", "dial", "dialled", "write"} => r.up = <<>>
  /\ Forwarded(r)
  /\ r.pc \in Routed \cup {"policy"} => Held(r)

DownInOrder(r) ==
  /\ r.pc \in NothingRead \cup {"policy", "dial"} => r.early = <<>>
  /\ r.pc \in NothingRead \cup {"policy", "dial", "dialled", "write", "body"} => r.down = <<>>
  /\ r.early = <<>> \/ (r.early = <<1>> /\ r.down = <<>>)
  /\ Runs(r.down, 1)

\* An explicit client's request, once read, is forwarded or answered.
Answering(r) ==
  /\ r.pc = "peek" => r.kind.nat
  /\ r.pc = "request" => ~r.kind.nat
  /\ ~r.kind.nat /\ ~r.kind.connect /\ r.pc \in {"policy", "dial", "dialled", "write"} => r.buf # <<>>
  /\ r.pc = "write" => r.kind.nat \/ ~r.kind.connect
  /\ ~r.kind.nat /\ r.pc \in {"body", "relay"} => r.answer # "none" \/ r.up # <<>>
  /\ ~r.kind.nat /\ r.pc \in {"return", "released", "done"} /\ r.read > 0 =>
       r.answer # "none" \/ r.up # <<>> \/ r.excused

Released(r) == r.pc \in {"released", "done"} => ~r.clientOpen /\ ~r.session

\* Where the handler and its dial are.
Linked(r, d) ==
  /\ r.pc \in NothingRead \cup {"policy", "released", "done"} => d.pc = "idle"
  /\ r.pc \in {"dialled", "write", "body", "relay"} => d.pc = "ok"
  /\ r.pc = "return" => d.pc \in {"idle", "ok", "failed"}

ClientSound(c, r) ==
  /\ r \in ClientState /\ Bounded(c, r)
  /\ UpInOrder(r) /\ DownInOrder(r) /\ Answering(r) /\ Released(r)

\* Everything that is known of one client.
Sound(c, r, d) == ClientSound(c, r) /\ d \in DialState /\ DialSound(d) /\ Linked(r, d)

AllSound ==
  /\ h \in [Callers -> ClientState] /\ dial \in [Callers -> DialState]
  /\ \A c \in Callers : Sound(c, h[c], dial[c])

-----------------------------------------------------------------------------
(* What is known of the wait group and of Close.                           *)

Counted(pc) == pc \in Running \cup {"released"}
Live == {c \in Callers : Counted(h[c].pc)}

GroupInv ==
  /\ activeConns = Cardinality(Live)
  /\ \A c \in Callers : h[c].pc = "hand" <=> hand = c
  /\ closer = "drained" => Live \subseteq late

FlagTypes ==
  /\ loop \in {"accept", "ended"} /\ hand \in Callers \cup {None}
  /\ listening \in BOOLEAN /\ closed \in BOOLEAN
  /\ closer \in {"no", "flagged", "waiting", "drained", "timedout"}
  /\ late \subseteq Callers

ServerInv == FlagTypes /\ GroupInv /\ AllSound

-----------------------------------------------------------------------------
(* Dialling.                                                               *)

\* The operators of the dial, field by field.
LEMMA FailedFields ==
  ASSUME NEW d \in DialState
  PROVE  LET e == Failed(d) IN
         /\ e \in DialState /\ e.pc = "failed" /\ e.open = d.open \ {d.conn} /\ e.deadline = FALSE
         /\ e.connects = d.connects /\ e.basics = d.basics /\ e.round = d.round /\ e.route = d.route
BY DEF Failed, DialState

\* So is a tunnel that is established ...
LEMMA EstablishedFields ==
  ASSUME NEW d \in DialState
  PROVE  LET e == Established(d) IN
         /\ e \in DialState /\ e.pc = "ok" /\ e.open = d.open /\ e.deadline = FALSE
         /\ e.conn = d.conn
         /\ e.connects = d.connects /\ e.basics = d.basics /\ e.round = d.round /\ e.route = d.route
BY DEF Established, DialState

\* ... a connection that is given up for another ...
LEMMA RetryFields ==
  ASSUME NEW d \in DialState
  PROVE  LET e == Retry(d) IN
         /\ e \in DialState /\ e.pc = "dialing" /\ e.open = d.open \ {d.conn} /\ e.deadline = FALSE
         /\ e.conn = 2
         /\ e.connects = d.connects /\ e.basics = d.basics /\ e.round = d.round /\ e.route = d.route
PROOF
  <1> DEFINE x == [d EXCEPT !.pc = "dialing", !.kind = "none", !.deadline = FALSE,
                            !.open = @ \ {d.conn}]
  <1>1. /\ x \in DialState /\ x.pc = "dialing" /\ x.open = d.open \ {d.conn} /\ x.deadline = FALSE
        /\ x.connects = d.connects /\ x.basics = d.basics /\ x.round = d.round /\ x.route = d.route
    BY DEF DialState
  <1>2. Retry(d) = [x EXCEPT !.conn = 2]
    BY DEF Retry, DialState
  <1> HIDE DEF x
  <1>3. 2 \in 1 .. 2
    OBVIOUS
  <1> QED
    BY <1>1, <1>2, <1>3 DEF DialState

\* ... and a request that is sent, after which n have had Basic credentials.
Sent(d, kind, n) ==
  [d EXCEPT !.pc = "waiting", !.kind = kind, !.connects = @ + 1, !.basics = n]

\* Its fields.
IsSent(d, e, kind, n) ==
  /\ e \in DialState /\ e.pc = "waiting" /\ e.kind = kind /\ e.open = d.open
  /\ e.conn = d.conn /\ e.route = d.route /\ e.round = d.round
  /\ e.connects = d.connects + 1 /\ e.basics = n

\* They are as they should be.
LEMMA RequestFields ==
  ASSUME NEW d \in DialState, NEW kind \in {"bypass", "first", "sspi", "basic", "fresh"},
         NEW n \in Nat
  PROVE  IsSent(d, Sent(d, kind, n), kind, n)
PROOF
  <1> DEFINE x == [d EXCEPT !.pc = "waiting", !.kind = kind]
             e == Sent(d, kind, n)
  <1>1. d.connects + 1 \in Nat
    BY DEF DialState
  <1>2. /\ x \in DialState /\ x.pc = "waiting" /\ x.kind = kind /\ x.open = d.open
        /\ x.conn = d.conn /\ x.route = d.route /\ x.round = d.round
    BY DEF DialState
  <1>3. e = [x EXCEPT !.connects = d.connects + 1, !.basics = n]
    BY DEF DialState, Sent
  <1> HIDE DEF x
  <1> QED
    BY <1>1, <1>2, <1>3 DEF DialState, IsSent

\* A dial that fails leaves nothing open.
LEMMA FailedSound ==
  ASSUME NEW d \in DialState, Frugal(d), d.open \subseteq {d.conn}
  PROVE  Failed(d) \in DialState /\ DialSound(Failed(d))
PROOF
  <1> DEFINE e == Failed(d)
  <1>1. /\ e \in DialState /\ e.pc = "failed" /\ e.open = {} /\ e.deadline = FALSE
        /\ e.connects = d.connects /\ e.basics = d.basics /\ e.round = d.round /\ e.route = d.route
    BY FailedFields
  <1> HIDE DEF e
  <1>2. Frugal(e)
    BY <1>1 DEF Frugal
  <1> QED
    BY <1>1, <1>2 DEF DialSound, e

\* One that succeeds has its connection.
LEMMA EstablishedSound ==
  ASSUME NEW d \in DialState, Frugal(d), Connected(d)
  PROVE  Established(d) \in DialState /\ DialSound(Established(d))
PROOF
  <1> DEFINE e == Established(d)
  <1>1. /\ e \in DialState /\ e.pc = "ok" /\ e.open = d.open /\ e.conn = d.conn /\ e.deadline = FALSE
        /\ e.connects = d.connects /\ e.basics = d.basics /\ e.round = d.round /\ e.route = d.route
    BY EstablishedFields
  <1> HIDE DEF e
  <1>2. Frugal(e) /\ Connected(e)
    BY <1>1 DEF Frugal, Connected
  <1> QED
    BY <1>1, <1>2 DEF DialSound, e

\* A second connection is dialled after the first has been closed.
LEMMA RetrySound ==
  ASSUME NEW d \in DialState, Frugal(d), d.open \subseteq {d.conn}, d.route.user,
         d.connects <= SSPISteps + 1, d.basics <= 1
  PROVE  Retry(d) \in DialState /\ DialSound(Retry(d))
PROOF
  <1> DEFINE e == Retry(d)
  <1>1. /\ e \in DialState /\ e.pc = "dialing" /\ e.open = {} /\ e.deadline = FALSE /\ e.conn = 2
        /\ e.connects = d.connects /\ e.basics = d.basics /\ e.round = d.round /\ e.route = d.route
    BY RetryFields
  <1> HIDE DEF e
  <1>2. Frugal(e) /\ Before(e)
    BY <1>1 DEF Frugal, Before
  <1> QED
    BY <1>1, <1>2 DEF DialSound, e

\* The first request on a connection.
LEMMA FirstRequestSound ==
  ASSUME NEW d \in DialState, Frugal(d), Before(d), Connected(d)
  PROVE  FirstRequest(d) \in DialState /\ DialSound(FirstRequest(d))
PROOF
  <1>0. /\ d.conn \in {1, 2} /\ d.connects \in Nat /\ d.basics \in Nat /\ SSPISteps \in Nat
        /\ SSPISteps > 0
    BY DialAssumption DEF DialState
  <1>1. CASE d.conn = 2
    <2>1. PICK n \in Nat : n = d.basics + 1
      BY <1>0
    <2> DEFINE e == Sent(d, "fresh", n)
    <2>2. FirstRequest(d) = e
      BY <1>1, <2>1 DEF FirstRequest, Request, Sent
    <2>3. IsSent(d, e, "fresh", n)
      BY RequestFields
    <2> HIDE DEF e
    <2>4. Frugal(e) /\ Asked(e) /\ Connected(e)
      BY <1>0, <1>1, <2>1, <2>3 DEF Frugal, Asked, Before, Connected, IsSent
    <2>5. DialSound(e)
      BY <2>3, <2>4 DEF DialSound, IsSent
    <2> QED
      BY <2>2, <2>3, <2>5 DEF IsSent
  <1>2. CASE d.conn = 1 /\ d.route.bypass
    <2>1. PICK n \in Nat : n = IF d.route.user THEN d.basics + 1 ELSE d.basics
      BY <1>0
    <2> DEFINE e == Sent(d, "bypass", n)
    <2>2. FirstRequest(d) = e
      BY <1>2, <2>1 DEF FirstRequest, Request, Sent
    <2>3. IsSent(d, e, "bypass", n)
      BY RequestFields
    <2> HIDE DEF e
    <2>4. Frugal(e) /\ Asked(e) /\ Connected(e)
      BY <1>0, <1>2, <2>1, <2>3 DEF Frugal, Asked, Before, Connected, IsSent
    <2>5. DialSound(e)
      BY <2>3, <2>4 DEF DialSound, IsSent
    <2> QED
      BY <2>2, <2>3, <2>5 DEF IsSent
  <1>3. CASE d.conn = 1 /\ ~d.route.bypass
    <2>1. PICK n \in Nat : n = IF d.route.user THEN d.basics + 1 ELSE d.basics
      BY <1>0
    <2> DEFINE f == Sent(d, "first", n)
               e == [f EXCEPT !.deadline = TRUE]
    <2>2. FirstRequest(d) = e
      BY <1>3, <2>1 DEF FirstRequest, Request, Sent
    <2>3. IsSent(d, f, "first", n)
      BY RequestFields
    <2> HIDE DEF f
    <2>4. /\ e \in DialState /\ e.pc = "waiting" /\ e.kind = "first" /\ e.open = d.open
          /\ e.conn = d.conn /\ e.route = d.route /\ e.round = d.round
          /\ e.connects = d.connects + 1 /\ e.basics = n
      BY <2>3 DEF DialState, IsSent
    <2> HIDE DEF e
    <2>5. Frugal(e) /\ Asked(e) /\ Connected(e)
      BY <1>0, <1>3, <2>1, <2>4 DEF Frugal, Asked, Before, Connected
    <2>6. DialSound(e)
      BY <2>4, <2>5 DEF DialSound
    <2> QED
      BY <2>2, <2>4, <2>6
  <1> QED
    BY <1>0, <1>1, <1>2, <1>3

\* A further SSPI request, the k-th, is sent on the first connection.
LEMMA SSPIRequestSound ==
  ASSUME NEW d \in DialState, Frugal(d), Connected(d), d.conn = 1, d.basics <= 1, Windows,
         NEW k \in 1 .. SSPISteps, d.connects = k
  PROVE  LET e == [Request(d, "sspi", FALSE) EXCEPT !.round = k]
         IN  e \in DialState /\ DialSound(e)
PROOF
  <1>0. d.basics \in Nat /\ SSPISteps \in Nat /\ k \in Nat
    BY DialAssumption DEF DialState
  <1> DEFINE f == Sent(d, "sspi", d.basics)
             e == [f EXCEPT !.round = k]
  <1>1. Request(d, "sspi", FALSE) = f
    BY DEF Request, Sent
  <1>2. IsSent(d, f, "sspi", d.basics)
    BY <1>0, RequestFields
  <1> HIDE DEF f
  <1>3. /\ e \in DialState /\ e.pc = "waiting" /\ e.kind = "sspi" /\ e.open = d.open
        /\ e.conn = d.conn /\ e.route = d.route /\ e.connects = d.connects + 1
        /\ e.basics = d.basics /\ e.round = k
    BY <1>0, <1>2 DEF DialState, IsSent
  <1> HIDE DEF e
  <1>4. Frugal(e) /\ Asked(e) /\ Connected(e)
    BY <1>0, <1>3 DEF Frugal, Asked, Connected
  <1>5. DialSound(e)
    BY <1>3, <1>4 DEF DialSound
  <1> QED
    BY <1>1, <1>3, <1>5 DEF e

\* SSPI fails: another connection, if that makes sense.
LEMMA SSPIFailedSound ==
  ASSUME NEW d \in DialState, Frugal(d), Connected(d), d.basics <= 1, d.connects <= SSPISteps + 1
  PROVE  SSPIFailed(d) \in DialState /\ DialSound(SSPIFailed(d))
PROOF
  <1>1. Failed(d) \in DialState /\ DialSound(Failed(d))
    BY FailedSound DEF Connected
  <1>2. CASE d.hasBasic /\ d.route.user
    <2>1. Retry(d) \in DialState /\ DialSound(Retry(d))
      BY <1>2, RetrySound DEF Connected
    <2> QED
      BY <1>2, <2>1 DEF SSPIFailed
  <1> QED
    BY <1>1, <1>2 DEF SSPIFailed

\* The first 407 tells whether the proxy takes Basic.
LEMMA OfferedFields ==
  ASSUME NEW d \in DialState, NEW a \in Answers, Frugal(d), Connected(d)
  PROVE  LET e == [d EXCEPT !.hasBasic = a.basic] IN
         /\ e \in DialState /\ e.conn = d.conn /\ e.route = d.route /\ e.open = d.open
         /\ e.connects = d.connects /\ e.basics = d.basics /\ e.round = d.round
         /\ Frugal(e) /\ Connected(e)
PROOF
  <1> DEFINE e == [d EXCEPT !.hasBasic = a.basic]
  <1>1. a.basic \in BOOLEAN
    <2>1. CASE a \in [status : {"407"}, closed : BOOLEAN, basic : BOOLEAN, sspi : BOOLEAN]
      BY <2>1
    <2>2. CASE a \notin [status : {"407"}, closed : BOOLEAN, basic : BOOLEAN, sspi : BOOLEAN]
      <3>1. PICK s : a = [status |-> s, closed |-> FALSE, basic |-> FALSE, sspi |-> FALSE]
        BY <2>2, Zenon DEF Answers
      <3> QED
        BY <3>1
    <2> QED
      BY <2>1, <2>2
  <1>2. /\ e \in DialState /\ e.conn = d.conn /\ e.route = d.route /\ e.open = d.open
        /\ e.connects = d.connects /\ e.basics = d.basics /\ e.round = d.round
    BY <1>1 DEF DialState
  <1> HIDE DEF e
  <1>3. Frugal(e) /\ Connected(e)
    BY <1>2 DEF Frugal, Connected
  <1> QED
    BY <1>2, <1>3 DEF e

\* The answer to the first request.
LEMMA FirstAnswerSound ==
  ASSUME NEW d \in DialState, NEW a \in Answers, Frugal(d), Connected(d),
         d.conn = 1, d.connects = 1, d.basics <= 1, d.round = 0, NEW f \in FirstAnswer(d, a)
  PROVE  f \in DialState /\ DialSound(f)
PROOF
  <1> DEFINE e == [d EXCEPT !.hasBasic = a.basic]
  <1>0. SSPISteps \in Nat /\ SSPISteps > 0 /\ d.basics \in Nat
    BY DialAssumption DEF DialState
  <1>1. /\ e \in DialState /\ e.conn = 1 /\ e.route = d.route
        /\ e.connects = 1 /\ e.basics = d.basics /\ e.round = 0
        /\ Frugal(e) /\ Connected(e)
    BY OfferedFields
  <1>2. \/ f = Established(d) \/ f = Failed(d) \/ f = Failed(e) \/ f = SSPIFailed(e)
        \/ f = Retry(e) /\ d.route.user
        \/ f = [Request(e, "sspi", FALSE) EXCEPT !.round = 1] /\ Windows
        \/ f = Request(e, "basic", TRUE) /\ d.route.user
    BY DEF FirstAnswer
  <1> HIDE DEF e
  <1>3. CASE f = Established(d)
    BY <1>3, EstablishedSound
  <1>4. CASE f = Failed(d)
    BY <1>4, FailedSound DEF Connected
  <1>5. CASE f = Failed(e)
    BY <1>1, <1>5, FailedSound DEF Connected
  <1>6. CASE f = SSPIFailed(e)
    BY <1>0, <1>1, <1>6, SSPIFailedSound
  <1>7. CASE f = Retry(e) /\ d.route.user
    <2>1. e.open \subseteq {e.conn} /\ e.route.user /\ e.connects <= SSPISteps + 1 /\ e.basics <= 1
      BY <1>0, <1>1, <1>7 DEF Connected
    <2> QED
      BY <1>1, <1>7, <2>1, RetrySound
  <1>8. CASE f = [Request(e, "sspi", FALSE) EXCEPT !.round = 1] /\ Windows
    <2>1. 1 \in 1 .. SSPISteps
      BY <1>0
    <2> QED
      BY <1>1, <1>8, <2>1, SSPIRequestSound
  <1>9. CASE f = Request(e, "basic", TRUE) /\ d.route.user
    <2>1. f = Sent(e, "basic", e.basics + 1)
      BY <1>9 DEF Request, Sent
    <2>2. e.basics + 1 \in Nat
      BY <1>0, <1>1
    <2>3. IsSent(e, f, "basic", e.basics + 1)
      BY <1>1, <2>1, <2>2, RequestFields
    <2>4. Frugal(f)
      <3>1. f.connects = 2 /\ f.basics = d.basics + 1 /\ f.round = 0 /\ f.route = d.route
        BY <1>1, <2>3 DEF IsSent
      <3>2. f.route.user
        BY <1>9, <3>1
      <3>3. d.basics + 1 <= 2 /\ 2 <= SSPISteps + 2
        BY <1>0
      <3> QED
        BY <3>1, <3>2, <3>3 DEF Frugal
    <2>5. Asked(f)
      BY <1>1, <1>9, <2>3 DEF Asked, IsSent
    <2>6. Connected(f)
      BY <1>1, <2>3 DEF Connected, IsSent
    <2> QED
      BY <2>3, <2>4, <2>5, <2>6 DEF DialSound, IsSent
  <1> QED
    BY <1>2, <1>3, <1>4, <1>5, <1>6, <1>7, <1>8, <1>9

\* The answer to an SSPI request.
LEMMA SSPIAnswerSound ==
  ASSUME NEW d \in DialState, NEW a \in Answers, Frugal(d), Connected(d), d.kind = "sspi",
         Asked(d), NEW f \in SSPIAnswer(d, a)
  PROVE  f \in DialState /\ DialSound(f)
PROOF
  <1>0. SSPISteps \in Nat /\ d.basics \in Nat /\ d.round \in Nat
    BY DialAssumption DEF DialState
  <1>1. /\ d.conn = 1 /\ d.basics <= 1 /\ d.round \in 1 .. SSPISteps /\ d.connects = d.round + 1
    BY DEF Asked
  <1>2. Windows
    BY <1>0, <1>1 DEF Frugal
  <1>3. Request(d, "sspi", FALSE).round = d.round
    BY DEF Request, DialState
  <1>4. \/ f = Established(d) \/ f = SSPIFailed(d)
        \/ f = [Request(d, "sspi", FALSE) EXCEPT !.round = d.round + 1] /\ d.round < SSPISteps
    BY <1>3 DEF SSPIAnswer
  <1>5. CASE f = Established(d)
    BY <1>5, EstablishedSound
  <1>6. CASE f = SSPIFailed(d)
    <2>1. d.connects <= SSPISteps + 1
      BY <1>0, <1>1
    <2> QED
      BY <1>1, <1>6, <2>1, SSPIFailedSound
  <1>7. CASE f = [Request(d, "sspi", FALSE) EXCEPT !.round = d.round + 1] /\ d.round < SSPISteps
    <2>1. PICK k \in 1 .. SSPISteps : k = d.round + 1
      BY <1>0, <1>7
    <2> QED
      BY <1>1, <1>2, <1>7, <2>1, SSPIRequestSound
  <1> QED
    BY <1>4, <1>5, <1>6, <1>7

\* Whatever a proxy answers, and whenever, the dial goes on as it should.
LEMMA AnswerSound ==
  ASSUME NEW d \in DialState, NEW a \in Answers, DialSound(d), d.pc = "waiting",
         NEW f \in AfterAnswer(d, a)
  PROVE  f \in DialState /\ DialSound(f)
PROOF
  <1>1. Frugal(d) /\ Asked(d) /\ Connected(d)
    BY DEF DialSound
  <1>2. CASE d.kind = "first"
    <2>1. f \in FirstAnswer(d, a)
      BY <1>2 DEF AfterAnswer
    <2>2. d.conn = 1 /\ d.connects = 1 /\ d.basics <= 1 /\ d.round = 0
      BY <1>1, <1>2 DEF Asked
    <2> QED
      BY <1>1, <2>1, <2>2, FirstAnswerSound
  <1>3. CASE d.kind = "sspi"
    <2>1. f \in SSPIAnswer(d, a)
      BY <1>3 DEF AfterAnswer
    <2> QED
      BY <1>1, <1>3, <2>1, SSPIAnswerSound
  <1>4. CASE d.kind \notin {"first", "sspi"}
    <2>1. f = Established(d) \/ f = Failed(d)
      BY <1>4 DEF AfterAnswer, LastAnswer
    <2>2. Established(d) \in DialState /\ DialSound(Established(d))
      BY <1>1, EstablishedSound
    <2>3. Failed(d) \in DialState /\ DialSound(Failed(d))
      BY <1>1, FailedSound DEF Connected
    <2> QED
      BY <2>1, <2>2, <2>3
  <1> QED
    BY <1>2, <1>3, <1>4

\* A connection is made: it is the only one.
LEMMA OpenedFields ==
  ASSUME NEW d \in DialState, DialSound(d), d.pc = "dialing"
  PROVE  LET e == [d EXCEPT !.open = @ \cup {d.conn}] IN
         /\ e \in DialState /\ e.deadline = d.deadline
         /\ Frugal(e) /\ Before(e) /\ Connected(e)
PROOF
  <1> DEFINE e == [d EXCEPT !.open = @ \cup {d.conn}]
  <1>1. d.open = {} /\ Frugal(d) /\ Before(d)
    BY DEF DialSound
  <1>2. d.open \cup {d.conn} \in SUBSET (1 .. 2)
    BY DEF DialState
  <1>3. /\ e \in DialState /\ e.conn = d.conn /\ e.route = d.route /\ e.open = {d.conn}
        /\ e.connects = d.connects /\ e.basics = d.basics /\ e.round = d.round
        /\ e.deadline = d.deadline
    BY <1>1, <1>2 DEF DialState
  <1> HIDE DEF e
  <1>4. Frugal(e) /\ Before(e)
    BY <1>1, <1>3 DEF Frugal, Before
  <1>5. Connected(e)
    BY <1>3 DEF Connected
  <1> QED
    BY <1>3, <1>4, <1>5 DEF e

\* The TLS handshake with the proxy begins.
LEMMA HandshakeBegins ==
  ASSUME NEW d \in DialState, Frugal(d), Before(d), Connected(d), ~d.deadline
  PROVE  LET e == [d EXCEPT !.pc = "tls"] IN e \in DialState /\ DialSound(e)
PROOF
  <1> DEFINE e == [d EXCEPT !.pc = "tls"]
  <1>1. /\ e \in DialState /\ e.conn = d.conn /\ e.route = d.route /\ e.open = d.open
        /\ e.connects = d.connects /\ e.basics = d.basics /\ e.round = d.round
        /\ e.deadline = d.deadline /\ e.pc = "tls"
    BY DEF DialState
  <1> HIDE DEF e
  <1>2. Frugal(e) /\ Before(e)
    BY <1>1 DEF Frugal, Before
  <1>3. Connected(e)
    BY <1>1 DEF Connected
  <1>4. ~e.deadline
    BY <1>1
  <1>5. DialSound(e)
    BY <1>1, <1>2, <1>3, <1>4 DEF DialSound
  <1> QED
    BY <1>1, <1>5 DEF e

\* Every step of a dial keeps what is known of it.
LEMMA DialStepSound ==
  ASSUME NEW c \in Callers, dial[c] \in DialState, DialSound(dial[c]),
         DialStep(c) \/ DeadlineFires(c)
  PROVE  \E f \in DialState : DialSound(f) /\ dial' = [dial EXCEPT ![c] = f]
PROOF
  <1> DEFINE d == dial[c]
  <1>1. CASE DialFails(c)
    <2>1. Failed(d) \in DialState /\ DialSound(Failed(d))
      BY <1>1, FailedSound DEF DialFails, DialSound
    <2> QED
      BY <1>1, <2>1 DEF DialFails
  <1>2. CASE DialConnects(c)
    <2> DEFINE e == [d EXCEPT !.open = @ \cup {d.conn}]
    <2>1. d.pc = "dialing" /\ ~d.deadline
      BY <1>2 DEF DialConnects, DialSound
    <2>2. /\ e \in DialState /\ e.deadline = d.deadline
          /\ Frugal(e) /\ Before(e) /\ Connected(e)
      BY <2>1, OpenedFields
    <2>3. \/ dial' = [dial EXCEPT ![c] = Established(e)]
          \/ dial' = [dial EXCEPT ![c] = [e EXCEPT !.pc = "tls"]]
          \/ dial' = [dial EXCEPT ![c] = FirstRequest(e)]
      BY <1>2 DEF DialConnects
    <2> HIDE DEF e
    <2>4. Established(e) \in DialState /\ DialSound(Established(e))
      BY <2>2, EstablishedSound
    <2>5. FirstRequest(e) \in DialState /\ DialSound(FirstRequest(e))
      BY <2>2, FirstRequestSound
    <2>6. [e EXCEPT !.pc = "tls"] \in DialState /\ DialSound([e EXCEPT !.pc = "tls"])
      BY <2>1, <2>2, HandshakeBegins
    <2> QED
      BY <2>3, <2>4, <2>5, <2>6, Zenon
  <1>3. CASE Handshake(c)
    <2>1. d.pc = "tls" /\ Frugal(d) /\ Before(d) /\ Connected(d)
      BY <1>3 DEF Handshake, DialSound
    <2>2. FirstRequest(d) \in DialState /\ DialSound(FirstRequest(d))
      BY <2>1, FirstRequestSound
    <2>3. Failed(d) \in DialState /\ DialSound(Failed(d))
      BY <2>1, FailedSound DEF Connected
    <2>4. \/ dial' = [dial EXCEPT ![c] = FirstRequest(d)]
          \/ dial' = [dial EXCEPT ![c] = Failed(d)]
      BY <1>3 DEF Handshake
    <2> QED
      BY <2>2, <2>3, <2>4, Zenon
  <1>4. ASSUME NEW a \in Answers, Answer(c, a)
        PROVE  \E f \in DialState : DialSound(f) /\ dial' = [dial EXCEPT ![c] = f]
    <2>1. PICK f \in AfterAnswer(d, a) : dial' = [dial EXCEPT ![c] = f]
      BY <1>4 DEF Answer
    <2>2. f \in DialState /\ DialSound(f)
      BY <1>4, AnswerSound DEF Answer
    <2> QED
      BY <2>1, <2>2
  <1>5. CASE DeadlineFires(c)
    <2>1. [status |-> "error", closed |-> FALSE, basic |-> FALSE, sspi |-> FALSE] \in Answers
      BY DEF Answers
    <2> QED
      BY <1>4, <1>5, <2>1 DEF DeadlineFires
  <1> QED
    BY <1>1, <1>2, <1>3, <1>4, <1>5 DEF DialStep

\* A dial that has not begun.
LEMMA NoDialSound ==
  ASSUME NEW route \in Routes
  PROVE  /\ NoDial(route) \in DialState /\ DialSound(NoDial(route))
         /\ NoDial(route).pc = "idle" /\ NoDial(route).open = {}
         /\ LET e == [NoDial(route) EXCEPT !.pc = "dialing"]
            IN  e \in DialState /\ DialSound(e) /\ e.pc = "dialing"
PROOF
  <1> DEFINE d == NoDial(route)
             e == [d EXCEPT !.pc = "dialing"]
  <1>0. SSPISteps \in Nat /\ 1 \in 1 .. 2 /\ {} \in SUBSET (1 .. 2)
    BY DialAssumption
  <1>1. /\ d \in DialState /\ d.pc = "idle" /\ d.open = {} /\ d.deadline = FALSE /\ d.conn = 1
        /\ d.connects = 0 /\ d.basics = 0 /\ d.round = 0
    BY <1>0 DEF NoDial, DialState
  <1> HIDE DEF d
  <1>2. /\ e \in DialState /\ e.pc = "dialing" /\ e.open = {} /\ e.deadline = FALSE /\ e.conn = 1
        /\ e.connects = 0 /\ e.basics = 0 /\ e.round = 0
    BY <1>1 DEF DialState
  <1> HIDE DEF e
  <1>3. Frugal(d) /\ Before(d) /\ Frugal(e) /\ Before(e)
    BY <1>0, <1>1, <1>2 DEF Frugal, Before
  <1>4. DialSound(d)
    BY <1>1, <1>3 DEF DialSound
  <1>5. DialSound(e)
    BY <1>2, <1>3 DEF DialSound
  <1> QED
    BY <1>1, <1>2, <1>4, <1>5 DEF d, e

-----------------------------------------------------------------------------
(* The state of a handler that moves on.                                   *)

\* r has the label pc, and the bytes and the kind of connection that x has.
Moved(x, r, pc) ==
  /\ r \in ClientState /\ r.pc = pc /\ r.kind = x.kind /\ r.named = x.named
  /\ r.sent = x.sent /\ r.read = x.read /\ r.buf = x.buf /\ r.up = x.up
  /\ r.early = x.early /\ r.down = x.down

Labels == Running \cup {"away", "backlog", "hand", "released", "done"}

\* A move alone.
LEMMA GotoFields ==
  ASSUME NEW x \in ClientState, NEW pc \in Labels
  PROVE  LET r == [x EXCEPT !.pc = pc] IN
         /\ Moved(x, r, pc) /\ r.answer = x.answer /\ r.excused = x.excused
         /\ r.clientOpen = x.clientOpen /\ r.session = x.session
BY DEF ClientState, Moved, Labels

\* A move with an answer to the client, ...
Replied(x, pc, a) == [[x EXCEPT !.pc = pc] EXCEPT !.answer = a]

\* ... which is one of those there are, ...
LEMMA AnswerFields ==
  ASSUME NEW x \in ClientState, NEW pc \in Labels, NEW a \in {"none", "200", "403", "502"}
  PROVE  LET r == Replied(x, pc, a) IN
         Moved(x, r, pc) /\ r.answer = a /\ r.excused = x.excused
BY DEF ClientState, Moved, Labels, Replied

\* ... after a failure that excuses the lack of one, ...
LEMMA ExcuseFields ==
  ASSUME NEW x \in ClientState, NEW pc \in Labels
  PROVE  LET r == [[x EXCEPT !.pc = pc] EXCEPT !.excused = TRUE] IN
         Moved(x, r, pc) /\ r.answer = x.answer /\ r.excused = TRUE
BY DEF ClientState, Moved, Labels

\* ... and with everything released.
LEMMA ReleaseFields ==
  ASSUME NEW x \in ClientState, NEW pc \in Labels
  PROVE  LET r == [[x EXCEPT !.pc = pc] EXCEPT !.session = FALSE, !.clientOpen = FALSE] IN
         /\ Moved(x, r, pc) /\ r.answer = x.answer /\ r.excused = x.excused
         /\ r.clientOpen = FALSE /\ r.session = FALSE
BY DEF ClientState, Moved, Labels

\* The order of the bytes does not depend on the label.
LEMMA SameBytes ==
  ASSUME NEW x, NEW r, r.kind = x.kind, r.read = x.read, r.buf = x.buf, r.up = x.up
  PROVE  (Forwarded(x) => Forwarded(r)) /\ (Held(x) => Held(r))
PROOF
  <1>1. First(r) = First(x)
    BY DEF First
  <1> QED
    BY <1>1 DEF Forwarded, Held

\* Before anything is read.
LEMMA EarlyMove ==
  ASSUME NEW c \in Callers, NEW x, ClientSound(c, x), x.pc \in NothingRead,
         NEW pc \in NothingRead, NEW r, Moved(x, r, pc),
         pc = "peek" => x.kind.nat, pc = "request" => ~x.kind.nat
  PROVE  ClientSound(c, r)
PROOF
  <1>1. Bounded(c, r)
    BY DEF ClientSound, Bounded, Moved
  <1>2. UpInOrder(r)
    BY SameBytes DEF ClientSound, UpInOrder, Moved, NothingRead, Routed
  <1>3. DownInOrder(r)
    BY DEF ClientSound, DownInOrder, Moved, NothingRead
  <1>5. Answering(r) /\ Released(r)
    BY DEF Answering, Released, Moved, NothingRead
  <1> QED
    BY <1>1, <1>2, <1>3, <1>5 DEF ClientSound, Moved

\* A transparent client of which nothing was read meets the policy.
LEMMA UnreadMove ==
  ASSUME NEW c \in Callers, NEW x, ClientSound(c, x), x.pc \in NothingRead,
         NEW r, Moved(x, r, "policy"), x.kind.nat
  PROVE  ClientSound(c, r)
PROOF
  <1>1. Bounded(c, r)
    BY DEF ClientSound, Bounded, Moved
  <1>2. UpInOrder(r)
    <2>1. r.read = 0 /\ r.buf = <<>> /\ r.up = <<>> /\ r.pc = "policy"
      BY DEF ClientSound, UpInOrder, Moved
    <2>2. First(r) = 1
      BY DEF First, Moved
    <2> QED
      BY <2>1, <2>2 DEF UpInOrder, Forwarded, Held, Runs, NothingRead, Routed
  <1>3. DownInOrder(r)
    BY DEF ClientSound, DownInOrder, Moved, NothingRead
  <1>5. Answering(r) /\ Released(r)
    BY DEF Answering, Released, Moved
  <1> QED
    BY <1>1, <1>2, <1>3, <1>5 DEF ClientSound, Moved

\* A handler that returns, by whatever path, has forwarded or answered what an
\* explicit client sent, or has an excuse.
LEMMA ReturnMove ==
  ASSUME NEW c \in Callers, NEW x, ClientSound(c, x), NEW r, Moved(x, r, "return"),
         x.kind.nat \/ x.read = 0 \/ r.answer # "none" \/ r.up # <<>> \/ r.excused
  PROVE  ClientSound(c, r)
PROOF
  <1>1. Bounded(c, r)
    BY DEF ClientSound, Bounded, Moved
  <1>2. UpInOrder(r)
    BY SameBytes DEF ClientSound, UpInOrder, Moved, NothingRead, Routed
  <1>3. DownInOrder(r)
    BY DEF ClientSound, DownInOrder, Moved, NothingRead
  <1>5. Answering(r) /\ Released(r)
    BY DEF Answering, Released, Moved
  <1> QED
    BY <1>1, <1>2, <1>3, <1>5 DEF ClientSound, Moved

\* A handler that is done has released everything.
LEMMA FinalMove ==
  ASSUME NEW c \in Callers, NEW x, ClientSound(c, x), NEW pc \in {"released", "done"},
         NEW r, Moved(x, r, pc), ~r.clientOpen, ~r.session,
         x.pc \in {"backlog", "return", "released"}, r.answer = x.answer, r.excused = x.excused
  PROVE  ClientSound(c, r)
PROOF
  <1>1. Bounded(c, r)
    BY DEF ClientSound, Bounded, Moved
  <1>2. UpInOrder(r)
    BY SameBytes DEF ClientSound, UpInOrder, Moved, NothingRead, Routed
  <1>3. DownInOrder(r)
    BY DEF ClientSound, DownInOrder, Moved, NothingRead
  <1>5. x.pc = "backlog" => x.read = 0
    BY DEF ClientSound, UpInOrder, NothingRead
  <1>6. Answering(r)
    BY <1>5 DEF ClientSound, Answering, Moved
  <1>7. Released(r)
    BY DEF Released
  <1> QED
    BY <1>1, <1>2, <1>3, <1>6, <1>7 DEF ClientSound, Moved

-----------------------------------------------------------------------------
(* The bytes.                                                              *)

\* The first read took n chunks, of which buf goes on.
Taken(x, r, n, buf) ==
  /\ r \in ClientState /\ r.pc = "policy" /\ r.kind = x.kind /\ r.sent = x.sent
  /\ r.read = n /\ r.buf = buf /\ r.up = x.up /\ r.early = x.early /\ r.down = x.down

\* A function on 1 .. k is a sequence of length k.
LEMMA SeqOf ==
  ASSUME NEW S, NEW k \in Nat, NEW f \in [1 .. k -> S]
  PROVE  f \in Seq(S) /\ Len(f) = k
PROOF
  <1>1. f \in Seq(S)
    OBVIOUS
  <1>2. Len(f) \in Nat /\ DOMAIN f = 1 .. Len(f)
    BY <1>1
  <1>3. 1 .. Len(f) = 1 .. k
    BY <1>2
  <1> QED
    BY <1>1, <1>2, <1>3

\* buf is the k chunks from the given one on.
Begins(buf, first, k) == buf = [i \in 1 .. k |-> first + i - 1]

\* It is a sequence of numbers up to any m that bounds them.
LEMMA BeginsSeq ==
  ASSUME NEW m \in Nat, NEW first \in {1, 2}, NEW k \in Nat, first + k - 1 <= m,
         NEW buf, Begins(buf, first, k)
  PROVE  buf \in Seq(1 .. m) /\ Len(buf) = k /\ \A i \in 1 .. k : buf[i] = first + i - 1
PROOF
  <1>1. \A i \in 1 .. k : first + i - 1 \in 1 .. m
    OBVIOUS
  <1>2. buf \in [1 .. k -> 1 .. m] /\ \A i \in 1 .. k : buf[i] = first + i - 1
    BY <1>1 DEF Begins
  <1> QED
    BY <1>2, SeqOf

\* What was taken is what the client sent first.
LEMMA TakenSound ==
  ASSUME NEW c \in Callers, NEW x, ClientSound(c, x), x.pc \in {"peek", "request"},
         NEW n \in 1 .. x.sent, NEW k \in Nat, k = n + 1 - First(x),
         NEW buf, Begins(buf, First(x), k),
         NEW r, Taken(x, r, n, buf), ~x.kind.nat => r.named
  PROVE  ClientSound(c, r)
PROOF
  <1>1. /\ x \in ClientState /\ x.sent \in 0 .. Chunks[c] /\ Chunks[c] \in Nat
        /\ DownChunks[c] \in Nat
        /\ x.up = <<>> /\ x.early = <<>> /\ x.down = <<>> /\ x.read = 0
    BY ServerAssumption DEF ClientSound, Bounded, UpInOrder, DownInOrder, NothingRead
  <1>2. First(x) \in {1, 2} /\ First(r) = First(x)
    BY DEF First, Taken
  <1>3. n \in 1 .. Chunks[c] /\ x.sent \in Nat /\ n \in Nat
    BY <1>1
  <1>4. buf \in Seq(1 .. Chunks[c]) /\ Len(buf) = k /\ \A i \in 1 .. k : buf[i] = First(x) + i - 1
    <2>1. First(x) + k - 1 <= Chunks[c]
      BY <1>1, <1>2, <1>3
    <2> QED
      BY <1>1, <1>2, <2>1, BeginsSeq
  <1>5. Bounded(c, r)
    <2>1. r.sent = x.sent /\ r.read = n /\ r.buf = buf /\ r.up = <<>> /\ r.early = <<>> /\ r.down = <<>>
      BY <1>1 DEF Taken
    <2>2. r.read \in 0 .. r.sent
      BY <1>3, <2>1
    <2> QED
      BY <1>1, <1>4, <2>1, <2>2 DEF Bounded
  <1>6. UpInOrder(r)
    <2>1. r.read = n /\ r.buf = buf /\ r.up = <<>> /\ r.pc = "policy"
      BY <1>1 DEF Taken
    <2>2. n = First(x) - 1 + 0 + k
      BY <1>2, <1>3
    <2>3. \A i \in 1 .. k : buf[i] = First(x) + 0 + i - 1
      BY <1>2, <1>4
    <2> QED
      BY <1>2, <1>4, <2>1, <2>2, <2>3 DEF UpInOrder, Forwarded, Held, Runs, NothingRead
  <1>7. DownInOrder(r)
    <2>1. Runs(r.down, 1) /\ r.early = <<>> /\ r.down = <<>>
      BY <1>1 DEF Runs, Taken
    <2> QED
      BY <2>1 DEF DownInOrder
  <1>9. Answering(r) /\ Released(r)
    <2>1. r.pc = "policy" /\ r.buf = buf /\ r.kind = x.kind
      BY DEF Taken
    <2>2. ~r.kind.nat /\ ~r.kind.connect => First(x) = 1
      BY <2>1 DEF First
    <2>3. First(x) = 1 => Len(buf) = n /\ n >= 1
      BY <1>2, <1>3, <1>4
    <2>4. ~r.kind.nat /\ ~r.kind.connect => r.buf # <<>>
      BY <1>3, <2>1, <2>2, <2>3
    <2> QED
      BY <2>1, <2>4 DEF Answering, Released
  <1> QED
    BY <1>5, <1>6, <1>7, <1>9 DEF ClientSound, Taken

\* More bytes of the client arrive.
LEMMA SentSound ==
  ASSUME NEW c \in Callers, NEW x, ClientSound(c, x), x.sent < Chunks[c]
  PROVE  LET r == [x EXCEPT !.sent = @ + 1] IN ClientSound(c, r) /\ r.pc = x.pc
PROOF
  <1> DEFINE r == [x EXCEPT !.sent = @ + 1]
  <1>1. /\ x \in ClientState /\ x.sent \in 0 .. Chunks[c] /\ Chunks[c] \in Nat
        /\ x.read \in 0 .. x.sent
    BY ServerAssumption DEF ClientSound, Bounded
  <1>2. x.sent + 1 \in 0 .. Chunks[c] /\ x.read \in 0 .. x.sent + 1 /\ x.sent + 1 \in Nat
    BY <1>1
  <1>3. /\ r \in ClientState /\ r.pc = x.pc /\ r.kind = x.kind /\ r.named = x.named
        /\ r.sent = x.sent + 1 /\ r.read = x.read /\ r.buf = x.buf /\ r.up = x.up
        /\ r.early = x.early /\ r.down = x.down /\ r.answer = x.answer /\ r.excused = x.excused
        /\ r.clientOpen = x.clientOpen /\ r.session = x.session
    BY <1>1, <1>2 DEF ClientState
  <1> HIDE DEF r
  <1>4. Bounded(c, r)
    BY <1>2, <1>3 DEF ClientSound, Bounded
  <1>5. UpInOrder(r)
    BY <1>3, SameBytes DEF ClientSound, UpInOrder
  <1>6. DownInOrder(r)
    BY <1>3 DEF ClientSound, DownInOrder
  <1>8. Answering(r)
    BY <1>3 DEF ClientSound, Answering
  <1>9. Released(r)
    BY <1>3 DEF ClientSound, Released
  <1> QED
    BY <1>3, <1>4, <1>5, <1>6, <1>8, <1>9 DEF ClientSound, r

\* A client that the filter lets pass is dialled for, ...
LEMMA DialMove ==
  ASSUME NEW c \in Callers, NEW x, ClientSound(c, x), x.pc = "policy",
         NEW r, Moved(x, r, "dial")
  PROVE  ClientSound(c, r)
PROOF
  <1>1. Bounded(c, r)
    BY DEF ClientSound, Bounded, Moved
  <1>2. UpInOrder(r)
    BY SameBytes DEF ClientSound, UpInOrder, Moved, NothingRead, Routed
  <1>3. DownInOrder(r)
    BY DEF ClientSound, DownInOrder, Moved, NothingRead
  <1>5. Answering(r) /\ Released(r)
    BY DEF ClientSound, Answering, Released, Moved
  <1> QED
    BY <1>1, <1>2, <1>3, <1>5 DEF ClientSound, Moved

\* ... perhaps with bytes that came with the proxy's answer, ...
LEMMA DialledMove ==
  ASSUME NEW c \in Callers, NEW x, ClientSound(c, x), x.pc = "dial",
         NEW early \in {<<>>, << 1 >>}, early # <<>> => DownChunks[c] > 0
  PROVE  LET r == [[x EXCEPT !.pc = "dialled"] EXCEPT !.early = early]
         IN  ClientSound(c, r) /\ r.pc = "dialled"
PROOF
  <1> DEFINE r == [[x EXCEPT !.pc = "dialled"] EXCEPT !.early = early]
  <1>1. x \in ClientState /\ DownChunks[c] \in Nat
    BY ServerAssumption DEF ClientSound
  <1>2. early \in Seq(1 .. DownChunks[c]) /\ early \in Seq(Nat)
    <2>1. CASE early = <<>>
      BY <2>1
    <2>2. CASE early = <<1>>
      <3>1. 1 \in 1 .. DownChunks[c] /\ 1 \in Nat
        BY <1>1, <2>2
      <3> QED
        BY <2>2, <3>1
    <2> QED
      BY <2>1, <2>2
  <1>3. /\ r \in ClientState /\ r.pc = "dialled" /\ r.kind = x.kind /\ r.named = x.named
        /\ r.sent = x.sent /\ r.read = x.read /\ r.buf = x.buf /\ r.up = x.up
        /\ r.early = early /\ r.down = x.down
    BY <1>1, <1>2 DEF ClientState, Running
  <1> HIDE DEF r
  <1>4. Bounded(c, r)
    BY <1>2, <1>3 DEF ClientSound, Bounded
  <1>5. UpInOrder(r)
    BY <1>3, SameBytes DEF ClientSound, UpInOrder, NothingRead, Routed
  <1>6. DownInOrder(r)
    BY <1>3 DEF ClientSound, DownInOrder, NothingRead
  <1>8. Answering(r)
    BY <1>3 DEF ClientSound, Answering
  <1>9. Released(r)
    BY <1>3 DEF Released
  <1> QED
    BY <1>3, <1>4, <1>5, <1>6, <1>8, <1>9 DEF ClientSound, r

\* ... and then relayed, or written to first.
LEMMA ServedMove ==
  ASSUME NEW c \in Callers, NEW x, ClientSound(c, x), x.pc = "dialled",
         NEW pc \in {"write", "relay"}, NEW r, Moved(x, r, pc),
         pc = "write" => x.kind.nat \/ ~x.kind.connect,
         pc = "relay" /\ ~x.kind.nat => r.answer # "none"
  PROVE  ClientSound(c, r)
PROOF
  <1>1. Bounded(c, r)
    BY DEF ClientSound, Bounded, Moved
  <1>2. UpInOrder(r)
    BY SameBytes DEF ClientSound, UpInOrder, Moved, NothingRead, Routed
  <1>3. DownInOrder(r)
    BY DEF ClientSound, DownInOrder, Moved, NothingRead
  <1>5. Answering(r) /\ Released(r)
    BY DEF ClientSound, Answering, Released, Moved
  <1> QED
    BY <1>1, <1>2, <1>3, <1>5 DEF ClientSound, Moved

\* A request whose body has been copied is relayed for.
LEMMA CopiedMove ==
  ASSUME NEW c \in Callers, NEW x, ClientSound(c, x), x.pc = "body",
         NEW r, Moved(x, r, "relay"), r.answer = x.answer
  PROVE  ClientSound(c, r)
PROOF
  <1>1. Bounded(c, r)
    BY DEF ClientSound, Bounded, Moved
  <1>2. UpInOrder(r)
    BY SameBytes DEF ClientSound, UpInOrder, Moved, NothingRead, Routed
  <1>3. DownInOrder(r)
    BY DEF ClientSound, DownInOrder, Moved, NothingRead
  <1>4. Answering(r) /\ Released(r)
    BY DEF ClientSound, Answering, Released, Moved
  <1> QED
    BY <1>1, <1>2, <1>3, <1>4 DEF ClientSound, Moved

\* v is the chunk that comes after those of s, which begin with a.
Follows(v, s, a) == v = a + Len(s)

\* Appending the next chunk, ...
LEMMA RunAppend ==
  ASSUME NEW m \in Nat, NEW s \in Seq(1 .. m), NEW a \in Nat, Runs(s, a),
         NEW v \in 1 .. m, Follows(v, s, a)
  PROVE  /\ Append(s, v) \in Seq(1 .. m) /\ Len(Append(s, v)) = Len(s) + 1
         /\ Runs(Append(s, v), a) /\ Append(s, v) # <<>>
PROOF
  <1>1. /\ Append(s, v) \in Seq(1 .. m) /\ Append(s, v) # <<>>
        /\ Len(Append(s, v)) = Len(s) + 1 /\ Len(s) \in Nat
        /\ \A i \in 1 .. Len(s) : Append(s, v)[i] = s[i]
        /\ Append(s, v)[Len(s) + 1] = v
    BY AppendProperties, LenProperties
  <1>2. ASSUME NEW i \in 1 .. Len(s) + 1 PROVE Append(s, v)[i] = a + i - 1
    <2>1. CASE i = Len(s) + 1
      BY <1>1, <2>1 DEF Follows
    <2>2. CASE i # Len(s) + 1
      BY <1>1, <2>2 DEF Runs
    <2> QED
      BY <2>1, <2>2
  <1> QED
    BY <1>1, <1>2 DEF Runs

\* ... and taking the first one keep the order.
LEMMA RunTail ==
  ASSUME NEW m \in Nat, NEW s \in Seq(1 .. m), NEW a \in Nat, Runs(s, a), s # <<>>
  PROVE  /\ Head(s) = a /\ Head(s) \in 1 .. m /\ Tail(s) \in Seq(1 .. m)
         /\ Len(Tail(s)) = Len(s) - 1 /\ Runs(Tail(s), a + 1) /\ Len(s) >= 1
PROOF
  <1>1. /\ Len(s) \in Nat /\ Len(s) >= 1 /\ Head(s) = s[1]
        /\ Head(s) \in 1 .. m /\ Tail(s) \in Seq(1 .. m) /\ Len(Tail(s)) = Len(s) - 1
        /\ \A i \in 1 .. Len(Tail(s)) : Tail(s)[i] = s[i + 1]
    BY HeadTailProperties, LenProperties, EmptySeq
  <1>2. s[1] = a
    BY <1>1 DEF Runs
  <1>3. ASSUME NEW i \in 1 .. Len(s) - 1 PROVE Tail(s)[i] = a + 1 + i - 1
    BY <1>1 DEF Runs
  <1> QED
    BY <1>1, <1>2, <1>3 DEF Runs

\* The chunks from a up to the n-th are those of u and then those of b.
Splits(n, a, u, b) ==
  /\ n = a - 1 + Len(u) + Len(b)
  /\ Runs(u, a) /\ Runs(b, a + Len(u))

\* A handler that has read n chunks, has passed u on and still holds b.
Relayed(x, pc, n, u, b) == [x EXCEPT !.pc = pc, !.read = n, !.up = u, !.buf = b]

\* Bounded sequences of chunks are sequences of chunks.
LEMMA ChunkSeq ==
  ASSUME NEW m \in Nat, NEW s \in Seq(1 .. m)
  PROVE  s \in Seq(Nat) /\ Len(s) \in Nat
PROOF
  <1>1. Len(s) \in Nat /\ s \in [1 .. Len(s) -> 1 .. m]
    BY LenProperties, SeqDef
  <1>2. s \in [1 .. Len(s) -> Nat]
    BY <1>1
  <1> QED
    BY <1>1, <1>2, SeqDef

\* It is sound if u and b together are the chunks that were read.
LEMMA RelayedSound ==
  ASSUME NEW c \in Callers, NEW x, ClientSound(c, x), x.pc \in {"write", "body", "relay"}, NEW pc \in {"body", "relay"},
         x.pc = "relay" => pc = "relay",
         NEW n \in 0 .. x.sent, NEW u \in Seq(1 .. Chunks[c]), NEW b \in Seq(1 .. Chunks[c]),
         Splits(n, First(x), u, b),
         x.kind.nat \/ u # <<>> \/ x.answer # "none"
  PROVE  ClientSound(c, Relayed(x, pc, n, u, b)) /\ Relayed(x, pc, n, u, b).pc = pc
PROOF
  <1> DEFINE r == Relayed(x, pc, n, u, b)
  <1>1. /\ x \in ClientState /\ Chunks[c] \in Nat /\ x.sent \in 0 .. Chunks[c]
        /\ x.early \in Seq(1 .. DownChunks[c]) /\ x.down \in Seq(1 .. DownChunks[c])
    BY ServerAssumption DEF ClientSound, Bounded
  <1>2. u \in Seq(Nat) /\ b \in Seq(Nat) /\ n \in Nat
    <2>1. n \in Nat
      BY <1>1
    <2> QED
      BY <1>1, <2>1, ChunkSeq
  <1>3. /\ r \in ClientState /\ r.pc = pc /\ r.kind = x.kind /\ r.named = x.named
        /\ r.sent = x.sent /\ r.read = n /\ r.buf = b /\ r.up = u
        /\ r.early = x.early /\ r.down = x.down /\ r.answer = x.answer
    BY <1>1, <1>2 DEF ClientState, Relayed, Running
  <1> HIDE DEF r
  <1>4. First(r) = First(x)
    BY <1>3 DEF First
  <1>5. Bounded(c, r)
    BY <1>1, <1>3 DEF Bounded
  <1>6. UpInOrder(r)
    <2>1. Forwarded(r) /\ Held(r)
      BY <1>3, <1>4 DEF Forwarded, Held, Splits
    <2> QED
      BY <1>3, <2>1 DEF UpInOrder, NothingRead
  <1>7. DownInOrder(r)
    BY <1>3 DEF ClientSound, DownInOrder, NothingRead
  <1>9. Answering(r) /\ Released(r)
    BY <1>3 DEF Answering, Released
  <1> QED
    BY <1>3, <1>5, <1>6, <1>7, <1>9 DEF ClientSound, r

\* The bytes of a handler that relays or is about to.
LEMMA RelayBytes ==
  ASSUME NEW c \in Callers, NEW x, ClientSound(c, x), x.pc \in {"write", "body", "relay"}
  PROVE  /\ x \in ClientState /\ Chunks[c] \in Nat /\ First(x) \in {1, 2}
         /\ x.sent \in 0 .. Chunks[c] /\ x.read \in 0 .. x.sent
         /\ x.up \in Seq(1 .. Chunks[c]) /\ x.buf \in Seq(1 .. Chunks[c])
         /\ Len(x.up) \in Nat /\ Len(x.buf) \in Nat
         /\ Splits(x.read, First(x), x.up, x.buf)
PROOF
  <1>1. /\ x \in ClientState /\ Chunks[c] \in Nat
        /\ x.sent \in 0 .. Chunks[c] /\ x.read \in 0 .. x.sent
        /\ x.up \in Seq(1 .. Chunks[c]) /\ x.buf \in Seq(1 .. Chunks[c])
    BY ServerAssumption DEF ClientSound, Bounded
  <1>2. Len(x.up) \in Nat /\ Len(x.buf) \in Nat
    BY <1>1, ChunkSeq
  <1>3. Forwarded(x) /\ Held(x)
    BY DEF ClientSound, UpInOrder, Routed
  <1>4. First(x) \in {1, 2}
    BY DEF First
  <1> QED
    BY <1>1, <1>2, <1>3, <1>4 DEF Forwarded, Held, Splits

\* What was peeked at is written upstream.
LEMMA WriteSound ==
  ASSUME NEW c \in Callers, NEW x, ClientSound(c, x), x.pc = "write", x.kind.nat
  PROVE  LET r == Relayed(x, "relay", x.read, x.buf, <<>>)
         IN  ClientSound(c, r) /\ r.pc = "relay"
PROOF
  <1>1. /\ x \in ClientState /\ Chunks[c] \in Nat /\ First(x) \in {1, 2}
        /\ x.sent \in 0 .. Chunks[c] /\ x.read \in 0 .. x.sent
        /\ x.buf \in Seq(1 .. Chunks[c]) /\ Len(x.buf) \in Nat
        /\ Splits(x.read, First(x), x.up, x.buf)
    BY RelayBytes
  <1>2. x.up = <<>>
    BY DEF ClientSound, UpInOrder, NothingRead
  <1>3. Runs(x.buf, First(x)) /\ x.read = First(x) - 1 + Len(x.buf)
    <2>1. Runs(x.buf, First(x) + 0) /\ x.read = First(x) - 1 + 0 + Len(x.buf)
      BY <1>1, <1>2 DEF Splits
    <2>2. First(x) + 0 = First(x) /\ First(x) - 1 + 0 = First(x) - 1
      BY <1>1
    <2> QED
      BY <2>1, <2>2
  <1>4. x.read = First(x) - 1 + Len(x.buf) + 0
    BY <1>1, <1>3
  <1>5. Splits(x.read, First(x), x.buf, <<>>) /\ <<>> \in Seq(1 .. Chunks[c])
    BY <1>3, <1>4 DEF Splits, Runs
  <1> QED
    BY <1>1, <1>5, RelayedSound

\* The relay passes on the first chunk of b, ...
Passed(m, k, a, u, b) ==
  /\ Append(u, Head(b)) \in Seq(1 .. m) /\ Tail(b) \in Seq(1 .. m)
  /\ Splits(k, a, Append(u, Head(b)), Tail(b))
  /\ Append(u, Head(b)) # <<>>

\* ... which keeps the order, ...
LEMMA SplitPassed ==
  ASSUME NEW m \in Nat, NEW a \in Nat, NEW k \in Nat,
         NEW u \in Seq(1 .. m), NEW b \in Seq(1 .. m), Splits(k, a, u, b), b # <<>>
  PROVE  Passed(m, k, a, u, b)
PROOF
  <1>1. Len(u) \in Nat /\ Len(b) \in Nat
    BY ChunkSeq
  <1>2. PICK e \in Nat : e = a + Len(u)
    BY <1>1
  <1>3. Runs(u, a) /\ Runs(b, e) /\ k = a - 1 + Len(u) + Len(b)
    BY <1>2 DEF Splits
  <1> DEFINE v == Head(b)
             t == Tail(b)
             w == Append(u, v)
  <1>4. v = e /\ v \in 1 .. m /\ t \in Seq(1 .. m) /\ Len(t) = Len(b) - 1 /\ Runs(t, e + 1)
    BY <1>3, RunTail
  <1> HIDE DEF v, t
  <1>5. Follows(v, u, a)
    BY <1>2, <1>4 DEF Follows
  <1>6. w \in Seq(1 .. m) /\ Len(w) = Len(u) + 1 /\ Runs(w, a) /\ w # <<>>
    BY <1>3, <1>4, <1>5, RunAppend
  <1> HIDE DEF w
  <1>7. k = a - 1 + Len(w) + Len(t)
    BY <1>1, <1>3, <1>4, <1>6
  <1>8. e + 1 = a + Len(w)
    BY <1>1, <1>2, <1>6
  <1>9. Splits(k, a, w, t)
    BY <1>4, <1>6, <1>7, <1>8 DEF Splits
  <1> QED
    BY <1>4, <1>6, <1>9 DEF Passed, v, t, w

\* ... or the next one from the socket, ...
PassedOn(m, k, a, u) ==
  /\ Append(u, k + 1) \in Seq(1 .. m) /\ Append(u, k + 1) # <<>>
  /\ Splits(k + 1, a, Append(u, k + 1), <<>>)

\* ... which does so too.
LEMMA SplitPassedOn ==
  ASSUME NEW m \in Nat, NEW a \in Nat, NEW k \in Nat, k < m,
         NEW u \in Seq(1 .. m), Splits(k, a, u, <<>>)
  PROVE  PassedOn(m, k, a, u)
PROOF
  <1>1. Len(u) \in Nat
    BY ChunkSeq
  <1>2. Runs(u, a) /\ k = a - 1 + Len(u) + 0
    BY DEF Splits
  <1>3. PICK v \in 1 .. m : v = k + 1
    OBVIOUS
  <1>4. Follows(v, u, a)
    BY <1>1, <1>2, <1>3 DEF Follows
  <1> DEFINE w == Append(u, v)
  <1>5. w \in Seq(1 .. m) /\ Len(w) = Len(u) + 1 /\ Runs(w, a) /\ w # <<>>
    BY <1>2, <1>4, RunAppend
  <1>6. w = Append(u, k + 1)
    BY <1>3
  <1> HIDE DEF w
  <1>7. k + 1 = a - 1 + Len(w) + 0
    BY <1>1, <1>2, <1>5
  <1>8. Splits(k + 1, a, w, <<>>)
    BY <1>5, <1>7 DEF Splits, Runs
  <1> QED
    BY <1>5, <1>6, <1>8 DEF PassedOn

\* t is x after its next chunk has gone upstream.
PassesOn(x, t) ==
  t = IF x.buf # <<>> THEN [x EXCEPT !.up = Append(@, Head(x.buf)), !.buf = Tail(@)]
      ELSE [x EXCEPT !.read = @ + 1, !.up = Append(@, x.read + 1)]

\* A chunk is copied or relayed upstream.
LEMMA RelayUpSound ==
  ASSUME NEW c \in Callers, NEW x, ClientSound(c, x), x.pc \in {"write", "body", "relay"},
         NEW pc \in {"body", "relay"}, x.pc = "relay" => pc = "relay",
         NEW t, PassesOn(x, t),
         x.buf # <<>> \/ x.sent - x.read > 0,
         NEW r, r = [t EXCEPT !.pc = pc]
  PROVE  ClientSound(c, r) /\ r.pc = pc
PROOF
  <1>1. /\ x \in ClientState /\ Chunks[c] \in Nat /\ First(x) \in {1, 2}
        /\ x.sent \in 0 .. Chunks[c] /\ x.read \in 0 .. x.sent
        /\ x.up \in Seq(1 .. Chunks[c]) /\ x.buf \in Seq(1 .. Chunks[c])
        /\ Splits(x.read, First(x), x.up, x.buf)
    BY RelayBytes
  <1>2. First(x) \in Nat /\ x.read \in Nat /\ Chunks[c] \in Nat
    BY <1>1
  <1>3. CASE x.buf # <<>>
    <2> DEFINE u == Append(x.up, Head(x.buf))
               b == Tail(x.buf)
    <2>1. Passed(Chunks[c], x.read, First(x), x.up, x.buf)
      BY <1>1, <1>2, <1>3, SplitPassed, Zenon
    <2>2. /\ u \in Seq(1 .. Chunks[c]) /\ b \in Seq(1 .. Chunks[c]) /\ u # <<>>
          /\ Splits(x.read, First(x), u, b)
      BY <2>1 DEF Passed
    <2>3. t = [x EXCEPT !.up = u, !.buf = b]
      BY <1>1, <1>3 DEF ClientState, PassesOn
    <2> HIDE DEF u, b
    <2>4. r = Relayed(x, pc, x.read, u, b)
      BY <1>1, <2>3 DEF ClientState, Relayed
    <2>5. x.read \in 0 .. x.sent /\ b \in Seq(1 .. Chunks[c])
      BY <1>1, <2>2
    <2>6. ClientSound(c, Relayed(x, pc, x.read, u, b)) /\ Relayed(x, pc, x.read, u, b).pc = pc
      BY <2>2, <2>5, RelayedSound, Zenon
    <2> QED
      BY <2>4, <2>6, Zenon
  <1>4. CASE x.buf = <<>>
    <2> DEFINE u == Append(x.up, x.read + 1)
    <2>1. x.read < Chunks[c] /\ x.read + 1 \in 0 .. x.sent
      BY <1>1, <1>4
    <2>2. Splits(x.read, First(x), x.up, <<>>)
      BY <1>1, <1>4
    <2>3. PassedOn(Chunks[c], x.read, First(x), x.up)
      BY <1>1, <1>2, <2>1, <2>2, SplitPassedOn, Zenon
    <2>4. u \in Seq(1 .. Chunks[c]) /\ u # <<>> /\ Splits(x.read + 1, First(x), u, <<>>)
      BY <2>3 DEF PassedOn
    <2>5. t = [x EXCEPT !.read = x.read + 1, !.up = u]
      BY <1>1, <1>4 DEF ClientState, PassesOn
    <2> HIDE DEF u
    <2>6. PICK n \in 0 .. x.sent : n = x.read + 1
      BY <2>1
    <2>7. r = Relayed(x, pc, n, u, <<>>)
      <3>1. x \in ClientState /\ r = [[x EXCEPT !.read = n, !.up = u] EXCEPT !.pc = pc]
        BY <1>1, <2>5, <2>6
      <3>2. [[x EXCEPT !.read = n, !.up = u] EXCEPT !.pc = pc] = Relayed(x, pc, n, u, x.buf)
        BY <3>1 DEF ClientState, Relayed
      <3> QED
        BY <1>4, <3>1, <3>2, Zenon
    <2>8. Splits(n, First(x), u, <<>>) /\ <<>> \in Seq(1 .. Chunks[c])
      BY <2>4, <2>6
    <2>9. ClientSound(c, Relayed(x, pc, n, u, <<>>)) /\ Relayed(x, pc, n, u, <<>>).pc = pc
      BY <2>4, <2>8, RelayedSound, Zenon
    <2> QED
      BY <2>7, <2>9, Zenon
  <1> QED
    BY <1>3, <1>4

\* A relay whose client has got the chunks d, and none is waiting, ...
Delivered(x, d) == [x EXCEPT !.down = d, !.early = <<>>]

\* ... is sound if they are in order.
LEMMA DeliveredSound ==
  ASSUME NEW c \in Callers, NEW x, ClientSound(c, x), x.pc = "relay",
         NEW d \in Seq(1 .. DownChunks[c]), Runs(d, 1),
         NEW r, r = Delivered(x, d)
  PROVE  ClientSound(c, r) /\ r.pc = "relay"
PROOF
  <1>1. x \in ClientState /\ DownChunks[c] \in Nat
    BY ServerAssumption DEF ClientSound
  <1>2. d \in Seq(Nat) /\ <<>> \in Seq(Nat) /\ <<>> \in Seq(1 .. DownChunks[c])
    BY <1>1, ChunkSeq
  <1>3. /\ r \in ClientState /\ r.pc = "relay" /\ r.kind = x.kind /\ r.named = x.named
        /\ r.sent = x.sent /\ r.read = x.read /\ r.buf = x.buf /\ r.up = x.up
        /\ r.early = <<>> /\ r.down = d /\ r.answer = x.answer
    BY <1>1, <1>2 DEF ClientState, Delivered
  <1>4. Bounded(c, r)
    BY <1>2, <1>3 DEF ClientSound, Bounded
  <1>5. UpInOrder(r)
    BY <1>3, SameBytes DEF ClientSound, UpInOrder
  <1>6. DownInOrder(r)
    BY <1>3 DEF ClientSound, DownInOrder, NothingRead
  <1>8. Answering(r) /\ Released(r)
    BY <1>3 DEF ClientSound, Answering, Released
  <1> QED
    BY <1>3, <1>4, <1>5, <1>6, <1>8 DEF ClientSound

\* A chunk is relayed to the client.
LEMMA RelayDownSound ==
  ASSUME NEW c \in Callers, NEW x, ClientSound(c, x), x.pc = "relay",
         NEW r,
         \/ x.early # <<>> /\ r = [x EXCEPT !.down = Append(@, Head(x.early)), !.early = Tail(@)]
         \/ /\ x.early = <<>> /\ Len(x.down) < DownChunks[c]
            /\ r = [x EXCEPT !.down = Append(@, Len(@) + 1)]
  PROVE  ClientSound(c, r) /\ r.pc = "relay"
PROOF
  <1>1. /\ x \in ClientState /\ DownChunks[c] \in Nat
        /\ x.early \in Seq(1 .. DownChunks[c]) /\ x.down \in Seq(1 .. DownChunks[c])
        /\ Runs(x.down, 1)
        /\ x.early = <<>> \/ (x.early = <<1>> /\ x.down = <<>>)
    BY ServerAssumption DEF ClientSound, Bounded, DownInOrder
  <1>2. CASE x.early # <<>> /\ r = [x EXCEPT !.down = Append(@, Head(x.early)), !.early = Tail(@)]
    <2>1. x.early = <<1>> /\ x.down = <<>>
      BY <1>1, <1>2
    <2>2. Append(<<>>, Head(<<1>>)) = <<1>> /\ Tail(<<1>>) = <<>>
      OBVIOUS
    <2>3. r = Delivered(x, <<1>>)
      BY <1>2, <2>1, <2>2, Zenon DEF Delivered
    <2>4. <<1>> \in Seq(1 .. DownChunks[c])
      BY <1>1, <2>1
    <2>5. Runs(<<1>>, 1)
      BY DEF Runs
    <2>6. PICK d \in Seq(1 .. DownChunks[c]) : d = <<1>>
      BY <2>4
    <2>7. r = Delivered(x, d) /\ Runs(d, 1)
      BY <2>3, <2>5, <2>6, Zenon
    <2> QED
      BY <2>7, DeliveredSound
  <1>3. CASE /\ x.early = <<>> /\ Len(x.down) < DownChunks[c]
             /\ r = [x EXCEPT !.down = Append(@, Len(@) + 1)]
    <2>1. Len(x.down) \in Nat
      BY <1>1, ChunkSeq
    <2>2. PICK v \in 1 .. DownChunks[c] : v = 1 + Len(x.down)
      BY <1>1, <1>3, <2>1
    <2>3. Follows(v, x.down, 1) /\ 1 \in Nat
      BY <2>2 DEF Follows
    <2> DEFINE d == Append(x.down, v)
    <2>4. d \in Seq(1 .. DownChunks[c]) /\ Runs(d, 1)
      BY <1>1, <2>3, RunAppend
    <2>5. v = Len(x.down) + 1
      BY <2>1, <2>2
    <2>6. r = [x EXCEPT !.down = d]
      BY <1>1, <1>3, <2>5 DEF ClientState
    <2> HIDE DEF d
    <2>7. r = Delivered(x, d)
      <3>1. x \in ClientState
        BY <1>1
      <3>2. [x EXCEPT !.down = d] = [x EXCEPT !.down = d, !.early = x.early]
        BY <3>1 DEF ClientState
      <3> QED
        BY <1>3, <2>6, <3>2, Zenon DEF Delivered
    <2> QED
      BY <2>4, <2>7, DeliveredSound
  <1> QED
    BY <1>2, <1>3

-----------------------------------------------------------------------------
(* The steps.                                                              *)

\* A step of one client and its dial keeps what is known of all of them.
LEMMA OneClient ==
  ASSUME AllSound, NEW c \in Callers, NEW r, NEW d, Sound(c, r, d),
         Upd(c, r), dial' = [dial EXCEPT ![c] = d]
  PROVE  AllSound'
PROOF
  <1>1. r \in ClientState /\ d \in DialState
    BY DEF Sound, ClientSound
  <1>2. h' \in [Callers -> ClientState] /\ dial' \in [Callers -> DialState]
    BY <1>1 DEF AllSound, Upd
  <1>3. ASSUME NEW b \in Callers PROVE Sound(b, h'[b], dial'[b])
    <2>1. CASE b = c
      <3>1. h'[b] = r /\ dial'[b] = d
        BY <2>1 DEF AllSound, Upd
      <3> QED
        BY <2>1, <3>1
    <2>2. CASE b # c
      <3>1. h'[b] = h[b] /\ dial'[b] = dial[b]
        BY <2>2 DEF AllSound, Upd
      <3> QED
        BY <3>1 DEF AllSound
    <2> QED
      BY <2>1, <2>2
  <1> QED
    BY <1>2, <1>3 DEF AllSound

\* So does one in which the dial does not move.
LEMMA OneClientAlone ==
  ASSUME AllSound, NEW c \in Callers, NEW r, ClientSound(c, r), Linked(r, dial[c]),
         Upd(c, r), UNCHANGED dial
  PROVE  AllSound'
PROOF
  <1>1. dial \in [Callers -> DialState] /\ Sound(c, h[c], dial[c])
    BY DEF AllSound
  <1>2. dial' = [dial EXCEPT ![c] = dial[c]]
    BY <1>1
  <1>3. Sound(c, r, dial[c])
    BY <1>1 DEF Sound
  <1> QED
    BY <1>2, <1>3, OneClient

\* Whether the wait group counts a client, and whether the accept loop holds
\* it, is the same in r as in x.
SamePlace(x, r) ==
  /\ Counted(r.pc) <=> Counted(x.pc)
  /\ r.pc = "hand" <=> x.pc = "hand"

\* Then the wait group and Close see nothing of the step.
LEMMA SameGroup ==
  ASSUME FlagTypes, GroupInv, AllSound, NEW c \in Callers, NEW r, SamePlace(h[c], r),
         Upd(c, r), KeepServer
  PROVE  FlagTypes' /\ GroupInv'
PROOF
  <1>1. /\ loop' = loop /\ hand' = hand /\ listening' = listening /\ closed' = closed
        /\ closer' = closer /\ activeConns' = activeConns /\ late' = late
    BY DEF KeepServer, serverVars
  <1>2. FlagTypes'
    BY <1>1 DEF FlagTypes
  <1>3. \A b \in Callers : h'[b] = IF b = c THEN r ELSE h[b]
    BY DEF AllSound, Upd
  <1>4. \A b \in Callers : /\ Counted(h'[b].pc) <=> Counted(h[b].pc)
                           /\ h'[b].pc = "hand" <=> h[b].pc = "hand"
    BY <1>3 DEF SamePlace
  <1>5. Live' = Live
    BY <1>4 DEF Live, Counted
  <1> QED
    BY <1>1, <1>2, <1>4, <1>5 DEF GroupInv

\* A step of a handler.
LEMMA HandlerStep ==
  ASSUME ServerInv, NEW c \in Callers, NEW r, NEW d, Sound(c, r, d), SamePlace(h[c], r),
         Upd(c, r), dial' = [dial EXCEPT ![c] = d], KeepServer
  PROVE  ServerInv'
BY OneClient, SameGroup DEF ServerInv

\* A step of a handler that does not dial.
LEMMA HandlerStepAlone ==
  ASSUME ServerInv, NEW c \in Callers, NEW r, ClientSound(c, r), Linked(r, dial[c]),
         SamePlace(h[c], r), Upd(c, r), UNCHANGED dial, KeepServer
  PROVE  ServerInv'
BY OneClientAlone, SameGroup DEF ServerInv

\* What is known of one client.
LEMMA ClientKnown ==
  ASSUME ServerInv, NEW c \in Callers
  PROVE  /\ h[c] \in ClientState /\ ClientSound(c, h[c])
         /\ dial[c] \in DialState /\ DialSound(dial[c]) /\ Linked(h[c], dial[c])
BY DEF ServerInv, AllSound, Sound, ClientSound

\* The client's own steps.
LEMMA ClientSteps ==
  ASSUME ServerInv, NEW c \in Callers, ClientConnects(c) \/ ClientSends(c)
  PROVE  ServerInv'
PROOF
  <1> DEFINE x == h[c]
  <1>0. /\ x \in ClientState /\ ClientSound(c, x)
        /\ dial[c] \in DialState /\ DialSound(dial[c]) /\ Linked(x, dial[c])
    BY ClientKnown
  <1>1. CASE ClientConnects(c)
    <2> DEFINE r == [x EXCEPT !.pc = "backlog"]
    <2>1. x.pc = "away" /\ Upd(c, r) /\ UNCHANGED dial /\ KeepServer
      BY <1>1 DEF ClientConnects, Goto, At
    <2>2. Moved(x, r, "backlog")
      BY <1>0, GotoFields DEF Labels
    <2> HIDE DEF x, r
    <2>3. ClientSound(c, r)
      BY <1>0, <2>1, <2>2, EarlyMove DEF NothingRead
    <2>4. Linked(r, dial[c]) /\ SamePlace(x, r)
      BY <1>0, <2>1, <2>2 DEF Linked, SamePlace, Moved, NothingRead, Counted, Running
    <2> QED
      BY <2>1, <2>3, <2>4, HandlerStepAlone DEF x
  <1>2. CASE ClientSends(c)
    <2> DEFINE r == [x EXCEPT !.sent = @ + 1]
    <2>1. x.sent < Chunks[c] /\ Upd(c, r) /\ UNCHANGED dial /\ KeepServer
      BY <1>2 DEF ClientSends
    <2>2. ClientSound(c, r) /\ r.pc = x.pc
      BY <1>0, <2>1, SentSound
    <2> HIDE DEF x, r
    <2>3. Linked(r, dial[c]) /\ SamePlace(x, r)
      BY <1>0, <2>2 DEF Linked, SamePlace
    <2> QED
      BY <2>1, <2>2, <2>3, HandlerStepAlone DEF x
  <1> QED
    BY <1>1, <1>2

\* What handleClient does before anything is read.
LEMMA LookupStep ==
  ASSUME ServerInv, NEW c \in Callers, Lookup(c)
  PROVE  ServerInv'
PROOF
  <1> DEFINE x == h[c]
  <1>0. /\ x \in ClientState /\ ClientSound(c, x)
        /\ dial[c] \in DialState /\ DialSound(dial[c]) /\ Linked(x, dial[c])
    BY ClientKnown
  <1>1. x.pc = "start" /\ UNCHANGED dial /\ KeepServer
    BY DEF Lookup, At
  <1>2. \/ Upd(c, [x EXCEPT !.pc = "policy"]) /\ x.kind.nat
        \/ Upd(c, [x EXCEPT !.pc = "peek"]) /\ x.kind.nat
        \/ Upd(c, [x EXCEPT !.pc = "request"]) /\ ~x.kind.nat
        \/ Upd(c, Replied(x, "return", "403"))
    BY DEF Lookup, Goto, Replied
  <1> HIDE DEF x
  <1>3. CASE Upd(c, [x EXCEPT !.pc = "policy"]) /\ x.kind.nat
    <2> DEFINE r == [x EXCEPT !.pc = "policy"]
    <2>1. Moved(x, r, "policy")
      BY <1>0, GotoFields DEF Labels, Running
    <2> HIDE DEF r
    <2>2. ClientSound(c, r)
      BY <1>0, <1>1, <1>3, <2>1, UnreadMove DEF NothingRead
    <2>3. Linked(r, dial[c]) /\ SamePlace(x, r)
      BY <1>0, <1>1, <2>1 DEF Linked, SamePlace, Moved, NothingRead, Counted, Running
    <2> QED
      BY <1>1, <1>3, <2>2, <2>3, HandlerStepAlone DEF x, r
  <1>4. ASSUME NEW pc \in {"peek", "request"}, Upd(c, [x EXCEPT !.pc = pc]),
               pc = "peek" => x.kind.nat, pc = "request" => ~x.kind.nat
        PROVE  ServerInv'
    <2> DEFINE r == [x EXCEPT !.pc = pc]
    <2>1. Moved(x, r, pc)
      BY <1>0, GotoFields DEF Labels, Running
    <2> HIDE DEF r
    <2>2. ClientSound(c, r)
      BY <1>0, <1>1, <1>4, <2>1, EarlyMove DEF NothingRead
    <2>3. Linked(r, dial[c]) /\ SamePlace(x, r)
      BY <1>0, <1>1, <2>1 DEF Linked, SamePlace, Moved, NothingRead, Counted, Running
    <2> QED
      BY <1>1, <1>4, <2>2, <2>3, HandlerStepAlone DEF x, r
  <1>5. CASE Upd(c, Replied(x, "return", "403"))
    <2> DEFINE r == Replied(x, "return", "403")
    <2>1. Moved(x, r, "return") /\ r.answer = "403"
      <3>1. "return" \in Labels /\ "403" \in {"none", "200", "403", "502"}
        BY DEF Labels, Running
      <3> QED
        BY <1>0, <3>1, AnswerFields, Zenon
    <2> HIDE DEF r
    <2>2. ClientSound(c, r)
      BY <1>0, <2>1, ReturnMove
    <2>3. Linked(r, dial[c]) /\ SamePlace(x, r)
      BY <1>0, <1>1, <2>1 DEF Linked, SamePlace, Moved, NothingRead, Counted, Running
    <2> QED
      BY <1>1, <1>5, <2>2, <2>3, HandlerStepAlone DEF x, r
  <1> QED
    BY <1>2, <1>3, <1>4, <1>5

\* The first read.
LEMMA TakeStep ==
  ASSUME ServerInv, NEW c \in Callers,
         NEW n \in 1 .. Chunks[c], Peek(c, n) \/ ReadRequest(c, n)
  PROVE  ServerInv'
PROOF
  <1> DEFINE x == h[c]
  <1>0. /\ x \in ClientState /\ ClientSound(c, x)
        /\ dial[c] \in DialState /\ DialSound(dial[c]) /\ Linked(x, dial[c])
    BY ClientKnown
  <1>1. /\ x.sent \in 0 .. Chunks[c] /\ Chunks[c] \in Nat /\ x.read \in 0 .. x.sent
        /\ x.pc \in NothingRead => x.read = 0
    BY <1>0, ServerAssumption DEF ClientSound, Bounded, UpInOrder
  <1>2. First(x) \in {1, 2} /\ x.kind.helloLen \in Nat /\ x.kind.web \in BOOLEAN
    BY <1>0 DEF First, ClientState, Kinds
  <1>3. PICK k \in Nat : k = n + 1 - First(x)
    BY <1>1, <1>2
  <1> DEFINE buf == [i \in 1 .. k |-> First(x) + i - 1]
             R(named) == [x EXCEPT !.pc = "policy", !.read = n, !.buf = buf, !.named = named]
  <1>4. Begins(buf, First(x), k)
    BY DEF Begins
  <1>5. /\ x.pc \in {"peek", "request"} /\ n \in 1 .. x.sent
        /\ UNCHANGED dial /\ KeepServer
    BY <1>1 DEF Peek, ReadRequest, At, Unread, NothingRead
  <1>6. \E named \in BOOLEAN : Upd(c, R(named)) /\ (~x.kind.nat => named = TRUE)
    <2>1. CASE Peek(c, n)
      <3>1. x.kind.nat
        BY <1>0, <2>1 DEF Peek, At, ClientSound, Answering
      <3>2. First(x) = 1 /\ k = n
        BY <1>3, <3>1 DEF First
      <3>3. buf = [i \in 1 .. n |-> i]
        BY <3>2
      <3>4. PICK named \in BOOLEAN : named = (x.kind.web /\ n >= x.kind.helloLen)
        OBVIOUS
      <3>5. Upd(c, [x EXCEPT !.pc = "policy", !.read = n, !.buf = [i \in 1 .. n |-> i],
                             !.named = named])
        BY <2>1, <3>4 DEF Peek
      <3> HIDE DEF buf
      <3>6. Upd(c, R(named))
        BY <3>3, <3>5
      <3> QED
        BY <3>1, <3>6
    <2>2. CASE ReadRequest(c, n)
      <3>1. ~x.kind.nat
        BY <1>0, <2>2 DEF ReadRequest, At, ClientSound, Answering
      <3> DEFINE b == IF x.kind.connect THEN [i \in 1 .. n - 1 |-> i + 1] ELSE [i \in 1 .. n |-> i]
      <3>2. buf = b
        <4>1. CASE x.kind.connect
          <5>1. First(x) = 2 /\ k = n - 1
            BY <1>3, <3>1, <4>1 DEF First
          <5> QED
            BY <4>1, <5>1
        <4>2. CASE ~x.kind.connect
          <5>1. First(x) = 1 /\ k = n
            BY <1>3, <3>1, <4>2 DEF First
          <5> QED
            BY <4>2, <5>1
        <4> QED
          BY <4>1, <4>2
      <3>3. Upd(c, [x EXCEPT !.pc = "policy", !.read = n, !.named = TRUE, !.buf = b])
        BY <2>2 DEF ReadRequest
      <3> HIDE DEF buf, b
      <3>4. [x EXCEPT !.pc = "policy", !.read = n, !.named = TRUE, !.buf = b] = R(TRUE)
        BY <1>0, <3>2 DEF ClientState
      <3> QED
        BY <3>3, <3>4
    <2> QED
      BY <2>1, <2>2
  <1>7. PICK named \in BOOLEAN : Upd(c, R(named)) /\ (~x.kind.nat => named = TRUE)
    BY <1>6
  <1> DEFINE r == R(named)
  <1>8. buf \in Seq(Nat)
    <2>1. buf \in [1 .. k -> Nat]
      BY <1>2
    <2> QED
      BY <2>1, SeqOf
  <1> HIDE DEF buf, x
  <1>9. Taken(x, r, n, buf) /\ r.named = named
    <2> DEFINE y == [x EXCEPT !.pc = "policy", !.read = n, !.buf = buf]
    <2>1. n \in Nat
      BY <1>5
    <2>2. Taken(x, y, n, buf)
      BY <1>0, <1>8, <2>1 DEF Taken, ClientState, Running
    <2>3. r = [y EXCEPT !.named = named]
      BY <1>0 DEF ClientState
    <2> HIDE DEF y, r
    <2> QED
      BY <2>2, <2>3 DEF Taken, ClientState
  <1>10. ~x.kind.nat => r.named
    BY <1>7, <1>9
  <1> HIDE DEF r
  <1>11. ClientSound(c, r)
    BY <1>0, <1>3, <1>4, <1>5, <1>9, <1>10, TakenSound
  <1>12. Linked(r, dial[c]) /\ SamePlace(x, r)
    BY <1>0, <1>5, <1>9 DEF Linked, SamePlace, Taken, NothingRead, Counted, Running
  <1> QED
    BY <1>5, <1>7, <1>11, <1>12, HandlerStepAlone DEF x, r

\* A handler that goes to its deferred calls.
LEMMA LeaveStep ==
  ASSUME ServerInv, NEW c \in Callers, NEW r, Moved(h[c], r, "return"),
         h[c].pc \in Running \ {"return"}, h[c].pc = "dial" => dial[c].pc \in {"ok", "failed"},
         h[c].kind.nat \/ h[c].read = 0 \/ r.answer # "none" \/ h[c].up # <<>> \/ r.excused,
         Upd(c, r), UNCHANGED dial, KeepServer
  PROVE  ServerInv'
PROOF
  <1> DEFINE x == h[c]
  <1>0. /\ x \in ClientState /\ ClientSound(c, x)
        /\ dial[c] \in DialState /\ DialSound(dial[c]) /\ Linked(x, dial[c])
    BY ClientKnown
  <1>1. Moved(x, r, "return") /\ r.up = x.up
    BY DEF Moved
  <1>2. x.pc \in Running \ {"return"} /\ (x.pc = "dial" => dial[c].pc \in {"ok", "failed"})
    OBVIOUS
  <1>3. x.kind.nat \/ x.read = 0 \/ r.answer # "none" \/ r.up # <<>> \/ r.excused
    BY <1>1
  <1> HIDE DEF x
  <1>4. ClientSound(c, r)
    BY <1>0, <1>1, <1>3, ReturnMove
  <1>5. Linked(r, dial[c])
    BY <1>0, <1>1, <1>2 DEF Linked, Moved, NothingRead, Running
  <1>6. SamePlace(x, r)
    BY <1>1, <1>2 DEF SamePlace, Moved, Counted, Running
  <1> QED
    BY <1>4, <1>5, <1>6, HandlerStepAlone DEF x

\* The ways out that need no answer: nothing was read, a failure excuses it, or
\* the relay has ended.
LEMMA ReturnSteps ==
  ASSUME ServerInv, NEW c \in Callers,
         \/ PeekEOF(c) \/ RequestFails(c) \/ HandlerPanics(c) \/ AnswerFails(c) \/ WriteFails(c)
         \/ BodyFails(c) \/ RelayEnds(c)
  PROVE  ServerInv'
PROOF
  <1> DEFINE x == h[c]
             excused == [[x EXCEPT !.pc = "return"] EXCEPT !.excused = TRUE]
             plain == [x EXCEPT !.pc = "return"]
  <1>0. /\ x \in ClientState /\ ClientSound(c, x)
        /\ dial[c] \in DialState /\ DialSound(dial[c]) /\ Linked(x, dial[c])
    BY ClientKnown
  <1>1. Moved(x, plain, "return") /\ plain.answer = x.answer
    BY <1>0, GotoFields DEF Labels, Running
  <1>2. Moved(x, excused, "return") /\ excused.excused = TRUE
    BY <1>0, ExcuseFields DEF Labels, Running
  <1>3. /\ x.pc \in NothingRead => x.read = 0
        /\ ~x.kind.nat /\ x.pc = "relay" => x.answer # "none" \/ x.up # <<>>
    BY <1>0 DEF ClientSound, UpInOrder, Answering
  <1>4. CASE PeekEOF(c) \/ RelayEnds(c)
    <2>1. x.pc \in {"peek", "relay"} /\ Upd(c, plain) /\ UNCHANGED dial /\ KeepServer
      BY <1>4 DEF PeekEOF, RelayEnds, At, Goto
    <2> HIDE DEF plain, x
    <2>2. x.kind.nat \/ x.read = 0 \/ plain.answer # "none" \/ x.up # <<>>
      BY <1>1, <1>3, <2>1 DEF NothingRead
    <2>3. x.pc \in Running \ {"return"} /\ x.pc # "dial"
      BY <2>1 DEF Running
    <2> QED
      BY <1>1, <2>1, <2>2, <2>3, LeaveStep DEF x
  <1>5. CASE RequestFails(c) \/ HandlerPanics(c) \/ AnswerFails(c) \/ WriteFails(c) \/ BodyFails(c)
    <2>1. /\ x.pc \in {"request", "policy", "dialled", "write", "body"}
          /\ Upd(c, excused) /\ UNCHANGED dial /\ KeepServer
      BY <1>5 DEF RequestFails, HandlerPanics, AnswerFails, WriteFails, BodyFails, AwaitsBody, At, Goto
    <2> HIDE DEF excused, x
    <2>2. x.pc \in Running \ {"return"} /\ x.pc # "dial"
      BY <2>1 DEF Running
    <2> QED
      BY <1>2, <2>1, <2>2, LeaveStep DEF x
  <1> QED
    BY <1>4, <1>5

\* The peek runs out of time.
LEMMA TimeoutStep ==
  ASSUME ServerInv, NEW c \in Callers, PeekTimeout(c)
  PROVE  ServerInv'
PROOF
  <1> DEFINE x == h[c]
             r == [x EXCEPT !.pc = "policy"]
  <1>0. /\ x \in ClientState /\ ClientSound(c, x)
        /\ dial[c] \in DialState /\ DialSound(dial[c]) /\ Linked(x, dial[c])
    BY ClientKnown
  <1>1. x.pc = "peek" /\ Upd(c, r) /\ UNCHANGED dial /\ KeepServer
    BY DEF PeekTimeout, At, Goto
  <1>2. Moved(x, r, "policy")
    BY <1>0, GotoFields DEF Labels, Running
  <1> HIDE DEF x, r
  <1>3. x.kind.nat
    BY <1>0, <1>1 DEF ClientSound, Answering
  <1>4. ClientSound(c, r)
    BY <1>0, <1>1, <1>2, <1>3, UnreadMove DEF NothingRead
  <1>5. Linked(r, dial[c]) /\ SamePlace(x, r)
    BY <1>0, <1>1, <1>2 DEF Linked, SamePlace, Moved, NothingRead, Counted, Running
  <1> QED
    BY <1>1, <1>4, <1>5, HandlerStepAlone DEF x

\* The filter, and the call of DialOutbound.
LEMMA PolicyStep ==
  ASSUME ServerInv, NEW c \in Callers, Policy(c)
  PROVE  ServerInv'
PROOF
  <1> DEFINE x == h[c]
             route == [x.kind.route EXCEPT !.proxy = UsesProxy(c)]
  <1>0. /\ x \in ClientState /\ ClientSound(c, x)
        /\ dial[c] \in DialState /\ DialSound(dial[c]) /\ Linked(x, dial[c])
    BY ClientKnown
  <1>1. x.pc = "policy" /\ KeepServer
    BY DEF Policy, At
  <1>2. CASE Blocks(c)
    <2>1. PICK a \in {"none", "200", "403", "502"} : a = IF x.kind.nat THEN x.answer ELSE "403"
      BY <1>0 DEF ClientState
    <2> DEFINE r == Replied(x, "return", a)
    <2>2. Upd(c, r) /\ UNCHANGED dial
      <3>1. [x EXCEPT !.pc = "return"].answer = x.answer
        BY <1>0 DEF ClientState
      <3>2. Upd(c, [[x EXCEPT !.pc = "return"] EXCEPT !.answer = IF x.kind.nat THEN [x EXCEPT !.pc = "return"].answer ELSE "403"])
        BY <1>2 DEF Policy, Goto
      <3>3. UNCHANGED dial
        BY <1>2 DEF Policy
      <3> QED
        BY <2>1, <3>1, <3>2, <3>3, Zenon DEF Replied
    <2> HIDE DEF x
    <2>3. Moved(x, r, "return") /\ r.answer = a
      <3>1. "return" \in Labels /\ a \in {"none", "200", "403", "502"}
        BY <2>1 DEF Labels, Running
      <3> QED
        BY <1>0, <3>1, AnswerFields
    <2> HIDE DEF r
    <2>4. x.kind.nat \/ r.answer # "none"
      BY <2>1, <2>3
    <2>5. x.pc \in Running \ {"return"} /\ x.pc # "dial"
      BY <1>1 DEF Running
    <2> QED
      BY <1>1, <2>2, <2>3, <2>4, <2>5, LeaveStep DEF x
  <1>3. CASE ~Blocks(c)
    <2> DEFINE r == [x EXCEPT !.pc = "dial"]
               e == [NoDial(route) EXCEPT !.pc = "dialing"]
    <2>1. Upd(c, r) /\ dial' = [dial EXCEPT ![c] = e]
      BY <1>3 DEF Policy, Goto, DialOutbound
    <2>2. x.kind.blocked # IF x.named THEN "name" ELSE "ip"
      BY <1>3 DEF Blocks
    <2>3. Moved(x, r, "dial")
      BY <1>0, GotoFields DEF Labels, Running
    <2>4. route \in Routes
      <3>1. x.kind \in Kinds
        BY <1>0 DEF ClientState
      <3>2. x.kind.route \in Routes
        BY <3>1 DEF Kinds
      <3>3. UsesProxy(c) \in BOOLEAN
        BY Zenon DEF UsesProxy
      <3> QED
        BY <3>2, <3>3 DEF Routes
    <2> HIDE DEF route
    <2>5. e \in DialState /\ DialSound(e)
      BY <2>4, NoDialSound
    <2> HIDE DEF x, r, e
    <2>6. ClientSound(c, r)
      BY <1>0, <1>1, <2>2, <2>3, DialMove
    <2>7. Linked(r, e) /\ SamePlace(x, r)
      BY <1>1, <2>3 DEF Linked, SamePlace, Moved, NothingRead, Counted, Running
    <2>8. Sound(c, r, e)
      BY <2>5, <2>6, <2>7 DEF Sound
    <2> QED
      BY <1>1, <2>1, <2>7, <2>8, HandlerStep DEF x
  <1> QED
    BY <1>2, <1>3

\* A step of the dial; the handler waits.
LEMMA DiallingStep ==
  ASSUME ServerInv, NEW c \in Callers, Dialling(c) \/ DialExpires(c)
  PROVE  ServerInv'
PROOF
  <1> DEFINE x == h[c]
  <1>0. /\ x \in ClientState /\ ClientSound(c, x) /\ dial[c] \in DialState /\ DialSound(dial[c])
    BY ClientKnown
  <1>1. /\ x.pc = "dial" /\ KeepServer /\ h' = h /\ h \in [Callers -> ClientState]
        /\ DialStep(c) \/ DeadlineFires(c)
    BY DEF Dialling, DialExpires, At, ServerInv, AllSound
  <1>2. PICK f \in DialState : DialSound(f) /\ dial' = [dial EXCEPT ![c] = f]
    BY <1>0, <1>1, DialStepSound
  <1>3. Upd(c, x)
    BY <1>1 DEF Upd
  <1> HIDE DEF x
  <1>4. Linked(x, f) /\ SamePlace(x, x)
    BY <1>1 DEF Linked, SamePlace, NothingRead
  <1>5. Sound(c, x, f)
    BY <1>0, <1>2, <1>4 DEF Sound
  <1> QED
    BY <1>1, <1>2, <1>3, <1>4, <1>5, HandlerStep DEF x

\* DialOutbound returns.
LEMMA DialReturnsStep ==
  ASSUME ServerInv, NEW c \in Callers, NEW e \in Earlies(c), DialReturns(c, e)
  PROVE  ServerInv'
PROOF
  <1> DEFINE x == h[c]
  <1>0. /\ x \in ClientState /\ ClientSound(c, x)
        /\ dial[c] \in DialState /\ DialSound(dial[c]) /\ Linked(x, dial[c])
    BY ClientKnown
  <1>1. /\ x.pc = "dial" /\ KeepServer /\ UNCHANGED dial /\ e \in {<<>>, <<1>>}
        /\ e # <<>> => DownChunks[c] > 0
    BY DEF DialReturns, At, Earlies
  <1>2. CASE dial[c].pc = "ok" /\ Upd(c, [Goto(c, "dialled") EXCEPT !.early = e])
    <2> DEFINE r == [[x EXCEPT !.pc = "dialled"] EXCEPT !.early = e]
    <2>1. Upd(c, r)
      BY <1>2 DEF Goto
    <2> HIDE DEF x
    <2>2. ClientSound(c, r) /\ r.pc = "dialled"
      BY <1>0, <1>1, DialledMove
    <2> HIDE DEF r
    <2>3. Linked(r, dial[c]) /\ SamePlace(x, r)
      BY <1>1, <1>2, <2>2 DEF Linked, SamePlace, NothingRead, Counted, Running
    <2> QED
      BY <1>1, <2>1, <2>2, <2>3, HandlerStepAlone DEF x
  <1>3. CASE /\ dial[c].pc = "failed"
             /\ Upd(c, [Goto(c, "return") EXCEPT !.answer = IF h[c].kind.nat THEN @ ELSE "502"])
    <2>1. PICK a \in {"none", "200", "403", "502"} : a = IF x.kind.nat THEN x.answer ELSE "502"
      BY <1>0 DEF ClientState
    <2> DEFINE r == Replied(x, "return", a)
    <2>2. Upd(c, r)
      <3>1. [x EXCEPT !.pc = "return"].answer = x.answer
        BY <1>0 DEF ClientState
      <3>2. Upd(c, [[x EXCEPT !.pc = "return"] EXCEPT !.answer = IF x.kind.nat THEN [x EXCEPT !.pc = "return"].answer ELSE "502"])
        BY <1>3 DEF Goto
      <3> QED
        BY <2>1, <3>1, <3>2, Zenon DEF Replied
    <2> HIDE DEF x
    <2>3. Moved(x, r, "return") /\ r.answer = a
      BY <1>0, <2>1, AnswerFields DEF Labels, Running
    <2> HIDE DEF r
    <2>4. x.kind.nat \/ r.answer # "none"
      BY <2>1, <2>3
    <2>5. x.pc \in Running \ {"return"}
      BY <1>1 DEF Running
    <2> QED
      BY <1>1, <1>3, <2>2, <2>3, <2>4, <2>5, LeaveStep DEF x
  <1> QED
    BY <1>2, <1>3 DEF DialReturns

\* The connection is there: the client is answered, written for or relayed.
LEMMA DialledStep ==
  ASSUME ServerInv, NEW c \in Callers, Dialled(c)
  PROVE  ServerInv'
PROOF
  <1> DEFINE x == h[c]
  <1>0. /\ x \in ClientState /\ ClientSound(c, x)
        /\ dial[c] \in DialState /\ DialSound(dial[c]) /\ Linked(x, dial[c])
    BY ClientKnown
  <1>1. x.pc = "dialled" /\ UNCHANGED dial /\ KeepServer
    BY DEF Dialled, At
  <1>2. \/ Upd(c, Replied(x, "relay", "200"))
        \/ Upd(c, [x EXCEPT !.pc = "relay"]) /\ x.buf = <<>> /\ (x.kind.nat \/ ~x.kind.connect)
        \/ Upd(c, [x EXCEPT !.pc = "write"]) /\ (x.kind.nat \/ ~x.kind.connect)
    BY DEF Dialled, Goto, Replied
  <1> HIDE DEF x
  <1>3. ASSUME NEW pc \in {"write", "relay"}, NEW r, Moved(x, r, pc), Upd(c, r), ClientSound(c, r)
        PROVE  ServerInv'
    <2>1. Linked(r, dial[c]) /\ SamePlace(x, r)
      BY <1>0, <1>1, <1>3 DEF Linked, SamePlace, Moved, NothingRead, Counted, Running
    <2> QED
      BY <1>1, <1>3, <2>1, HandlerStepAlone DEF x
  <1>4. CASE Upd(c, Replied(x, "relay", "200"))
    <2> DEFINE r == Replied(x, "relay", "200")
    <2>1. Moved(x, r, "relay") /\ r.answer = "200"
      <3>1. "relay" \in Labels /\ "200" \in {"none", "200", "403", "502"}
        BY DEF Labels, Running
      <3> QED
        BY <1>0, <3>1, AnswerFields, Zenon
    <2> HIDE DEF r
    <2>2. ClientSound(c, r)
      BY <1>0, <1>1, <2>1, ServedMove
    <2> QED
      BY <1>3, <1>4, <2>1, <2>2 DEF r
  <1>5. CASE Upd(c, [x EXCEPT !.pc = "relay"]) /\ x.buf = <<>> /\ (x.kind.nat \/ ~x.kind.connect)
    <2> DEFINE r == [x EXCEPT !.pc = "relay"]
    <2>1. Moved(x, r, "relay")
      BY <1>0, GotoFields DEF Labels, Running
    <2>2. x.kind.nat
      BY <1>0, <1>1, <1>5 DEF ClientSound, Answering
    <2> HIDE DEF r
    <2>3. ClientSound(c, r)
      BY <1>0, <1>1, <2>1, <2>2, ServedMove
    <2> QED
      BY <1>3, <1>5, <2>1, <2>3 DEF r
  <1>6. CASE Upd(c, [x EXCEPT !.pc = "write"]) /\ (x.kind.nat \/ ~x.kind.connect)
    <2> DEFINE r == [x EXCEPT !.pc = "write"]
    <2>1. Moved(x, r, "write")
      BY <1>0, GotoFields DEF Labels, Running
    <2> HIDE DEF r
    <2>2. ClientSound(c, r)
      BY <1>0, <1>1, <1>6, <2>1, ServedMove
    <2> QED
      BY <1>3, <1>6, <2>1, <2>2 DEF r
  <1> QED
    BY <1>2, <1>4, <1>5, <1>6

\* What a handler that writes or relays moves to.
LEMMA RelayMoves ==
  ASSUME ServerInv, NEW c \in Callers, h[c].pc \in {"write", "body", "relay"},
         NEW r, Upd(c, r), ClientSound(c, r), r.pc \in {"body", "relay"},
         UNCHANGED dial, KeepServer
  PROVE  ServerInv'
PROOF
  <1>1. Linked(h[c], dial[c])
    BY ClientKnown
  <1>2. Linked(r, dial[c]) /\ SamePlace(h[c], r)
    BY <1>1 DEF Linked, SamePlace, NothingRead, Counted, Running
  <1> QED
    BY <1>2, HandlerStepAlone

\* The next chunk from the client is passed on, in a body or a relay.
LEMMA ArrivedStep ==
  ASSUME ServerInv, NEW c \in Callers, h[c].pc \in {"body", "relay"}, Arrived(c),
         Upd(c, TakenUp(c)), UNCHANGED dial, KeepServer
  PROVE  ServerInv'
PROOF
  <1> DEFINE x == h[c]
             t == TakenUp(c)
             r == [t EXCEPT !.pc = x.pc]
  <1>0. x \in ClientState /\ ClientSound(c, x)
    BY ClientKnown
  <1>1. PassesOn(x, t)
    BY DEF PassesOn, TakenUp
  <1>2. x.buf # <<>> \/ x.sent - x.read > 0
    BY DEF Arrived, Unread
  <1>3. x.pc \in {"body", "relay"} /\ Upd(c, t)
    OBVIOUS
  <1> HIDE DEF x, t
  <1>4. r = t
    BY <1>0, <1>1 DEF ClientState, PassesOn
  <1>5. ClientSound(c, r) /\ r.pc = x.pc
    <2>1. x.pc \in {"write", "body", "relay"}
      BY <1>3
    <2> QED
      BY <1>0, <1>1, <1>2, <1>3, <2>1, RelayUpSound
  <1> HIDE DEF r
  <1> QED
    BY <1>3, <1>4, <1>5, RelayMoves DEF x

\* The peeked bytes, or a request with its body, are written.
LEMMA WriteSteps ==
  ASSUME ServerInv, NEW c \in Callers,
         WriteInitial(c) \/ WriteRequest(c) \/ CopyBody(c) \/ BodyWritten(c)
  PROVE  ServerInv'
PROOF
  <1> DEFINE x == h[c]
  <1>0. x \in ClientState /\ ClientSound(c, x)
    BY ClientKnown
  <1>1. x.pc \in {"write", "body", "relay"} /\ UNCHANGED dial /\ KeepServer
    BY DEF WriteInitial, WriteRequest, CopyBody, BodyWritten, At
  <1>2. CASE WriteInitial(c)
    <2> DEFINE r == Relayed(x, "relay", x.read, x.buf, <<>>)
    <2>1. Upd(c, [[x EXCEPT !.pc = "relay"] EXCEPT !.up = x.buf, !.buf = <<>>])
      BY <1>2 DEF WriteInitial, Goto
    <2>2. [[x EXCEPT !.pc = "relay"] EXCEPT !.up = x.buf, !.buf = <<>>] = r
      BY <1>0 DEF ClientState, Relayed
    <2>3. x.pc = "write" /\ x.kind.nat
      BY <1>2 DEF WriteInitial, At
    <2>4. ClientSound(c, r) /\ r.pc = "relay"
      BY <1>0, <2>3, WriteSound
    <2>5. Upd(c, r)
      BY <2>1, <2>2
    <2> HIDE DEF r
    <2> QED
      BY <1>1, <2>4, <2>5, RelayMoves
  <1>3. CASE WriteRequest(c)
    <2> DEFINE t == TakenUp(c)
               r == [t EXCEPT !.pc = "body"]
    <2>1. x.pc = "write" /\ ~x.kind.nat /\ Upd(c, r)
      BY <1>3 DEF WriteRequest, At
    <2>2. x.buf # <<>>
      BY <1>0, <2>1 DEF ClientSound, Answering
    <2>3. PassesOn(x, t)
      BY DEF PassesOn, TakenUp
    <2> HIDE DEF x, t
    <2>4. ClientSound(c, r) /\ r.pc = "body"
      BY <1>0, <2>1, <2>2, <2>3, RelayUpSound
    <2> HIDE DEF r
    <2> QED
      BY <1>1, <2>1, <2>4, RelayMoves DEF x
  <1>4. CASE CopyBody(c)
    <2>1. x.pc = "body" /\ Arrived(c) /\ Upd(c, TakenUp(c))
      BY <1>4 DEF CopyBody, At
    <2> QED
      BY <1>1, <2>1, ArrivedStep
  <1>5. CASE BodyWritten(c)
    <2> DEFINE r == [x EXCEPT !.pc = "relay"]
    <2>1. x.pc = "body" /\ Upd(c, r)
      BY <1>5 DEF BodyWritten, At, Goto
    <2>2. Moved(x, r, "relay") /\ r.answer = x.answer
      BY <1>0, GotoFields DEF Labels, Running
    <2> HIDE DEF x, r
    <2>3. ClientSound(c, r)
      BY <1>0, <2>1, <2>2, CopiedMove
    <2>4. r.pc = "relay"
      BY <2>2 DEF Moved
    <2> QED
      BY <1>1, <2>1, <2>3, <2>4, RelayMoves DEF x
  <1> QED
    BY <1>2, <1>3, <1>4, <1>5

\* The relay's own steps.
LEMMA RelaySteps ==
  ASSUME ServerInv, NEW c \in Callers, RelayUp(c) \/ RelayDown(c)
  PROVE  ServerInv'
PROOF
  <1> DEFINE x == h[c]
  <1>0. x \in ClientState /\ ClientSound(c, x)
    BY ClientKnown
  <1>1. x.pc \in {"write", "body", "relay"} /\ UNCHANGED dial /\ KeepServer
    BY DEF RelayUp, RelayDown, At
  <1>4. CASE RelayUp(c)
    <2>1. x.pc = "relay" /\ Arrived(c) /\ Upd(c, TakenUp(c))
      BY <1>4 DEF RelayUp, At
    <2> QED
      BY <1>1, <2>1, ArrivedStep
  <1>5. CASE RelayDown(c)
    <2>1. PICK r : /\ Upd(c, r)
                   /\ \/ x.early # <<>> /\ r = [x EXCEPT !.down = Append(@, Head(x.early)), !.early = Tail(@)]
                      \/ /\ x.early = <<>> /\ Len(x.down) < DownChunks[c]
                         /\ r = [x EXCEPT !.down = Append(@, Len(@) + 1)]
      BY <1>5, Zenon DEF RelayDown
    <2>2. x.pc = "relay"
      BY <1>5 DEF RelayDown, At
    <2> HIDE DEF x
    <2>3. ClientSound(c, r) /\ r.pc = "relay"
      BY <1>0, <2>1, <2>2, RelayDownSound, Zenon
    <2> QED
      BY <1>1, <2>1, <2>3, RelayMoves DEF x
  <1> QED
    BY <1>4, <1>5

\* The deferred calls release everything.
LEMMA ReleaseStep ==
  ASSUME ServerInv, NEW c \in Callers, HandlerReturns(c)
  PROVE  ServerInv'
PROOF
  <1> DEFINE x == h[c]
             d == dial[c]
             r == [[x EXCEPT !.pc = "released"] EXCEPT !.session = FALSE, !.clientOpen = FALSE]
             e == NoDial(d.route)
  <1>0. x \in ClientState /\ ClientSound(c, x) /\ d \in DialState /\ DialSound(d) /\ Linked(x, d)
    BY ClientKnown
  <1>1. x.pc = "return" /\ Upd(c, r) /\ KeepServer
    BY DEF HandlerReturns, At, Goto
  <1>2. dial' = [dial EXCEPT ![c] = [NoDial(d.route) EXCEPT !.open = d.open \ {d.conn}]]
    BY DEF HandlerReturns
  <1>3. d.open \ {d.conn} = {}
    <2>1. d.pc \in {"idle", "ok", "failed"}
      BY <1>0, <1>1 DEF Linked
    <2> QED
      BY <1>0, <2>1 DEF DialSound, Connected
  <1>4. e \in DialState /\ DialSound(e) /\ e.pc = "idle" /\ e.open = {}
    <2>1. d.route \in Routes
      BY <1>0 DEF DialState
    <2> QED
      BY <2>1, NoDialSound
  <1>5. [NoDial(d.route) EXCEPT !.open = d.open \ {d.conn}] = e
    <2> HIDE DEF e
    <2>1. [e EXCEPT !.open = e.open] = e
      BY <1>4 DEF DialState
    <2>2. [e EXCEPT !.open = d.open \ {d.conn}] = e
      BY <1>3, <1>4, <2>1, Zenon
    <2> QED
      BY <2>2 DEF e
  <1>6. dial' = [dial EXCEPT ![c] = e]
    BY <1>2, <1>5
  <1>7. Moved(x, r, "released") /\ r.answer = x.answer /\ r.excused = x.excused /\ ~r.clientOpen /\ ~r.session
    BY <1>0, ReleaseFields DEF Labels
  <1> HIDE DEF x, d, r, e
  <1>8. ClientSound(c, r)
    BY <1>0, <1>1, <1>7, FinalMove
  <1>9. Linked(r, e) /\ SamePlace(x, r)
    BY <1>1, <1>4, <1>7 DEF Linked, SamePlace, Moved, Counted, Running
  <1>10. Sound(c, r, e)
    BY <1>4, <1>8, <1>9 DEF Sound
  <1> QED
    BY <1>1, <1>6, <1>9, <1>10, HandlerStep DEF x

\* The handlers are finitely many.
LEMMA LiveFinite == IsFiniteSet(Live)
PROOF
  <1>1. Live \subseteq Callers
    BY DEF Live
  <1> QED
    BY <1>1, ServerAssumption, FS_Subset

\* A connection is accepted: it is in the accept loop's hand and not counted.
LEMMA AcceptStep ==
  ASSUME ServerInv, NEW c \in Callers, Accept(c)
  PROVE  ServerInv'
PROOF
  <1> DEFINE x == h[c]
             r == [x EXCEPT !.pc = "hand"]
  <1>0. /\ x \in ClientState /\ ClientSound(c, x)
        /\ dial[c] \in DialState /\ DialSound(dial[c]) /\ Linked(x, dial[c])
    BY ClientKnown
  <1>1. /\ x.pc = "backlog" /\ hand = None /\ Upd(c, r) /\ hand' = c
        /\ UNCHANGED <<loop, listening, closed, closer, activeConns, late, dial>>
    BY DEF Accept, At, Goto
  <1>2. Moved(x, r, "hand")
    BY <1>0, GotoFields DEF Labels
  <1>3. \A b \in Callers : h'[b] = IF b = c THEN r ELSE h[b]
    BY <1>1 DEF ServerInv, AllSound, Upd
  <1> HIDE DEF x, r
  <1>4. ClientSound(c, r)
    BY <1>0, <1>1, <1>2, EarlyMove DEF NothingRead
  <1>5. Linked(r, dial[c])
    BY <1>0, <1>1, <1>2 DEF Linked, Moved, NothingRead
  <1>6. AllSound'
    BY <1>1, <1>4, <1>5, OneClientAlone DEF ServerInv
  <1>7. FlagTypes'
    BY <1>1 DEF ServerInv, FlagTypes
  <1>8. \A b \in Callers : Counted(h'[b].pc) <=> Counted(h[b].pc)
    BY <1>1, <1>2, <1>3 DEF Counted, Running, Moved, x
  <1>9. Live' = Live
    BY <1>8 DEF Live, Counted
  <1>10. \A b \in Callers : h'[b].pc = "hand" <=> hand' = b
    <2>1. \A b \in Callers : h[b].pc # "hand"
      BY <1>1, ServerAssumption DEF ServerInv, GroupInv
    <2> QED
      BY <1>1, <1>2, <1>3, <2>1 DEF Moved
  <1>11. GroupInv'
    BY <1>1, <1>9, <1>10 DEF ServerInv, GroupInv
  <1> QED
    BY <1>6, <1>7, <1>11 DEF ServerInv

\* The handler is counted and started.
LEMMA StartStep ==
  ASSUME ServerInv, NEW c \in Callers, StartHandler(c)
  PROVE  ServerInv'
PROOF
  <1> DEFINE x == h[c]
             r == [x EXCEPT !.pc = "start"]
  <1>0. /\ x \in ClientState /\ ClientSound(c, x)
        /\ dial[c] \in DialState /\ DialSound(dial[c]) /\ Linked(x, dial[c])
    BY ClientKnown
  <1>1. /\ hand = c /\ hand' = None /\ Upd(c, r) /\ activeConns' = activeConns + 1
        /\ late' = IF closer = "drained" THEN late \cup {c} ELSE late
        /\ UNCHANGED <<loop, listening, closed, closer, dial>>
    BY DEF StartHandler, Goto
  <1>2. x.pc = "hand"
    BY <1>1 DEF ServerInv, GroupInv
  <1>3. Moved(x, r, "start")
    BY <1>0, GotoFields DEF Labels, Running
  <1>4. \A b \in Callers : h'[b] = IF b = c THEN r ELSE h[b]
    BY <1>1 DEF ServerInv, AllSound, Upd
  <1> HIDE DEF x, r
  <1>5. ClientSound(c, r)
    BY <1>0, <1>2, <1>3, EarlyMove DEF NothingRead
  <1>6. Linked(r, dial[c])
    BY <1>0, <1>2, <1>3 DEF Linked, Moved, NothingRead
  <1>7. AllSound'
    BY <1>1, <1>5, <1>6, OneClientAlone DEF ServerInv
  <1>8. FlagTypes'
    BY <1>1 DEF ServerInv, FlagTypes
  <1>9. c \notin Live /\ Live' = Live \cup {c}
    <2>1. ~Counted(h[c].pc) /\ Counted(h'[c].pc)
      BY <1>2, <1>3, <1>4 DEF Counted, Running, Moved, x
    <2>2. \A b \in Callers \ {c} : h'[b].pc = h[b].pc
      BY <1>4
    <2> QED
      BY <2>1, <2>2 DEF Live, Counted
  <1>10. Cardinality(Live') = Cardinality(Live) + 1
    BY <1>9, LiveFinite, FS_AddElement
  <1>11. \A b \in Callers : h'[b].pc = "hand" <=> hand' = b
    <2>1. \A b \in Callers \ {c} : h[b].pc # "hand"
      BY <1>1 DEF ServerInv, GroupInv
    <2> QED
      BY <1>1, <1>3, <1>4, <2>1, ServerAssumption DEF Moved
  <1>12. closer' = "drained" => Live' \subseteq late'
    BY <1>1, <1>9 DEF ServerInv, GroupInv
  <1>13. GroupInv'
    BY <1>1, <1>10, <1>11, <1>12 DEF ServerInv, GroupInv
  <1> QED
    BY <1>7, <1>8, <1>13 DEF ServerInv

\* The handler is done and no longer counted.
LEMMA DoneStep ==
  ASSUME ServerInv, NEW c \in Callers, HandlerDone(c)
  PROVE  ServerInv'
PROOF
  <1> DEFINE x == h[c]
             r == [x EXCEPT !.pc = "done"]
  <1>0. /\ x \in ClientState /\ ClientSound(c, x)
        /\ dial[c] \in DialState /\ DialSound(dial[c]) /\ Linked(x, dial[c])
    BY ClientKnown
  <1>1. /\ x.pc = "released" /\ Upd(c, r) /\ activeConns' = activeConns - 1
        /\ UNCHANGED <<loop, hand, listening, closed, closer, late, dial>>
    BY DEF HandlerDone, At, Goto
  <1>2. /\ Moved(x, r, "done") /\ r.answer = x.answer /\ r.excused = x.excused
        /\ r.clientOpen = x.clientOpen /\ r.session = x.session
    BY <1>0, GotoFields DEF Labels
  <1>3. \A b \in Callers : h'[b] = IF b = c THEN r ELSE h[b]
    BY <1>1 DEF ServerInv, AllSound, Upd
  <1> HIDE DEF x, r
  <1>4. ~r.clientOpen /\ ~r.session
    BY <1>0, <1>1, <1>2 DEF ClientSound, Released
  <1>5. ClientSound(c, r)
    BY <1>0, <1>1, <1>2, <1>4, FinalMove
  <1>6. Linked(r, dial[c])
    BY <1>0, <1>1, <1>2 DEF Linked, Moved, NothingRead
  <1>7. AllSound'
    BY <1>1, <1>5, <1>6, OneClientAlone DEF ServerInv
  <1>8. FlagTypes'
    BY <1>1 DEF ServerInv, FlagTypes
  <1>9. c \in Live /\ Live' = Live \ {c}
    <2>1. Counted(h[c].pc) /\ ~Counted(h'[c].pc)
      BY <1>1, <1>2, <1>3 DEF Counted, Running, Moved, x
    <2>2. \A b \in Callers \ {c} : h'[b].pc = h[b].pc
      BY <1>3
    <2> QED
      BY <2>1, <2>2 DEF Live, Counted
  <1>10. Cardinality(Live') = Cardinality(Live) - 1
    BY <1>9, LiveFinite, FS_RemoveElement
  <1>11. \A b \in Callers : h'[b].pc = "hand" <=> hand' = b
    <2>1. \A b \in Callers : h'[b].pc = "hand" <=> h[b].pc = "hand"
      BY <1>1, <1>2, <1>3 DEF Moved, x
    <2> QED
      BY <1>1, <2>1 DEF ServerInv, GroupInv
  <1>12. closer' = "drained" => Live' \subseteq late'
    BY <1>1, <1>9 DEF ServerInv, GroupInv
  <1>13. GroupInv'
    BY <1>1, <1>10, <1>11, <1>12 DEF ServerInv, GroupInv
  <1> QED
    BY <1>7, <1>8, <1>13 DEF ServerInv

\* The listener is closed, and with it the connections in the backlog.
LEMMA CloseListenerStep ==
  ASSUME ServerInv, CloseListener
  PROVE  ServerInv'
PROOF
  <1> DEFINE Reset(x) == [[x EXCEPT !.pc = "done"] EXCEPT !.session = FALSE, !.clientOpen = FALSE]
  <1>1. /\ closer = "flagged" /\ listening' = FALSE /\ closer' = "waiting"
        /\ UNCHANGED <<loop, hand, closed, activeConns, late, dial>>
    BY DEF CloseListener
  <1>2. h' = [c \in Callers |-> IF h[c].pc = "backlog" THEN Reset(h[c]) ELSE h[c]]
    BY DEF CloseListener, At, Goto
  <1>3. ASSUME NEW c \in Callers, h[c].pc = "backlog"
        PROVE  Sound(c, Reset(h[c]), dial[c]) /\ Reset(h[c]).pc = "done"
    <2> DEFINE x == h[c]
               r == Reset(x)
    <2>0. /\ x \in ClientState /\ ClientSound(c, x)
          /\ dial[c] \in DialState /\ DialSound(dial[c]) /\ Linked(x, dial[c])
      BY ClientKnown
    <2>1. /\ Moved(x, r, "done") /\ r.answer = x.answer /\ r.excused = x.excused
          /\ ~r.clientOpen /\ ~r.session
      BY <2>0, ReleaseFields DEF Labels
    <2>2. x.pc = "backlog"
      BY <1>3
    <2> HIDE DEF x, r
    <2>3. ClientSound(c, r)
      BY <2>0, <2>1, <2>2, FinalMove
    <2>4. Linked(r, dial[c])
      BY <2>0, <2>1, <2>2 DEF Linked, Moved, NothingRead
    <2>5. Sound(c, r, dial[c]) /\ r.pc = "done"
      BY <2>0, <2>1, <2>3, <2>4 DEF Sound, Moved
    <2> QED
      BY <2>5 DEF x, r
  <1> HIDE DEF Reset
  <1>4. ASSUME NEW c \in Callers
        PROVE  /\ Sound(c, h'[c], dial'[c])
               /\ Counted(h'[c].pc) <=> Counted(h[c].pc)
               /\ h'[c].pc = "hand" <=> h[c].pc = "hand"
    <2>1. dial' = dial /\ Sound(c, h[c], dial[c])
      BY <1>1 DEF ServerInv, AllSound
    <2>2. CASE h[c].pc = "backlog"
      <3>1. h'[c] = Reset(h[c])
        BY <1>2, <2>2
      <3> QED
        BY <1>3, <2>1, <2>2, <3>1 DEF Counted, Running
    <2>3. CASE h[c].pc # "backlog"
      <3>1. h'[c] = h[c]
        BY <1>2, <2>3
      <3> QED
        BY <2>1, <3>1
    <2> QED
      BY <2>2, <2>3
  <1>5. AllSound'
    <2>1. \A c \in Callers : h'[c] \in ClientState
      BY <1>4 DEF Sound, ClientSound
    <2>2. h' \in [Callers -> ClientState]
      BY <1>2, <2>1
    <2>3. dial' \in [Callers -> DialState]
      BY <1>1 DEF ServerInv, AllSound
    <2> QED
      BY <1>4, <2>2, <2>3 DEF AllSound
  <1>6. Live' = Live
    BY <1>4 DEF Live, Counted
  <1>7. FlagTypes'
    BY <1>1 DEF ServerInv, FlagTypes
  <1>8. GroupInv'
    BY <1>1, <1>4, <1>6 DEF ServerInv, GroupInv
  <1> QED
    BY <1>5, <1>7, <1>8 DEF ServerInv

\* The accept loop's end, and Close, which is drained when nothing is counted.
LEMMA CloseSteps ==
  ASSUME ServerInv, AcceptFails \/ CloseFlag \/ CloseDrained \/ CloseTimesOut \/ UNCHANGED vars
  PROVE  ServerInv'
PROOF
  <1>1. h' = h /\ dial' = dial /\ hand' = hand /\ activeConns' = activeConns /\ late' = late
    BY DEF AcceptFails, CloseFlag, CloseDrained, CloseTimesOut, vars, serverVars
  <1>2. FlagTypes'
    BY DEF ServerInv, FlagTypes, AcceptFails, CloseFlag, CloseDrained, CloseTimesOut, vars, serverVars
  <1>3. AllSound' /\ Live' = Live
    BY <1>1 DEF ServerInv, AllSound, Live
  <1>4. closer' = "drained" => closer = "drained" \/ activeConns = 0
    BY DEF AcceptFails, CloseFlag, CloseDrained, CloseTimesOut, vars, serverVars
  <1>5. activeConns = 0 => Live = {}
    BY LiveFinite, FS_EmptySet DEF ServerInv, GroupInv
  <1>6. closer' = "drained" => Live' \subseteq late'
    BY <1>1, <1>3, <1>4, <1>5 DEF ServerInv, GroupInv
  <1>7. GroupInv'
    BY <1>1, <1>3, <1>6 DEF ServerInv, GroupInv
  <1> QED
    BY <1>2, <1>3, <1>7 DEF ServerInv

\* A client that has not connected yet.
LEMMA NewClientSound ==
  ASSUME NEW c \in Callers, NEW k \in Kinds
  PROVE  /\ ClientSound(c, NewClient(k)) /\ NewClient(k).pc = "away"
PROOF
  <1> DEFINE r == NewClient(k)
  <1>0. k.nat \in BOOLEAN /\ Chunks[c] \in Nat /\ DownChunks[c] \in Nat
    BY ServerAssumption DEF Kinds
  <1>1. /\ r \in ClientState /\ r.pc = "away" /\ r.kind = k /\ r.sent = 0 /\ r.read = 0
        /\ r.buf = <<>> /\ r.up = <<>> /\ r.early = <<>> /\ r.down = <<>>
    BY <1>0 DEF NewClient, ClientState
  <1> HIDE DEF r
  <1>2. 0 \in 0 .. Chunks[c] /\ 0 \in 0 .. 0
    BY <1>0
  <1>3. Bounded(c, r)
    BY <1>1, <1>2 DEF Bounded
  <1>4. UpInOrder(r)
    BY <1>1 DEF UpInOrder, Forwarded, Runs, Routed
  <1>5. DownInOrder(r)
    BY <1>1 DEF DownInOrder, Runs
  <1>7. Answering(r) /\ Released(r)
    BY <1>1 DEF Answering, Released
  <1> QED
    BY <1>1, <1>3, <1>4, <1>5, <1>7 DEF ClientSound, r

\* The invariant holds initially.
LEMMA ServerInit == Init => ServerInv
PROOF
  <1> SUFFICES ASSUME Init PROVE ServerInv
    OBVIOUS
  <1> DEFINE route == [proxy |-> FALSE, https |-> FALSE, user |-> FALSE, bypass |-> FALSE]
  <1>1. FlagTypes
    BY DEF Init, FlagTypes
  <1>2. route \in Routes
    BY DEF Routes
  <1>3. dial = [c \in Callers |-> NoDial(route)]
    BY DEF Init
  <1>4. /\ NoDial(route) \in DialState /\ DialSound(NoDial(route)) /\ NoDial(route).pc = "idle"
    BY <1>2, NoDialSound
  <1> HIDE DEF route
  <1>5. /\ h \in [Callers -> {NewClient(k) : k \in UNION {Profiles[c] : c \in Callers}}]
    BY DEF Init
  <1>6. ASSUME NEW c \in Callers
        PROVE  ClientSound(c, h[c]) /\ h[c].pc = "away"
    <2>1. h[c] \in {NewClient(k) : k \in UNION {Profiles[b] : b \in Callers}}
      BY <1>5
    <2>2. PICK k \in UNION {Profiles[b] : b \in Callers} : h[c] = NewClient(k)
      BY <2>1
    <2>3. k \in Kinds
      BY <2>2, ServerAssumption
    <2> QED
      BY <2>2, <2>3, NewClientSound
  <1>7. AllSound
    <2>1. h \in [Callers -> ClientState]
      <3>1. \A c \in Callers : h[c] \in ClientState
        BY <1>6 DEF ClientSound
      <3> QED
        BY <1>5, <3>1
    <2>2. dial \in [Callers -> DialState] /\ \A c \in Callers : dial[c] = NoDial(route)
      BY <1>3, <1>4
    <2>3. ASSUME NEW c \in Callers PROVE Sound(c, h[c], dial[c])
      <3>1. dial[c] \in DialState /\ DialSound(dial[c]) /\ dial[c].pc = "idle"
        BY <1>4, <2>2
      <3>2. ClientSound(c, h[c]) /\ h[c].pc = "away"
        BY <1>6
      <3>3. Linked(h[c], dial[c])
        BY <3>1, <3>2 DEF Linked
      <3> QED
        BY <3>1, <3>2, <3>3 DEF Sound
    <2> QED
      BY <2>1, <2>2, <2>3 DEF AllSound
  <1>8. GroupInv
    <2>1. Live = {}
      BY <1>6 DEF Live, Counted, Running
    <2>2. Cardinality(Live) = 0
      BY <2>1, FS_EmptySet
    <2>3. \A c \in Callers : h[c].pc # "hand"
      BY <1>6
    <2> QED
      BY <2>2, <2>3, ServerAssumption DEF GroupInv, Init
  <1> QED
    BY <1>1, <1>7, <1>8 DEF ServerInv

\* Every step keeps it.
LEMMA ServerNext == ServerInv /\ [Next]_vars => ServerInv'
PROOF
  <1> SUFFICES ASSUME ServerInv, [Next]_vars PROVE ServerInv'
    OBVIOUS
  <1>1. ASSUME NEW c \in Callers, Handle(c) PROVE ServerInv'
    <2>1. CASE Lookup(c)
      BY <2>1, LookupStep
    <2>2. CASE PeekTimeout(c)
      BY <2>2, TimeoutStep
    <2>3. CASE \E n \in 1 .. Chunks[c] : Peek(c, n) \/ ReadRequest(c, n)
      BY <2>3, TakeStep
    <2>4. CASE PeekEOF(c) \/ RequestFails(c) \/ HandlerPanics(c) \/ AnswerFails(c) \/ WriteFails(c)
      BY <2>4, ReturnSteps
    <2>5. CASE Policy(c)
      BY <2>5, PolicyStep
    <2>6. CASE Dialling(c) \/ DialExpires(c)
      BY <2>6, DiallingStep
    <2>7. CASE \E e \in Earlies(c) : DialReturns(c, e)
      BY <2>7, DialReturnsStep
    <2>8. CASE Dialled(c)
      BY <2>8, DialledStep
    <2>9. CASE WriteInitial(c) \/ WriteRequest(c) \/ CopyBody(c) \/ BodyWritten(c)
      BY <2>9, WriteSteps
    <2>10. CASE HandlerReturns(c)
      BY <2>10, ReleaseStep
    <2>11. CASE HandlerDone(c)
      BY <2>11, DoneStep
    <2> QED
      BY <1>1, <2>1, <2>2, <2>3, <2>4, <2>5, <2>6, <2>7, <2>8, <2>9, <2>10, <2>11, Zenon DEF Handle
  <1>2. ASSUME NEW c \in Callers,
               \/ ClientConnects(c) \/ ClientSends(c) \/ Accept(c) \/ StartHandler(c)
               \/ Dialling(c) \/ BodyFails(c) \/ RelayUp(c) \/ RelayDown(c) \/ RelayEnds(c)
        PROVE  ServerInv'
    <2>1. CASE ClientConnects(c) \/ ClientSends(c)
      BY <2>1, ClientSteps
    <2>2. CASE Accept(c)
      BY <2>2, AcceptStep
    <2>3. CASE StartHandler(c)
      BY <2>3, StartStep
    <2>4. CASE Dialling(c)
      BY <2>4, DiallingStep
    <2>5. CASE RelayUp(c) \/ RelayDown(c)
      BY <2>5, RelaySteps
    <2>6. CASE BodyFails(c) \/ RelayEnds(c)
      BY <2>6, ReturnSteps
    <2> QED
      BY <1>2, <2>1, <2>2, <2>3, <2>4, <2>5, <2>6
  <1>3. CASE CloseListener
    BY <1>3, CloseListenerStep
  <1>4. CASE AcceptFails \/ CloseFlag \/ CloseDrained \/ CloseTimesOut \/ UNCHANGED vars
    BY <1>4, CloseSteps
  <1> QED
    BY <1>1, <1>2, <1>3, <1>4, Zenon DEF Next

\* Whatever clients, proxies, policies and Close do, every handler's record fits
\* its dial, its sockets and its place in the wait group.
THEOREM ServerInvariant == Spec => []ServerInv
BY ServerInit, ServerNext, PTL DEF Spec

-----------------------------------------------------------------------------
(* What follows from it.                                                   *)

\* The invariant gives the types.
LEMMA InvTypes == ServerInv => TypeOK
PROOF
  <1> SUFFICES ASSUME ServerInv PROVE TypeOK
    OBVIOUS
  <1>1. Live \subseteq Callers /\ IsFiniteSet(Callers) /\ activeConns = Cardinality(Live)
    BY ServerAssumption DEF Live, ServerInv, GroupInv
  <1>2. /\ Cardinality(Live) \in Nat /\ Cardinality(Callers) \in Nat
        /\ Cardinality(Live) <= Cardinality(Callers)
    BY <1>1, FS_Subset, FS_CardinalityType
  <1>3. activeConns \in 0 .. Cardinality(Callers)
    BY <1>1, <1>2
  <1>4. \A c \in Callers : Bounded(c, h[c])
    BY DEF ServerInv, AllSound, Sound, ClientSound
  <1>5. DialTypeOK /\ h \in [Callers -> ClientState]
    BY DEF ServerInv, AllSound, DialTypeOK
  <1> QED
    BY <1>3, <1>4, <1>5 DEF TypeOK, ServerInv, FlagTypes, Bounded

\* The variables of the server, of every handler and of every dial keep their
\* types, for any set of clients and any bounds on what is sent.
THEOREM ServerTypeCorrect == Spec => []TypeOK
BY ServerInvariant, InvTypes, PTL

\* StreamsInOrder: both ways the relayed chunks are consecutive from the first
\* one that is the other side's to see, whatever was peeked at, read ahead by
\* the request's reader, or came with the proxy's 200.
THEOREM StreamsAreOrdered == Spec => []StreamsInOrder
PROOF
  <1>1. ServerInv => StreamsInOrder
    <2> SUFFICES ASSUME ServerInv PROVE StreamsInOrder
      OBVIOUS
    <2>1. TypeOK
      BY InvTypes
    <2>2. ASSUME NEW c \in Callers
          PROVE  /\ \A i \in DOMAIN h[c].up : h[c].up[i] = FirstChunk(c) + i - 1
                 /\ \A i \in DOMAIN h[c].down : h[c].down[i] = i
      <3>1. ClientSound(c, h[c])
        BY ClientKnown
      <3>2. Runs(h[c].up, First(h[c])) /\ Runs(h[c].down, 1)
        BY <3>1 DEF ClientSound, UpInOrder, Forwarded, DownInOrder
      <3>3. h[c].up \in Seq(1 .. Chunks[c]) /\ h[c].down \in Seq(1 .. DownChunks[c])
        BY <3>1 DEF ClientSound, Bounded
      <3>4. /\ DOMAIN h[c].up = 1 .. Len(h[c].up) /\ DOMAIN h[c].down = 1 .. Len(h[c].down)
            /\ Len(h[c].up) \in Nat /\ Len(h[c].down) \in Nat
        BY <3>3, LenProperties
      <3>5. First(h[c]) = FirstChunk(c)
        BY DEF First, FirstChunk
      <3>6. \A i \in DOMAIN h[c].up : h[c].up[i] = FirstChunk(c) + i - 1
        BY <3>2, <3>4, <3>5 DEF Runs
      <3>7. \A i \in 1 .. Len(h[c].down) : h[c].down[i] = 1 + i - 1
        BY <3>2 DEF Runs
      <3> QED
        BY <3>4, <3>6, <3>7
    <2> QED
      BY <2>1, <2>2 DEF StreamsInOrder
  <1> QED
    BY <1>1, ServerInvariant, PTL

\* HandlerReleasesAll: whatever path a handler took, and whatever the proxy
\* answered its dial, once its deferred calls have run both connections are
\* closed and the session is gone, and an explicit client's request has been
\* forwarded or answered unless a write failed or the policy panicked.
THEOREM EveryHandlerReleases == Spec => []HandlerReleasesAll
PROOF
  <1>1. ServerInv => DialLeavesNothing
    <2> SUFFICES ASSUME ServerInv, NEW c \in Callers
                 PROVE  /\ dial[c].pc = "ok" => dial[c].open = {dial[c].conn} /\ ~dial[c].deadline
                        /\ dial[c].pc = "failed" => dial[c].open = {} /\ ~dial[c].deadline
                        /\ Cardinality(dial[c].open) <= 1
                        /\ dial[c].connects <= SSPISteps + 2
                        /\ dial[c].basics <= 2
                        /\ ~dial[c].route.user => dial[c].basics = 0
                        /\ dial[c].round > 0 => Windows
      BY DEF DialLeavesNothing
    <2> DEFINE d == dial[c]
    <2>1. d \in DialState /\ DialSound(d)
      BY ClientKnown
    <2> HIDE DEF d
    <2>2. Frugal(d)
      BY <2>1 DEF DialSound
    <2>3. d.open = {} \/ d.open = {d.conn}
      <3>1. d.pc \in {"idle", "dialing", "tls", "waiting", "ok", "failed"}
        BY <2>1 DEF DialState
      <3> QED
        BY <2>1, <3>1 DEF DialSound, Connected
    <2>4. Cardinality(d.open) <= 1
      <3>1. Cardinality({}) = 0 /\ Cardinality({d.conn}) = 1
        BY FS_EmptySet, FS_Singleton
      <3>2. Cardinality(d.open) = 0 \/ Cardinality(d.open) = 1
        BY <2>3, <3>1
      <3> QED
        BY <3>2
    <2>5. /\ d.pc = "ok" => d.open = {d.conn} /\ ~d.deadline
          /\ d.pc = "failed" => d.open = {} /\ ~d.deadline
      BY <2>1 DEF DialSound, Connected
    <2> QED
      BY <2>2, <2>4, <2>5 DEF Frugal, d
  <1>2. ServerInv => HandlerReleasesAll
    <2> SUFFICES ASSUME ServerInv, NEW c \in Callers, h[c].pc \in {"released", "done"}
                 PROVE  /\ ~h[c].clientOpen /\ ~h[c].session /\ dial[c].open = {}
                        /\ ~h[c].kind.nat /\ h[c].read > 0 =>
                             h[c].answer # "none" \/ h[c].up # <<>> \/ h[c].excused
      BY <1>1 DEF HandlerReleasesAll
    <2>1. ClientSound(c, h[c]) /\ DialSound(dial[c]) /\ Linked(h[c], dial[c])
      BY ClientKnown
    <2>2. dial[c].open = {}
      BY <2>1 DEF Linked, DialSound
    <2>3. ~h[c].clientOpen /\ ~h[c].session
      BY <2>1 DEF ClientSound, Released
    <2>4. ~h[c].kind.nat /\ h[c].read > 0 =>
            h[c].answer # "none" \/ h[c].up # <<>> \/ h[c].excused
      BY <2>1 DEF ClientSound, Answering
    <2> QED
      BY <2>2, <2>3, <2>4
  <1> QED
    BY <1>2, ServerInvariant, PTL

\* DrainedMeansDone: when Close reports that the connections have drained the
\* only handlers that run are those whose connection was accepted and not yet
\* counted when the wait ended.
THEOREM DrainIsComplete == Spec => []DrainedMeansDone
PROOF
  <1>1. ServerInv => DrainedMeansDone
    BY DEF ServerInv, GroupInv, Live, Counted, DrainedMeansDone
  <1> QED
    BY <1>1, ServerInvariant, PTL

=============================================================================
