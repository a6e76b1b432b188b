-------------------------------- MODULE Relay --------------------------------
(***************************************************************************)
(* PipeConnEx of internal/proxy/forwarder.go: two goroutines copy data     *)
(* between a client and an upstream connection, with half-close, a shared  *)
(* idle clock (lastActivity) and lazily refreshed read deadlines.          *)
(*                                                                         *)
(* Direction s is the goroutine that reads from side s and writes to       *)
(* Other(s): "upstream" is the code's DOWN goroutine, "client" its UP.     *)
(*                                                                         *)
(* Time is discrete and relative: a deadline is the time left until it     *)
(* expires, a timestamp the time elapsed since.  Goroutines are fast: time *)
(* passes only when neither can take a step.                               *)
(***************************************************************************)
EXTENDS Integers

CONSTANTS
    IdleChoices,   \* idleTimeout values to consider; 0 is permanent mode
    RefreshFloor,  \* 5 s:  least deadline refresh interval
    RefreshCap,    \* 30 s: greatest deadline refresh interval
    DrainCap,      \* 60 s: greatest time to drain a half-closed connection
    MaxChunks      \* bound: chunks each peer sends

ASSUME TimesAssumption ==
    /\ IdleChoices \subseteq Nat
    /\ RefreshFloor \in Nat /\ RefreshCap \in Nat /\ DrainCap \in Nat
    /\ RefreshFloor < RefreshCap
    /\ RefreshCap < DrainCap
    /\ MaxChunks \in Nat

VARIABLES
    idle,       \* idleTimeout
    peer,       \* what each peer has done with its sending side
    stall,      \* whether each peer has stopped reading
    sent,       \* chunks each peer has sent
    inbox,      \* chunks received from each peer and not yet read
    got,        \* chunks each peer has been sent
    finSent,    \* sides closeWrite was called on
    conn,       \* the proxy's connection to each side
    pc,         \* where each direction's goroutine is
    remaining,  \* time left of the read deadline of each connection
    age,        \* time since each direction's lastDeadline
    since,      \* time since lastActivity
    quiet,      \* no read has happened for idleTimeout at some moment
    cut,        \* directions a read deadline has ended
    finished    \* PipeConnEx has returned

peerVars == <<peer, stall, sent>>
timeVars == <<remaining, age, since, quiet>>
vars == <<idle, peer, stall, sent, inbox, got, finSent, conn, pc, remaining,
          age, since, quiet, cut, finished>>

-----------------------------------------------------------------------------

Sides == {"client", "upstream"}

Other(s) == IF s = "client" THEN "upstream" ELSE "client"

NoDeadline == -1

isPermanent == idle = 0

\* A quarter of the idle timeout, kept between 5 s and 30 s; a timeout of at
\* most 5 s has no lower bound.
deadlineRefreshInterval ==
    LET quarter == idle \div 4
    IN  IF quarter > RefreshCap THEN RefreshCap
        ELSE IF quarter < RefreshFloor /\ idle > RefreshFloor THEN RefreshFloor
        ELSE quarter

drainTimeout == IF isPermanent \/ idle > DrainCap THEN DrainCap ELSE idle

\* Beyond these values the code tells no timestamps apart.
AgeLimit == RefreshCap + 1
SinceLimit == 2 * idle + drainTimeout + 1

TypeOK ==
    /\ idle \in IdleChoices
    /\ peer \in [Sides -> {"open", "fin", "reset"}]
    /\ stall \in [Sides -> {"never", "now", "past"}]
    /\ sent \in [Sides -> 0..MaxChunks]
    /\ inbox \in [Sides -> 0..MaxChunks]
    /\ got \in [Sides -> 0..MaxChunks]
    /\ finSent \in SUBSET Sides
    /\ conn \in [Sides -> {"open", "closed"}]
    /\ pc \in [Sides -> {"read", "expired", "write", "done"}]
    /\ remaining \in [Sides -> Nat \cup {NoDeadline}]
    /\ age \in [Sides -> 0..AgeLimit]
    /\ since \in 0..SinceLimit
    /\ quiet \in BOOLEAN
    /\ cut \in SUBSET Sides
    /\ finished \in BOOLEAN

\* Mutant: no deadline is set before the first read.
InitWithoutDeadline ==
    /\ idle \in IdleChoices
    /\ peer = [s \in Sides |-> "open"]
    /\ stall = [s \in Sides |-> "never"]
    /\ sent = [s \in Sides |-> 0]
    /\ inbox = [s \in Sides |-> 0]
    /\ got = [s \in Sides |-> 0]
    /\ finSent = {}
    /\ conn = [s \in Sides |-> "open"]
    /\ pc = [s \in Sides |-> "read"]
    /\ remaining = [s \in Sides |-> NoDeadline]
    /\ age = [s \in Sides |-> 0]
    /\ since = 0
    /\ quiet = FALSE
    /\ cut = {}
    /\ finished = FALSE

\* Both goroutines start by setting their read deadline.
Init ==
    /\ idle \in IdleChoices
    /\ peer = [s \in Sides |-> "open"]
    /\ stall = [s \in Sides |-> "never"]
    /\ sent = [s \in Sides |-> 0]
    /\ inbox = [s \in Sides |-> 0]
    /\ got = [s \in Sides |-> 0]
    /\ finSent = {}
    /\ conn = [s \in Sides |-> "open"]
    /\ pc = [s \in Sides |-> "read"]
    /\ remaining = [s \in Sides |-> IF isPermanent THEN NoDeadline ELSE idle]
    /\ age = [s \in Sides |-> 0]
    /\ since = 0
    /\ quiet = FALSE
    /\ cut = {}
    /\ finished = FALSE

-----------------------------------------------------------------------------
(* The peers and the TCP stack between them and the relay (external).      *)

PeerSend(s) ==
    /\ peer[s] = "open" /\ conn[s] = "open"
    /\ sent[s] < MaxChunks
    /\ sent' = [sent EXCEPT ![s] = @ + 1]
    /\ inbox' = [inbox EXCEPT ![s] = @ + 1]
    /\ UNCHANGED <<idle, peer, stall, got, finSent, conn, pc, timeVars, cut,
                   finished>>

\* The peer shuts down its sending side, or resets the connection.
PeerEnd(s) ==
    /\ conn[s] = "open"
    /\ \/ peer[s] = "open" /\ peer' = [peer EXCEPT ![s] = "fin"]
       \/ peer[s] # "reset" /\ peer' = [peer EXCEPT ![s] = "reset"]
    /\ UNCHANGED <<idle, stall, sent, inbox, got, finSent, conn, pc, timeVars,
                   cut, finished>>

\* The peer stops reading for a while, once: its buffers are full.
PeerStall(s) ==
    /\ conn[s] = "open" /\ stall[s] = "never"
    /\ stall' = [stall EXCEPT ![s] = "now"]
    /\ UNCHANGED <<idle, peer, sent, inbox, got, finSent, conn, pc, timeVars,
                   cut, finished>>

PeerResume(s) ==
    /\ stall[s] = "now"
    /\ stall' = [stall EXCEPT ![s] = "past"]
    /\ UNCHANGED <<idle, peer, sent, inbox, got, finSent, conn, pc, timeVars,
                   cut, finished>>

-----------------------------------------------------------------------------
(* The goroutine of direction s.                                           *)

\* updateDeadline: the deadline is moved only if the last one this direction
\* set is older than the refresh interval.
updateDeadline(s) ==
    IF ~isPermanent /\ age[s] > deadlineRefreshInterval
    THEN /\ remaining' = [remaining EXCEPT ![s] = idle]
         /\ age' = [age EXCEPT ![s] = 0]
    ELSE UNCHANGED <<remaining, age>>

CloseBoth == conn' = [t \in Sides |-> "closed"]

\* A read on an expired deadline fails even if data is waiting.
ReadData(s) ==
    /\ pc[s] = "read" /\ conn[s] = "open" /\ remaining[s] # 0
    /\ inbox[s] > 0 /\ peer[s] # "reset"
    /\ inbox' = [inbox EXCEPT ![s] = @ - 1]
    /\ since' = 0
    /\ updateDeadline(s)
    /\ pc' = [pc EXCEPT ![s] = "write"]
    /\ UNCHANGED <<idle, peerVars, got, finSent, conn, quiet, cut, finished>>

\* There is no write deadline: the call returns when the peer reads.
WriteDone(s) ==
    /\ pc[s] = "write" /\ conn[Other(s)] = "open"
    /\ stall[Other(s)] # "now" /\ peer[Other(s)] # "reset"
    /\ got' = [got EXCEPT ![Other(s)] = @ + 1]
    /\ pc' = [pc EXCEPT ![s] = "read"]
    /\ UNCHANGED <<idle, peerVars, inbox, finSent, conn, timeVars, cut,
                   finished>>

WriteError(s) ==
    /\ pc[s] = "write"
    /\ conn[Other(s)] = "closed" \/ peer[Other(s)] = "reset"
    /\ CloseBoth
    /\ pc' = [pc EXCEPT ![s] = "done"]
    /\ UNCHANGED <<idle, peerVars, inbox, got, finSent, timeVars, cut, finished>>

\* Mutant: an end of stream closes both connections.
ReadEOFClosesBoth(s) ==
    /\ pc[s] = "read" /\ conn[s] = "open" /\ remaining[s] # 0
    /\ inbox[s] = 0 /\ peer[s] = "fin"
    /\ CloseBoth
    /\ pc' = [pc EXCEPT ![s] = "done"]
    /\ UNCHANGED <<idle, peerVars, inbox, got, finSent, timeVars, cut, finished>>

\* Mutant: data that arrives together with the end of stream is dropped.
ReadEOFDropsData(s) ==
    /\ pc[s] = "read" /\ conn[s] = "open" /\ remaining[s] # 0
    /\ inbox[s] <= 1 /\ peer[s] = "fin"
    /\ finSent' = finSent \cup {Other(s)}
    /\ remaining' = [remaining EXCEPT ![Other(s)] =
                        IF conn[Other(s)] = "open" THEN drainTimeout ELSE @]
    /\ pc' = [pc EXCEPT ![s] = "done"]
    /\ UNCHANGED <<idle, peerVars, inbox, got, conn, age, since, quiet, cut,
                   finished>>

\* Half-close: the other side is told, and the other direction gets a
\* deadline of its own to drain what is still coming.
ReadEOF(s) ==
    /\ pc[s] = "read" /\ conn[s] = "open" /\ remaining[s] # 0
    /\ inbox[s] = 0 /\ peer[s] = "fin"
    /\ finSent' = finSent \cup {Other(s)}
    /\ remaining' = [remaining EXCEPT ![Other(s)] =
                        IF conn[Other(s)] = "open" THEN drainTimeout ELSE @]
    /\ pc' = [pc EXCEPT ![s] = "done"]
    /\ UNCHANGED <<idle, peerVars, inbox, got, conn, age, since, quiet, cut,
                   finished>>

ReadError(s) ==
    /\ pc[s] = "read"
    /\ conn[s] = "closed" \/ peer[s] = "reset"
    /\ CloseBoth
    /\ pc' = [pc EXCEPT ![s] = "done"]
    /\ UNCHANGED <<idle, peerVars, inbox, got, finSent, timeVars, cut, finished>>

ReadTimeout(s) ==
    /\ pc[s] = "read" /\ conn[s] = "open" /\ remaining[s] = 0
    /\ pc' = [pc EXCEPT ![s] = "expired"]
    /\ UNCHANGED <<idle, peerVars, inbox, got, finSent, conn, timeVars, cut,
                   finished>>

\* Mutant: an expired deadline is always re-armed.
AlwaysRearm(s) ==
    /\ pc[s] = "expired"
    /\ updateDeadline(s)
    /\ pc' = [pc EXCEPT ![s] = "read"]
    /\ UNCHANGED <<idle, peerVars, inbox, got, finSent, conn, since, quiet, cut,
                   finished>>

\* The deadline is stale if either direction has read something since.
HandleTimeout(s) ==
    /\ pc[s] = "expired"
    /\ IF since < idle
       THEN /\ updateDeadline(s)
            /\ pc' = [pc EXCEPT ![s] = "read"]
            /\ UNCHANGED <<finSent, cut>>
       ELSE /\ finSent' = finSent \cup {Other(s)}
            /\ cut' = cut \cup {s}
            /\ pc' = [pc EXCEPT ![s] = "done"]
            /\ UNCHANGED <<remaining, age>>
    /\ UNCHANGED <<idle, peerVars, inbox, got, conn, since, quiet, finished>>

\* wg.Wait returns and both connections are closed.
Finish ==
    /\ ~finished
    /\ \A s \in Sides : pc[s] = "done"
    /\ CloseBoth
    /\ finished' = TRUE
    /\ UNCHANGED <<idle, peerVars, inbox, got, finSent, pc, timeVars, cut>>

-----------------------------------------------------------------------------
(* Time.                                                                   *)

\* A goroutine can take a step.
Busy ==
    \/ \E s \in Sides :
        \/ pc[s] = "expired"
        \/ /\ pc[s] = "read"
           /\ \/ conn[s] = "closed" \/ remaining[s] = 0
              \/ inbox[s] > 0 \/ peer[s] # "open"
        \/ /\ pc[s] = "write"
           /\ \/ conn[Other(s)] = "closed" \/ peer[Other(s)] = "reset"
              \/ stall[Other(s)] # "now"
    \/ \A s \in Sides : pc[s] = "done"

Sooner(t) == IF t > 0 THEN t - 1 ELSE t

Later(t, limit) == IF t < limit THEN t + 1 ELSE limit

Tick ==
    /\ ~Busy
    /\ remaining' = [s \in Sides |-> Sooner(remaining[s])]
    /\ age' = [s \in Sides |-> Later(age[s], AgeLimit)]
    /\ since' = Later(since, SinceLimit)
    /\ quiet' = (quiet \/ since' >= idle)
    /\ UNCHANGED <<idle, peerVars, inbox, got, finSent, conn, pc, cut, finished>>

-----------------------------------------------------------------------------

Step(s) ==
    \/ ReadData(s)
    \/ WriteDone(s)
    \/ WriteError(s)
    \/ ReadEOF(s)
    \/ ReadError(s)
    \/ ReadTimeout(s)
    \/ HandleTimeout(s)

PeerStep(s) ==
    \/ PeerSend(s)
    \/ PeerEnd(s)
    \/ PeerStall(s)
    \/ PeerResume(s)

\* PipeConnEx has returned; nothing is left to happen.
Returned == finished /\ UNCHANGED vars

Next ==
    \/ \E s \in Sides : Step(s) \/ PeerStep(s)
    \/ Finish
    \/ Tick
    \/ Returned

Spec == Init /\ [][Next]_vars

\* Goroutines are scheduled and time passes.
FairSpec ==
    /\ Spec
    /\ \A s \in Sides : WF_vars(Step(s))
    /\ WF_vars(Finish)
    /\ WF_vars(Tick)

\* In addition a peer that has stopped reading reads again.
ReadingSpec == FairSpec /\ \A s \in Sides : WF_vars(PeerResume(s))

-----------------------------------------------------------------------------
(* Properties.                                                             *)

\* A read deadline that expires while the session is in use is re-armed: the
\* goroutine does not spin on a deadline in the past.  (updateDeadline skips
\* a refresh that comes too early, and ReadEOF of the other direction moves
\* the deadline without recording it in lastDeadline.)
NoSpin ==
    \A s \in Sides :
        pc[s] = "expired" /\ since < idle => age[s] > deadlineRefreshInterval

\* A session is cut late, because deadlines are refreshed lazily, but not
\* arbitrarily late: a direction waiting for data has seen activity within
\* twice the idle timeout and a drain.
IdleCutBound ==
    \A s \in Sides :
        ~isPermanent /\ pc[s] = "read" /\ remaining[s] > 0
            => since <= 2 * idle + drainTimeout

\* Data is lost only for a reason: if no peer has reset its connection and
\* the session was never idle for its timeout, a relay that returns has
\* delivered all that was sent and passed on both ends of stream.  A drain
\* deadline alone does not cut a session with a timeout.  README.md on
\* idle_timeout_sec 0, "large file transfers and SSH/RDP left alone for a long
\* time are not cut either": in permanent mode no deadline ends a session both
\* of whose peers are still sending.  (After a half-close one does: the drain
\* deadline of the other direction is never refreshed.)
NoActiveSessionIsCut ==
    /\ /\ finished /\ ~isPermanent /\ ~quiet
       /\ \A s \in Sides : peer[s] # "reset"
       => \A s \in Sides : /\ peer[s] = "fin"
                           /\ got[Other(s)] = sent[s]
                           /\ s \in finSent
    /\ \A s \in cut : isPermanent => peer[Other(s)] # "open"

\* A relay with an idle timeout returns, whatever its peers do, as long as
\* they read what they are sent (README.md on idle_timeout_sec, "seconds after
\* which a connection without traffic is cut").
RelayReturns == idle > 0 ~> finished

-----------------------------------------------------------------------------
(* What the peers see of the relay is a Pipe.                              *)

P == INSTANCE Pipe WITH
        ended <- {s \in Sides : peer[s] # "open"},
        told <- finSent,
        closed <- conn["client"] = "closed"

\* However deadlines, errors and half-closes interleave, each stream is
\* carried in order, an end of stream is passed on only behind the last
\* chunk, and nothing follows it.
ImplementsPipe == P!Spec

=============================================================================
