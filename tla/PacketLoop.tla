----------------------------- MODULE PacketLoop -----------------------------
(***************************************************************************)
(* What becomes of a captured packet on Windows: the dispatch of           *)
(* packetLoop (internal/interceptor/redirector.go), the queue of DNS tasks *)
(* and its workers, and the UDP flow table (udp_flow.go), while reloads    *)
(* change the redirector's fields and main shuts it down.  The translation *)
(* of TCP packets itself is module NatSessions.                            *)
(*                                                                         *)
(* The WinDivert handle is opened once: what it captures, and whether it   *)
(* takes packets or only copies them (sniff), is settled at Start, and     *)
(* later reloads change only how packets are treated.  The fields are read *)
(* without the mutex, each at its own time.                                *)
(***************************************************************************)
EXTENDS Integers, Sequences, FiniteSets

CONSTANTS
    Packets,
    Traffic,     \* the mixes of packets considered: functions from packets to classes
    Blocked,     \* packets whose destination the UDP filter refuses
    QueueCap,    \* capacity of dnsQueue
    TTL,         \* of a UDP flow
    Refresh,     \* age from which a flow's time is written again (5 s)
    MaxClock,    \* bound: clock ticks
    MaxReloads   \* bound: calls of the setters

ASSUME PacketAssumption ==
  /\ {QueueCap, TTL, Refresh, MaxClock, MaxReloads} \subseteq Nat
  /\ Refresh <= TTL
  /\ Blocked \subseteq Packets
  /\ Traffic \subseteq [Packets -> {"tcp", "quic", "dns", "udp"}]

VARIABLES
    class,       \* per packet, how the loop will class it
    handle,      \* "divert", "sniff" or "closed"
    sniffMode,   \* r.sniffMode, set at Start
    captures,    \* of the classes in play, those the handle's filter matches
    dryRun,      \* r.dryRun
    dnsEng,      \* r.dnsEng is not nil
    filterUDP,   \* r.filterUDP
    ctxDone,
    clock,
    flow,        \* the table's entry of the one UDP flow, or -1
    cleaner,     \* where Cleanup is
    dnsQueue,
    pk,          \* per packet, what became of it
    reloads,
    wentLive,    \* ghost: a sniffing process has left the dry run
    lastSeen,    \* ghost: time of the flow's last packet, or -1
    overlap,     \* ghost: two goroutines were in the flow table at once
    reaudit      \* ghost: the flow was logged again although it was active

setup == <<class, sniffMode, captures>>
fields == <<dryRun, dnsEng, filterUDP, reloads, wentLive>>
table == <<flow, lastSeen, overlap, reaudit>>
vars == <<handle, setup, fields, ctxDone, clock, table, cleaner, dnsQueue, pk>>

Classes == {"tcp", "quic", "dns", "udp"}

Fresh == [st |-> "new", orig |-> 0, nat |-> 0, ans |-> 0, lost |-> "no",
          now |-> 0, seen |-> -1]

PacketState ==
  [st : {"new", "read", "flow", "verdict", "queued", "task", "ask", "done"},
   orig : 0 .. 2, nat : 0 .. 1, ans : 0 .. 1,
   lost : {"no", "quic", "blocked", "engineOff", "panic", "engine", "closed"},
   now : 0 .. MaxClock, seen : -1 .. MaxClock]

TypeOK ==
  /\ class \in Traffic /\ handle \in {"divert", "sniff", "closed"} /\ captures \subseteq Classes
  /\ {sniffMode, dryRun, dnsEng, filterUDP, ctxDone, wentLive, overlap, reaudit} \subseteq BOOLEAN
  /\ clock \in 0 .. MaxClock /\ flow \in -1 .. MaxClock /\ lastSeen \in -1 .. MaxClock
  /\ cleaner \in {"idle", "found"} /\ reloads \in 0 .. MaxReloads
  /\ dnsQueue \in Seq(Packets) /\ Len(dnsQueue) <= QueueCap
  /\ pk \in [Packets -> PacketState]

(* BuildDivertFilter and Start: a dry run captures TCP only, and by copy.  *)
(* SetDNSServers precedes SetDNSEngine in main, so the engine is set at    *)
(* first whatever the configuration says; DNS is captured only without     *)
(* custom servers.                                                         *)
Init ==
  /\ class \in Traffic
  /\ dryRun \in BOOLEAN
  /\ filterUDP \in BOOLEAN
  /\ dnsEng = TRUE
  /\ sniffMode = dryRun
  /\ handle = IF dryRun THEN "sniff" ELSE "divert"
  /\ \E doh \in BOOLEAN :
       captures = {c \in Classes : /\ \E p \in Packets : class[p] = c
                                   /\ \/ c = "tcp"
                                      \/ ~dryRun /\ (c = "quic" \/ (c = "dns" /\ doh)
                                                                \/ (c = "udp" /\ filterUDP))}
  /\ ctxDone = FALSE /\ clock = 0 /\ cleaner = "idle" /\ dnsQueue = <<>>
  /\ flow = -1 /\ lastSeen = -1 /\ overlap = FALSE /\ reaudit = FALSE
  /\ pk = [p \in Packets |-> Fresh]
  /\ reloads = 0 /\ wentLive = FALSE

-----------------------------------------------------------------------------
At(p, st) == pk[p].st = st
Put(p, r) == pk' = [pk EXCEPT ![p] = r]
Done(p) == [pk[p] EXCEPT !.st = "done"]
Lost(p, why) == [Done(p) EXCEPT !.lost = why]

(* dll.Send of the packet as it was captured.                              *)
Reinject(p) == IF handle = "closed" THEN Lost(p, "closed") ELSE [Done(p) EXCEPT !.orig = @ + 1]

KeepRest == UNCHANGED <<handle, setup, fields, ctxDone, clock, cleaner>>

(* A packet leaves the machine's stack.  A diverting handle keeps it, a    *)
(* sniffing one takes a copy; anything else passes.  A packet read by a    *)
(* worker after the cancellation is the last one it handles.               *)
Arrive(p) ==
  /\ At(p, "new")
  /\ IF handle = "closed" \/ class[p] \notin captures
     THEN Put(p, [pk[p] EXCEPT !.st = "done", !.orig = 1])
     ELSE Put(p, [pk[p] EXCEPT !.st = "read", !.orig = IF handle = "sniff" THEN 1 ELSE 0])
  /\ KeepRest /\ UNCHANGED <<table, dnsQueue>>

\* Mutant: a dry run sends what it has only sniffed.
TcpIgnoresSniff(p) ==
  /\ At(p, "read") /\ class[p] = "tcp"
  /\ Put(p, IF dryRun THEN Reinject(p)
            ELSE IF handle = "closed" THEN Lost(p, "closed") ELSE [Done(p) EXCEPT !.nat = 1])
  /\ KeepRest /\ UNCHANGED <<table, dnsQueue>>

\* TCP: in a dry run logged, and sent again unless the handle sniffs;
\* otherwise translated, or sent on as it is if it comes from the ports the
\* proxy dials from or is an answer of the proxy that has no session.
DispatchTCP(p) ==
  /\ At(p, "read") /\ class[p] = "tcp"
  /\ \/ dryRun /\ Put(p, IF sniffMode THEN Done(p) ELSE Reinject(p))
     \/ ~dryRun /\ Put(p, IF handle = "closed" THEN Lost(p, "closed")
                                               ELSE [Done(p) EXCEPT !.nat = 1])
     \/ ~dryRun /\ Put(p, Reinject(p))
  /\ KeepRest /\ UNCHANGED <<table, dnsQueue>>

\* QUIC is dropped, so that the client falls back to TCP.
DispatchQUIC(p) ==
  /\ At(p, "read") /\ class[p] = "quic"
  /\ Put(p, IF dryRun THEN Reinject(p) ELSE Lost(p, "quic"))
  /\ KeepRest /\ UNCHANGED <<table, dnsQueue>>

ToEngine(p) == class[p] = "dns" /\ dnsEng /\ ~dryRun

\* Mutant: a query that finds the queue full is dropped.
DispatchDNSDrops(p) ==
  /\ At(p, "read") /\ ToEngine(p)
  /\ IF Len(dnsQueue) < QueueCap
     THEN Put(p, [pk[p] EXCEPT !.st = "queued"]) /\ dnsQueue' = Append(dnsQueue, p)
     ELSE Put(p, Done(p)) /\ UNCHANGED dnsQueue
  /\ KeepRest /\ UNCHANGED table

\* A DNS query goes to the workers' queue, or to a goroutine of its own when
\* the queue is full.
DispatchDNS(p) ==
  /\ At(p, "read") /\ ToEngine(p)
  /\ IF Len(dnsQueue) < QueueCap
     THEN Put(p, [pk[p] EXCEPT !.st = "queued"]) /\ dnsQueue' = Append(dnsQueue, p)
     ELSE Put(p, [pk[p] EXCEPT !.st = "task"]) /\ UNCHANGED dnsQueue
  /\ KeepRest /\ UNCHANGED table

\* Other UDP, and DNS the engine is not asked about: into the flow table if
\* UDP is filtered, and on its way if not.  CheckAndRecord loads the entry.
DispatchUDP(p) ==
  /\ At(p, "read") /\ class[p] \in {"udp", "dns"} /\ ~ToEngine(p)
  /\ IF filterUDP
     THEN /\ Put(p, [pk[p] EXCEPT !.st = "flow", !.now = clock, !.seen = flow])
          /\ overlap' = (overlap \/ \E q \in Packets : At(q, "flow"))
     ELSE Put(p, Reinject(p)) /\ UNCHANGED overlap
  /\ KeepRest /\ UNCHANGED <<flow, lastSeen, reaudit, dnsQueue>>

\* Mutant: an entry in use keeps the time it was made.
NeverRefreshed(p) == -1

(* The new time of the entry, if it is written, and whether the flow is    *)
(* new: not there, or not seen for longer than the TTL.                    *)
IsNewFlow(p) == pk[p].seen = -1 \/ pk[p].now - pk[p].seen > TTL
RefreshedTo(p) == IF pk[p].now - pk[p].seen >= Refresh THEN pk[p].now ELSE -1

\* CheckAndRecord stores the time, and the packet's flow is logged if new.
FlowStore(p) ==
  /\ At(p, "flow")
  /\ flow' = IF IsNewFlow(p) THEN pk[p].now
             ELSE IF RefreshedTo(p) # -1 THEN RefreshedTo(p) ELSE flow
  /\ lastSeen' = pk[p].now
  /\ overlap' = (overlap \/ cleaner = "found")
  /\ reaudit' = (reaudit \/ (IsNewFlow(p) /\ lastSeen # -1 /\ pk[p].now - lastSeen <= TTL - Refresh))
  /\ Put(p, [pk[p] EXCEPT !.st = "verdict", !.seen = -1, !.now = 0])
  /\ KeepRest /\ UNCHANGED dnsQueue

\* The filter decides every packet of the flow, not only the first.
Verdict(p) ==
  /\ At(p, "verdict")
  /\ Put(p, IF p \in Blocked /\ ~dryRun THEN Lost(p, "blocked") ELSE Reinject(p))
  /\ KeepRest /\ UNCHANGED <<table, dnsQueue>>

\* A panic in a worker is recovered; the packet it held is gone.
WorkerPanics(p) ==
  /\ pk[p].st \in {"read", "verdict"}
  /\ Put(p, Lost(p, "panic"))
  /\ KeepRest /\ UNCHANGED <<table, dnsQueue>>

-----------------------------------------------------------------------------
(* The DNS workers.  They leave when the context is done, with what is     *)
(* still in the queue.                                                     *)

TakeTask ==
  /\ dnsQueue # <<>> /\ ~ctxDone
  /\ dnsQueue' = Tail(dnsQueue)
  /\ Put(Head(dnsQueue), [pk[Head(dnsQueue)] EXCEPT !.st = "task"])
  /\ KeepRest /\ UNCHANGED table

\* Mutant: a task waits for an engine that a reload has taken away.
CheckEngineWaits(p) ==
  /\ At(p, "task") /\ dnsEng
  /\ Put(p, [pk[p] EXCEPT !.st = "ask"])
  /\ KeepRest /\ UNCHANGED <<table, dnsQueue>>

\* processDNSTask looks at the engine ...
CheckEngine(p) ==
  /\ At(p, "task")
  /\ Put(p, IF dnsEng THEN [pk[p] EXCEPT !.st = "ask"] ELSE Lost(p, "engineOff"))
  /\ KeepRest /\ UNCHANGED <<table, dnsQueue>>

\* ... and then calls it: a reload that has made it nil by then is a panic,
\* which is recovered.  The engine passes the query on, answers it, or panics
\* or has nothing to say ("engine"; DnsEngine says when).
AskEngine(p) ==
  /\ At(p, "ask")
  /\ \/ dnsEng /\ \E r \in {Reinject(p), Lost(p, "engine"),
                            IF handle = "closed" THEN Lost(p, "closed") ELSE [Done(p) EXCEPT !.ans = 1]} :
                    Put(p, r)
     \/ ~dnsEng /\ Put(p, Lost(p, "engineOff"))
  /\ KeepRest /\ UNCHANGED <<table, dnsQueue>>

-----------------------------------------------------------------------------
(* Cleanup finds an old entry and deletes it, whatever it holds by then.   *)

CleanFind ==
  /\ cleaner = "idle" /\ flow # -1 /\ clock - flow > TTL
  /\ cleaner' = "found"
  /\ overlap' = (overlap \/ \E q \in Packets : At(q, "flow"))
  /\ UNCHANGED <<handle, setup, fields, ctxDone, clock, flow, lastSeen, reaudit, dnsQueue, pk>>

CleanDelete ==
  /\ cleaner = "found"
  /\ cleaner' = "idle"
  /\ flow' = -1
  /\ UNCHANGED <<handle, setup, fields, ctxDone, clock, lastSeen, overlap, reaudit, dnsQueue, pk>>

(* The setters the reload callback calls.                                  *)
Reload == reloads < MaxReloads /\ ~ctxDone /\ reloads' = reloads + 1
KeepPackets == UNCHANGED <<handle, setup, ctxDone, clock, table, cleaner, dnsQueue, pk>>

SetDNSServers(custom) ==
  /\ Reload
  /\ dnsEng' = ~custom
  /\ KeepPackets /\ UNCHANGED <<dryRun, filterUDP, wentLive>>

SetDryRun(b) ==
  /\ Reload
  /\ dryRun' = b
  /\ wentLive' = (wentLive \/ (sniffMode /\ ~b))
  /\ KeepPackets /\ UNCHANGED <<dnsEng, filterUDP>>

SetUDPFilter(b) ==
  /\ Reload
  /\ filterUDP' = b
  /\ KeepPackets /\ UNCHANGED <<dryRun, dnsEng, wentLive>>

Cancel ==
  /\ ~ctxDone
  /\ ctxDone' = TRUE
  /\ UNCHANGED <<handle, setup, fields, clock, table, cleaner, dnsQueue, pk>>

Close ==
  /\ ctxDone /\ handle # "closed"
  /\ handle' = "closed"
  /\ UNCHANGED <<setup, fields, ctxDone, clock, table, cleaner, dnsQueue, pk>>

(* Time begins with the flow's first packet: nothing reads it before.       *)
Tick ==
  /\ clock < MaxClock
  /\ flow # -1 \/ lastSeen # -1 \/ \E p \in Packets : At(p, "flow")
  /\ clock' = clock + 1
  /\ UNCHANGED <<handle, setup, fields, ctxDone, table, cleaner, dnsQueue, pk>>

-----------------------------------------------------------------------------
Work(p) ==
  \/ DispatchTCP(p) \/ DispatchQUIC(p) \/ DispatchDNS(p) \/ DispatchUDP(p)
  \/ FlowStore(p) \/ Verdict(p) \/ WorkerPanics(p)
  \/ CheckEngine(p) \/ AskEngine(p)

Next ==
  \/ \E p \in Packets : Arrive(p) \/ Work(p)
  \/ TakeTask \/ CleanFind \/ CleanDelete
  \/ \E b \in BOOLEAN : SetDNSServers(b) \/ SetDryRun(b) \/ SetUDPFilter(b)
  \/ Cancel \/ Close \/ Tick

Spec == Init /\ [][Next]_vars

(* Workers run; the engine's answers end by DnsEngine's EveryQueryEnds.    *)
FairSpec == Spec /\ WF_vars(TakeTask) /\ \A p \in Packets : WF_vars(Work(p))

-----------------------------------------------------------------------------
Finished(p) == At(p, "done")

\* A packet reaches the network once at most, as it was or translated, or it
\* is answered: no reload, spill or handle mode makes two of it, and a dry run
\* leaves the copies it sniffs alone.  The exception is a handle opened for a
\* dry run that a reload has ended: it goes on copying packets, and what the
\* loop then sends goes out beside them.
OneCopy ==
  /\ TypeOK
  /\ \A p \in Packets : pk[p].orig + pk[p].nat + pk[p].ans <= 1 \/ (wentLive /\ class[p] = "tcp")

\* A packet that goes neither way was dropped on purpose (QUIC, policy), or
\* met a panic, an engine with nothing to say or a closed handle; or it is a
\* query that a reload with custom servers overtook between the packet loop
\* and the worker.
LossIsExplained ==
  \A p \in Packets : Finished(p) /\ pk[p].orig + pk[p].nat + pk[p].ans = 0 =>
    /\ pk[p].lost # "no"
    /\ pk[p].lost = "quic" => class[p] = "quic"
    /\ pk[p].lost = "blocked" => p \in Blocked
    /\ pk[p].lost = "engineOff" => class[p] = "dns" /\ reloads > 0
    /\ pk[p].lost = "closed" => ctxDone

\* A flow is logged again only after a silence longer than the TTL less the
\* refresh interval, unless two goroutines were in the table at once: a
\* second worker's load, or a Cleanup that deletes what was just refreshed.
ReauditNeedsOverlap == reaudit => overlap

\* Every packet the loop took is settled, whatever the queue's state, unless
\* the shutdown left it in the queue.
PacketsAreSettled ==
  \A p \in Packets : (pk[p].st # "new") ~> (Finished(p) \/ (ctxDone /\ At(p, "queued")))
=============================================================================
