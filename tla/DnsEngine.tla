------------------------------ MODULE DnsEngine ------------------------------
(***************************************************************************)
(* The DNS-to-DoH engine of internal/dns: concurrent ProcessDNSQuery calls *)
(* (engine.go) over the answer cache (cache.go), the DoH capability probes *)
(* (probe.go) and the coalescing of identical queries (coalesce.go), with  *)
(* configuration reloads in between.                                       *)
(*                                                                         *)
(* A key is what the cache and the coalescing group are indexed by: target *)
(* server, name and type.  An answer is named after the query whose DoH    *)
(* request obtained it.  The upstream DoH servers are external: a request  *)
(* succeeds, fails or panics.                                              *)
(***************************************************************************)
EXTENDS Naturals, FiniteSets

CONSTANTS
    Queries,      \* intercepted queries, each processed once
    Keys,         \* (target server, name, type)
    Servers,      \* target DNS servers
    KeyOf,        \* the key each query asks for
    ServerOf,     \* the target server of each key
    Unparseable,  \* queries ParseQuery rejects
    Blocked,      \* keys whose name the filter policy blocks
    Known,        \* servers NewProbeManager marks supported in advance
    MaxReloads,   \* bound: configuration reloads
    MaxExpiries,  \* bound: expiries of probe results of one server
    None

ASSUME DnsAssumption ==
    /\ KeyOf \in [Queries -> Keys]
    /\ ServerOf \in [Keys -> Servers]
    /\ Unparseable \subseteq Queries
    /\ Blocked \subseteq Keys
    /\ Known \subseteq Servers
    /\ MaxReloads \in Nat /\ MaxExpiries \in Nat
    /\ None \notin Queries

VARIABLES
    cfg,        \* the configuration cfgMgr.Get returns
    reloads,    \* reloads so far
    reloading,  \* a reload whose UpdateConfig has not run yet
    hasCache,   \* Engine.cache is not nil
    entries,    \* Cache.entries: the answer cached for each key
    status,     \* ProbeManager.cache: DoH support of each server
    stale,      \* servers whose entry there has expired
    expiries,   \* how often a server's entry has expired
    probes,     \* probe requests sent to each server
    forgotten,  \* probe results deleted, or not obtained because of a panic
    mutex,      \* ProbeManager.probeMu: the holder of each server's mutex
    calls,      \* CoalesceGroup.m: the query leading the call of each key
    result,     \* coalesceCall.val/err of the call each query leads
    released,   \* queries that have called wg.Done on the call they lead
    snap,       \* the configuration each query works with
    joined,     \* the leader of the call each query waits for
    pc,         \* where each ProcessDNSQuery is
    reply       \* what it returned

vars == <<cfg, reloads, reloading, hasCache, entries, status, stale, expiries,
          probes, forgotten, mutex, calls, result, released, snap, joined, pc, reply>>

cfgVars == <<cfg, reloads, reloading, hasCache>>
probeVars == <<status, stale, expiries, probes, forgotten, mutex>>
callVars == <<calls, result, released, joined>>

-----------------------------------------------------------------------------

\* DohEnabled, DNSCacheEnabled and FallbackToUDP.
Config == [doh: BOOLEAN, cache: BOOLEAN, fallback: BOOLEAN]

\* Answers are [kind, from, id]: the query that obtained the answer, and the
\* query whose transaction ID it carries.
Passthrough == [kind |-> "passthrough"]
NXDomain == [kind |-> "nxdomain"]
ServFail == [kind |-> "servfail"]
Dropped == [kind |-> "dropped"]
Answer(from, id) == [kind |-> "answer", from |-> from, id |-> id]

Reply == {Passthrough, NXDomain, ServFail, Dropped}
           \cup [kind: {"answer"}, from: Queries, id: Queries]

\* nil, where no reply was given yet, is none of them.
ASSUME NoneAssumption == None \notin Reply

PC == {"idle", "lookup", "check", "delete", "lock", "probing", "coalesce", "leading",
       "ending", "releasing", "waiting", "store", "done"}

TypeOK ==
    /\ cfg \in Config
    /\ reloads \in 0..MaxReloads
    /\ reloading \in BOOLEAN
    /\ hasCache \in BOOLEAN
    /\ entries \in [Keys -> Queries \cup {None}]
    /\ status \in [Servers -> {"unknown", "supported", "unsupported"}]
    /\ stale \in SUBSET Servers
    /\ expiries \in [Servers -> 0..MaxExpiries]
    /\ probes \in [Servers -> Nat]
    /\ forgotten \in [Servers -> Nat]
    /\ mutex \in [Servers -> Queries \cup {None}]
    /\ calls \in [Keys -> Queries \cup {None}]
    /\ result \in [Queries -> {"none", "ok", "error", "panic"}]
    /\ released \in SUBSET Queries
    /\ snap \in [Queries -> Config \cup {None}]
    /\ joined \in [Queries -> Queries \cup {None}]
    /\ pc \in [Queries -> PC]
    /\ reply \in [Queries -> Reply \cup {None}]

\* NewEngine, NewProbeManager, NewCoalesceGroup.
Init ==
    /\ cfg \in Config
    /\ reloads = 0
    /\ reloading = FALSE
    /\ hasCache = cfg.cache
    /\ entries = [k \in Keys |-> None]
    /\ status = [s \in Servers |-> IF s \in Known THEN "supported" ELSE "unknown"]
    /\ stale = {}
    /\ expiries = [s \in Servers |-> 0]
    /\ probes = [s \in Servers |-> 0]
    /\ forgotten = [s \in Servers |-> 0]
    /\ mutex = [s \in Servers |-> None]
    /\ calls = [k \in Keys |-> None]
    /\ result = [q \in Queries |-> "none"]
    /\ released = {}
    /\ snap = [q \in Queries |-> None]
    /\ joined = [q \in Queries |-> None]
    /\ pc = [q \in Queries |-> "idle"]
    /\ reply = [q \in Queries |-> None]

Goto(q, label) == pc' = [pc EXCEPT ![q] = label]

Return(q, r) ==
    /\ pc' = [pc EXCEPT ![q] = "done"]
    /\ reply' = [reply EXCEPT ![q] = r]

-----------------------------------------------------------------------------
(* ProcessDNSQuery up to the cache.                                        *)

\* Take the configuration; disabled DoH and unparseable queries pass through,
\* blocked names are refused.
Receive(q) ==
    /\ pc[q] = "idle"
    /\ snap' = [snap EXCEPT ![q] = cfg]
    /\ \/ /\ ~cfg.doh \/ q \in Unparseable
          /\ Return(q, Passthrough)
       \/ /\ cfg.doh /\ q \notin Unparseable
          /\ KeyOf[q] \in Blocked
          /\ Return(q, NXDomain)
       \/ /\ cfg.doh /\ q \notin Unparseable
          /\ KeyOf[q] \notin Blocked
          /\ Goto(q, "lookup")
          /\ UNCHANGED reply
    /\ UNCHANGED <<cfgVars, entries, probeVars, callVars>>

\* Mutant: a cached answer keeps the transaction ID it was stored with.
GetKeepsID(q) ==
    LET k == KeyOf[q]
    IN  /\ pc[q] = "lookup"
        /\ IF hasCache /\ snap[q].cache /\ entries[k] # None
           THEN Return(q, Answer(entries[k], entries[k]))
           ELSE Goto(q, "check") /\ UNCHANGED reply
        /\ UNCHANGED <<cfgVars, entries, probeVars, callVars, snap>>

\* Cache.Get: a hit is answered under the client's transaction ID.
Get(q) ==
    LET k == KeyOf[q]
    IN  /\ pc[q] = "lookup"
        /\ IF hasCache /\ snap[q].cache /\ entries[k] # None
           THEN Return(q, Answer(entries[k], q))
           ELSE Goto(q, "check") /\ UNCHANGED reply
        /\ UNCHANGED <<cfgVars, entries, probeVars, callVars, snap>>

-----------------------------------------------------------------------------
(* CheckOrProbe.                                                           *)

\* What a known status means for the query.
Decide(q, st) ==
    IF st = "supported"
    THEN Goto(q, "coalesce") /\ UNCHANGED reply
    ELSE Return(q, Passthrough)

GetStatus(q) ==
    LET s == ServerOf[KeyOf[q]]
    IN  /\ pc[q] = "check"
        /\ \/ /\ s \in stale
              /\ Goto(q, "delete") /\ UNCHANGED reply
           \/ /\ s \notin stale /\ status[s] = "unknown"
              /\ Goto(q, "lock") /\ UNCHANGED reply
           \/ /\ s \notin stale /\ status[s] # "unknown"
              /\ Decide(q, status[s])
        /\ UNCHANGED <<cfgVars, entries, probeVars, callVars, snap>>

\* The entry for s is deleted; it may have been replaced since it was found
\* expired, or another query may have deleted it already.
Delete(s) ==
    /\ status' = [status EXCEPT ![s] = "unknown"]
    /\ stale' = stale \ {s}
    /\ forgotten' = IF status[s] = "unknown" THEN forgotten
                    ELSE [forgotten EXCEPT ![s] = @ + 1]

DeleteStatus(q) ==
    /\ pc[q] = "delete"
    /\ Delete(ServerOf[KeyOf[q]])
    /\ Goto(q, "lock")
    /\ UNCHANGED <<cfgVars, entries, expiries, probes, mutex, callVars, snap, reply>>

\* Mutant: the status is not read again under the lock.
LockWithoutRecheck(q) ==
    LET s == ServerOf[KeyOf[q]]
    IN  /\ pc[q] = "lock"
        /\ mutex[s] = None
        /\ Goto(q, "probing")
        /\ mutex' = [mutex EXCEPT ![s] = q]
        /\ probes' = [probes EXCEPT ![s] = @ + 1]
        /\ UNCHANGED <<cfgVars, entries, status, stale, expiries, forgotten,
                       callVars, snap, reply>>

\* The per-server mutex, and the second look under it: a query that waited
\* for another's probe uses its result.
LockAndRecheck(q) ==
    LET s == ServerOf[KeyOf[q]]
    IN  /\ pc[q] = "lock"
        /\ mutex[s] = None
        /\ IF s \in stale THEN Delete(s)
                          ELSE UNCHANGED <<status, stale, forgotten>>
        /\ IF status'[s] = "unknown"
           THEN /\ Goto(q, "probing")
                /\ mutex' = [mutex EXCEPT ![s] = q]
                /\ probes' = [probes EXCEPT ![s] = @ + 1]
                /\ UNCHANGED reply
           ELSE /\ Decide(q, status[s])
                /\ UNCHANGED <<mutex, probes>>
        /\ UNCHANGED <<cfgVars, entries, expiries, callVars, snap>>

\* The probe request ends, its result is stored and the mutex unlocked; any
\* failure means unsupported.  A panic leaves the status as it was.
ProbeDone(q) ==
    LET s == ServerOf[KeyOf[q]]
    IN  /\ pc[q] = "probing"
        /\ \/ \E st \in {"supported", "unsupported"} :
                 /\ status' = [status EXCEPT ![s] = st]
                 /\ stale' = stale \ {s}
                 /\ Decide(q, st)
                 /\ UNCHANGED forgotten
           \/ /\ Return(q, Dropped)
              /\ forgotten' = [forgotten EXCEPT ![s] = @ + 1]
              /\ UNCHANGED <<status, stale>>
        /\ mutex' = [mutex EXCEPT ![s] = None]
        /\ UNCHANGED <<cfgVars, entries, expiries, probes, callVars, snap>>

-----------------------------------------------------------------------------
(* CoalesceGroup.Do.                                                       *)

\* Mutant: the caller does not look for a call in flight.
AlwaysLead(q) ==
    LET k == KeyOf[q]
    IN  /\ pc[q] = "coalesce"
        /\ calls' = [calls EXCEPT ![k] = q]
        /\ Goto(q, "leading")
        /\ UNCHANGED <<cfgVars, entries, probeVars, result, released, joined, snap,
                       reply>>

\* Under the group's mutex: join the call in flight for the key or start one.
Do(q) ==
    LET k == KeyOf[q]
    IN  /\ pc[q] = "coalesce"
        /\ IF calls[k] # None
           THEN /\ joined' = [joined EXCEPT ![q] = calls[k]]
                /\ Goto(q, "waiting")
                /\ UNCHANGED calls
           ELSE /\ calls' = [calls EXCEPT ![k] = q]
                /\ Goto(q, "leading")
                /\ UNCHANGED joined
        /\ UNCHANGED <<cfgVars, entries, probeVars, result, released, snap, reply>>

\* fn, the DoH request of the leader, returns or panics.
QueryDone(q) ==
    /\ pc[q] = "leading"
    /\ \E r \in {"ok", "error", "panic"} : result' = [result EXCEPT ![q] = r]
    /\ Goto(q, "ending")
    /\ UNCHANGED <<cfgVars, entries, probeVars, calls, released, joined, snap, reply>>

\* Mutant: a panic unwinds past the map entry.
PanicSkipsCleanup(q) ==
    /\ pc[q] = "ending"
    /\ IF result[q] = "panic"
       THEN UNCHANGED calls /\ Return(q, Dropped)
       ELSE /\ calls' = [calls EXCEPT ![KeyOf[q]] = None]
            /\ Goto(q, "releasing")
            /\ UNCHANGED reply
    /\ UNCHANGED <<cfgVars, entries, probeVars, result, released, joined, snap>>

\* The deferred cleanup: the call leaves the map ...
Forget(q) ==
    /\ pc[q] = "ending"
    /\ calls' = [calls EXCEPT ![KeyOf[q]] = None]
    /\ Goto(q, "releasing")
    /\ UNCHANGED <<cfgVars, entries, probeVars, result, released, joined, snap, reply>>

\* Mutant: the configuration in force at the end decides.
FailureReplyNow(q) == IF cfg.fallback THEN Passthrough ELSE ServFail

\* What ProcessDNSQuery returns for a failed DoH query.
FailureReply(q) == IF snap[q].fallback THEN Passthrough ELSE ServFail

\* ... and wg.Done lets the followers go.  A panic goes on to the task
\* processor, which drops the query.
Release(q) ==
    /\ pc[q] = "releasing"
    /\ released' = released \cup {q}
    /\ \/ result[q] = "ok" /\ Goto(q, "store") /\ UNCHANGED reply
       \/ result[q] = "error" /\ Return(q, FailureReply(q))
       \/ result[q] = "panic" /\ Return(q, Dropped)
    /\ UNCHANGED <<cfgVars, entries, probeVars, calls, result, joined, snap>>

\* A follower's wg.Wait returns; it does not store the answer.
Follow(q) ==
    /\ pc[q] = "waiting"
    /\ joined[q] \in released
    /\ Return(q, IF result[joined[q]] = "ok" THEN Answer(joined[q], q)
                                             ELSE FailureReply(q))
    /\ UNCHANGED <<cfgVars, entries, probeVars, callVars, snap>>

\* Cache.Set by the leader, and its return.
Store(q) ==
    /\ pc[q] = "store"
    /\ entries' = IF hasCache /\ snap[q].cache
                  THEN [entries EXCEPT ![KeyOf[q]] = q]
                  ELSE entries
    /\ Return(q, Answer(q, q))
    /\ UNCHANGED <<cfgVars, probeVars, callVars, snap>>

-----------------------------------------------------------------------------
(* Time and configuration.                                                 *)

CacheExpire(k) ==
    /\ entries[k] # None
    /\ entries' = [entries EXCEPT ![k] = None]
    /\ UNCHANGED <<cfgVars, probeVars, callVars, snap, pc, reply>>

ProbeExpire(s) ==
    /\ status[s] # "unknown" /\ s \notin stale
    /\ expiries[s] < MaxExpiries
    /\ stale' = stale \cup {s}
    /\ expiries' = [expiries EXCEPT ![s] = @ + 1]
    /\ UNCHANGED <<cfgVars, entries, status, probes, forgotten, mutex, callVars,
                   snap, pc, reply>>

\* The manager publishes a new configuration before it calls UpdateConfig.
Reload ==
    /\ reloads < MaxReloads
    /\ ~reloading
    /\ reloads' = reloads + 1
    /\ cfg' \in Config
    /\ reloading' = TRUE
    /\ UNCHANGED <<hasCache, entries, probeVars, callVars, snap, pc, reply>>

\* A cache is created when it is first enabled, and purged when disabled.
UpdateConfig ==
    /\ reloading
    /\ reloading' = FALSE
    /\ hasCache' = (hasCache \/ cfg.cache)
    /\ entries' = IF cfg.cache THEN entries ELSE [k \in Keys |-> None]
    /\ UNCHANGED <<cfg, reloads, probeVars, callVars, snap, pc, reply>>

-----------------------------------------------------------------------------

\* Steps of a query that do not start it.
Progress(q) ==
    \/ Get(q)
    \/ GetStatus(q)
    \/ DeleteStatus(q)
    \/ LockAndRecheck(q)
    \/ ProbeDone(q)
    \/ Do(q)
    \/ QueryDone(q)
    \/ Forget(q)
    \/ Release(q)
    \/ Follow(q)
    \/ Store(q)

Next ==
    \/ \E q \in Queries : Receive(q) \/ Progress(q)
    \/ \E k \in Keys : CacheExpire(k)
    \/ \E s \in Servers : ProbeExpire(s)
    \/ Reload
    \/ UpdateConfig

Spec == Init /\ [][Next]_vars

\* Workers are scheduled, and the requests they wait for end: the HTTP client
\* has a timeout.  A mutex is granted to every waiter in turn (Go's mutexes do
\* not starve).
FairSpec ==
    /\ Spec
    /\ \A q \in Queries : WF_vars(Progress(q)) /\ SF_vars(LockAndRecheck(q))

-----------------------------------------------------------------------------
(* Properties.                                                             *)

\* coalesce.go, "only one execution is in-flight for a given key at a time":
\* no two queries have a DoH request for the same key under way.
OneRequestPerKey ==
    \A p, q \in Queries :
        pc[p] = "leading" /\ pc[q] = "leading" /\ KeyOf[p] = KeyOf[q] => p = q

\* An answer, cached, shared or one's own, was obtained for the key of the
\* query it answers, by a request that succeeded, and carries its ID.
AnswerFits ==
    \A q \in Queries :
        reply[q] # None /\ reply[q].kind = "answer"
            => /\ KeyOf[reply[q].from] = KeyOf[q]
               /\ result[reply[q].from] = "ok"
               /\ reply[q].id = q

\* probe.go, "Coalesce concurrent probes to the same IP": a server is probed
\* once, and once more each time its result is deleted, however many queries
\* find its status unknown.
ProbesAreCoalesced ==
    \A s \in Servers : probes[s] <= 1 + forgotten[s]

\* Every query received is answered, passed through or dropped: nobody waits
\* for a leader that failed or panicked, or for a probe mutex.
EveryQueryEnds ==
    \A q \in Queries : pc[q] # "idle" ~> pc[q] = "done"

\* config.go on FallbackToUDP, "fallback to standard UDP 53 DNS on DoH
\* failure/unsupported" if true: a failed DoH query is answered the way the
\* configuration the query began with says, for a follower too, whatever is
\* reloaded meanwhile.  Without the fallback a query still leaves in plain text
\* when its server's probe failed, before any DoH request was made for it.
FallbackIsHeeded ==
    \A q \in Queries :
        /\ /\ reply[q] = Passthrough
           /\ snap[q].doh /\ q \notin Unparseable /\ ~snap[q].fallback
           => /\ result[q] = "none" /\ joined[q] = None
              /\ probes[ServerOf[KeyOf[q]]] > 0
        /\ reply[q] = ServFail => ~snap[q].fallback

=============================================================================
