------------------------------ MODULE DnsCache ------------------------------
(***************************************************************************)
(* The cache of DNS answers (internal/dns/cache.go): a sync.Map, a counter *)
(* beside it that is kept by separate atomic additions, and a maximum time *)
(* to live that a reload changes without a lock.  Queries call Get and     *)
(* Set, a ticker sweeps expired entries, a reload calls Purge or           *)
(* SetMaxTTL.  DnsEngine says when an answer is looked up or stored.       *)
(***************************************************************************)
EXTENDS Integers, FiniteSets

CONSTANTS
    Keys,
    Callers,     \* goroutines that process queries
    Cleaner,     \* the goroutine of cleanupLoop
    Capacity,    \* maxDNSCacheEntries (10000)
    MinTTL,      \* least time an answer is kept (5 s)
    DefaultTTL,  \* replaces a configured maximum that is not positive (300 s)
    RecordCap,   \* greatest TTL of a record that counts (86400 s)
    TopTTL,      \* 2^32 - 1, the start value of the search for the least TTL
    TTLChoices,  \* configured maxima considered
    TTLsOf,      \* per key, the TTLs of its answer's records
    MaxClock,    \* bound: clock ticks
    MaxCalls,    \* bound: calls of Get that find something, and of Set
    MaxReloads   \* bound: calls of Purge and SetMaxTTL

None == [exp |-> -1, era |-> -1]

ASSUME CacheAssumption ==
  /\ IsFiniteSet(Keys) /\ IsFiniteSet(Callers) /\ Cleaner \notin Callers
  /\ {Capacity, RecordCap, TopTTL, MaxClock, MaxCalls, MaxReloads} \subseteq Nat
  /\ {MinTTL, DefaultTTL} \subseteq Nat \ {0}
  /\ TTLChoices \subseteq Int /\ TTLsOf \in [Keys -> SUBSET Nat]

Procs == Callers \cup {Cleaner}

VARIABLES
    entries,     \* per key, what is stored, or None
    count,
    maxTTL,
    clock,
    w,           \* per goroutine, where it is and what it holds
    purging,     \* Purge is running
    purge,       \* keys its Range has not visited
    calls, reloads,
    era,         \* ghost: number of Purges begun
    overlap      \* ghost: a Purge ran while the map or the counter changed

vars == <<entries, count, maxTTL, clock, w, purging, purge, calls, reloads, era, overlap>>

Entry == [exp : Nat, era : Nat]

(* key: the key worked on; seen: what Get has loaded; ttl: how long Set   *)
(* keeps the answer, and maxima (ghost) the values of maxTTL meanwhile;     *)
(* left, now: keys a sweep has not visited, and when it began.              *)
Worker ==
  [pc : {"idle", "got", "extracted", "clamp", "swap", "add", "sweep", "del", "sub"},
   key : Keys \cup {"none"}, seen : Entry \cup {None},
   ttl : Nat, maxima : SUBSET Nat,
   left : SUBSET Keys, now : Nat]

Rest == [pc |-> "idle", key |-> "none", seen |-> None, ttl |-> 0,
         maxima |-> {}, left |-> {}, now |-> 0]

TypeOK ==
  /\ entries \in [Keys -> Entry \cup {None}]
  /\ count \in Int /\ maxTTL \in Nat \ {0} /\ clock \in Nat
  /\ w \in [Procs -> Worker]
  /\ \A p \in Procs : w[p].pc \notin {"idle", "sweep"} => w[p].key \in Keys
  /\ purging \in BOOLEAN /\ purge \in SUBSET Keys
  /\ {calls, reloads} \subseteq Nat /\ era \in Nat /\ overlap \in BOOLEAN

At(p, where) == w[p].pc = where
Present == {k \in Keys : entries[k] # None}
Adders == {p \in Procs : At(p, "add")}
Takers == {p \in Procs : At(p, "sub")}

Maximum(t) == IF t <= 0 THEN DefaultTTL ELSE t

Init ==
  /\ entries = [k \in Keys |-> None] /\ count = 0
  /\ maxTTL \in {Maximum(t) : t \in TTLChoices}
  /\ clock = 0
  /\ w = [p \in Procs |-> Rest]
  /\ purging = FALSE /\ purge = {}
  /\ calls = 0 /\ reloads = 0 /\ era = 0 /\ overlap = FALSE

-----------------------------------------------------------------------------
(* Get.                                                                    *)

Call == calls < MaxCalls /\ calls' = calls + 1
Put(p, r) == w' = [w EXCEPT ![p] = r]
KeepTable == UNCHANGED <<entries, count, overlap>>
Keep == UNCHANGED <<maxTTL, clock, purging, purge, reloads, era>>
KeepRest == Keep /\ UNCHANGED calls

\* Mutant: a sweep ends with its first deletion.
ResumeNot(p) == Rest

(* Where a sweep goes on, and a Get ends.                                  *)
Resume(p) == IF w[p].left = {} THEN Rest ELSE [w[p] EXCEPT !.pc = "sweep"]

(* A sweep deletes nothing that had not expired when it began, so the keys *)
(* of the others, then and later, need no visit.                           *)
Expired == {k \in Present : clock > entries[k].exp}
evictExpired ==
  IF Expired = {} THEN Rest ELSE [Rest EXCEPT !.pc = "sweep", !.left = Expired, !.now = clock]

\* A miss ends the call.
GetLoad(c, k) ==
  /\ At(c, "idle") /\ entries[k] # None
  /\ Put(c, [Rest EXCEPT !.pc = "got", !.key = k, !.seen = entries[k]])
  /\ Call /\ KeepTable /\ Keep

\* What was loaded is served, or has expired and is to be deleted.
GetCheck(c) ==
  /\ At(c, "got")
  /\ Put(c, IF clock > w[c].seen.exp THEN [Rest EXCEPT !.pc = "del", !.key = w[c].key] ELSE Rest)
  /\ KeepTable /\ KeepRest

\* Mutant: the counter is decremented whether or not the entry was there.
DeleteUnchecked(p) ==
  /\ At(p, "del")
  /\ entries' = [entries EXCEPT ![w[p].key] = None]
  /\ overlap' = (overlap \/ (purging /\ entries[w[p].key] # None))
  /\ Put(p, [w[p] EXCEPT !.pc = "sub"])
  /\ KeepRest /\ UNCHANGED count

\* LoadAndDelete takes whatever is there by now, a newer answer too.
Delete(p) ==
  /\ At(p, "del")
  /\ entries' = [entries EXCEPT ![w[p].key] = None]
  /\ overlap' = (overlap \/ (purging /\ entries[w[p].key] # None))
  /\ Put(p, IF entries[w[p].key] # None THEN [w[p] EXCEPT !.pc = "sub"] ELSE Resume(p))
  /\ KeepRest /\ UNCHANGED count

Decrement(p) ==
  /\ At(p, "sub")
  /\ count' = count - 1
  /\ overlap' = (overlap \/ purging)
  /\ Put(p, Resume(p))
  /\ KeepRest /\ UNCHANGED entries

-----------------------------------------------------------------------------
(* Set.  maxTTL is read three times.                                       *)

Usable(ttls) == {t \in ttls : 0 < t /\ t < TopTTL}
LeastTTL(ttls) == {t \in Usable(ttls) : \A u \in Usable(ttls) : t <= u}

(* The least positive TTL of the records, up to a day; without one, the    *)
(* default.                                                                *)
ExtractMinTTL(ttls, default) ==
  IF LeastTTL(ttls) = {} THEN default
  ELSE LET t == CHOOSE t \in LeastTTL(ttls) : TRUE
       IN  IF t > RecordCap THEN RecordCap ELSE t

AtLeastMin(t) == IF t < MinTTL THEN MinTTL ELSE t

SetBegin(c, k) ==
  /\ At(c, "idle")
  /\ Put(c, [Rest EXCEPT !.pc = "extracted", !.key = k,
                         !.ttl = ExtractMinTTL(TTLsOf[k], maxTTL),
                         !.maxima = {maxTTL}])
  /\ Call /\ KeepTable /\ Keep

SetCompare(c) ==
  /\ At(c, "extracted")
  /\ Put(c, IF w[c].ttl > maxTTL THEN [w[c] EXCEPT !.pc = "clamp"]
            ELSE [w[c] EXCEPT !.pc = "swap", !.ttl = AtLeastMin(@)])
  /\ KeepTable /\ KeepRest

\* Mutant: a lifetime above the maximum is kept.
SetKeeps(c) ==
  /\ At(c, "clamp")
  /\ Put(c, [w[c] EXCEPT !.pc = "swap", !.ttl = AtLeastMin(@)])
  /\ KeepTable /\ KeepRest

SetClamp(c) ==
  /\ At(c, "clamp")
  /\ Put(c, [w[c] EXCEPT !.pc = "swap", !.ttl = AtLeastMin(maxTTL)])
  /\ KeepTable /\ KeepRest

(* A time beyond the last tick stands for all later ones.                  *)
Horizon(t) == IF t > MaxClock THEN MaxClock + 1 ELSE t

\* Only a new key is counted.
SetSwap(c) ==
  /\ At(c, "swap")
  /\ entries' = [entries EXCEPT ![w[c].key] =
                   [exp |-> Horizon(clock + w[c].ttl), era |-> era]]
  /\ overlap' = (overlap \/ (purging /\ entries[w[c].key] = None))
  /\ Put(c, IF entries[w[c].key] = None
            THEN [Rest EXCEPT !.pc = "add", !.key = w[c].key] ELSE Rest)
  /\ KeepRest /\ UNCHANGED count

\* Over the capacity the caller sweeps expired entries itself.
Increment(c) ==
  /\ At(c, "add")
  /\ count' = count + 1
  /\ overlap' = (overlap \/ purging)
  /\ Put(c, IF count + 1 > Capacity THEN evictExpired ELSE Rest)
  /\ KeepRest /\ UNCHANGED entries

-----------------------------------------------------------------------------
(* The ticker, and the sweep both run: a Range in some order.              *)

\* A sweep that would find nothing is not a step.
CleanBegin ==
  /\ At(Cleaner, "idle") /\ Expired # {}
  /\ Put(Cleaner, evictExpired)
  /\ KeepTable /\ KeepRest

Old(p, k) == entries[k] # None /\ w[p].now > entries[k].exp

\* The entry may have been replaced or deleted since the sweep began.
Look(p, k) ==
  /\ At(p, "sweep") /\ k \in w[p].left
  /\ LET r == [w[p] EXCEPT !.key = k, !.left = @ \ {k}]
     IN  Put(p, IF Old(p, k) THEN [r EXCEPT !.pc = "del"]
                ELSE IF r.left = {} THEN Rest ELSE r)
  /\ KeepTable /\ KeepRest

-----------------------------------------------------------------------------
(* Purge and SetMaxTTL, called by the configuration's watcher.             *)

PurgeBegin ==
  /\ ~purging /\ reloads < MaxReloads
  /\ reloads' = reloads + 1 /\ era' = era + 1
  /\ purging' = TRUE /\ purge' = Keys
  /\ overlap' = (overlap \/ Adders # {} \/ Takers # {})
  /\ UNCHANGED <<entries, count, maxTTL, clock, w, calls>>

\* Mutant: only what has expired is deleted.
PurgeExpired(k) ==
  /\ purging /\ k \in purge
  /\ entries' = [entries EXCEPT ![k] = IF clock > @.exp THEN None ELSE @]
  /\ purge' = purge \ {k}
  /\ UNCHANGED <<count, maxTTL, clock, w, purging, calls, reloads, era, overlap>>

\* A key that is stored during the Range is visited or not.
PurgeVisit(k) ==
  /\ purging /\ k \in purge
  /\ entries' = [entries EXCEPT ![k] = None]
  /\ purge' = purge \ {k}
  /\ UNCHANGED <<count, maxTTL, clock, w, purging, calls, reloads, era, overlap>>

PurgeEnd ==
  /\ purging /\ purge = {}
  /\ purging' = FALSE /\ count' = 0
  /\ UNCHANGED <<entries, maxTTL, clock, w, purge, calls, reloads, era, overlap>>

SetMaxTTL(t) ==
  /\ ~purging /\ reloads < MaxReloads
  /\ reloads' = reloads + 1
  /\ maxTTL' = Maximum(t)
  /\ w' = [p \in Procs |-> IF w[p].pc \in {"extracted", "clamp", "swap"}
                           THEN [w[p] EXCEPT !.maxima = @ \cup {Maximum(t)}] ELSE w[p]]
  /\ UNCHANGED <<entries, count, clock, purging, purge, calls, era, overlap>>

(* Time passes while there is something that can expire.                   *)
Tick ==
  /\ clock < MaxClock /\ Present # {}
  /\ clock' = clock + 1
  /\ UNCHANGED <<entries, count, maxTTL, w, purging, purge, calls, reloads, era, overlap>>

-----------------------------------------------------------------------------
Step(p) ==
  \/ GetCheck(p) \/ Delete(p) \/ Decrement(p)
  \/ SetCompare(p) \/ SetClamp(p) \/ SetSwap(p) \/ Increment(p)
  \/ \E k \in Keys : Look(p, k)

Next ==
  \/ \E c \in Callers, k \in Keys : GetLoad(c, k) \/ SetBegin(c, k)
  \/ \E p \in Procs : Step(p)
  \/ CleanBegin
  \/ PurgeBegin \/ (\E k \in Keys : PurgeVisit(k)) \/ PurgeEnd
  \/ \E t \in TTLChoices : SetMaxTTL(t)
  \/ Tick

Spec == Init /\ [][Next]_vars

-----------------------------------------------------------------------------
\* The counter is the number of entries, but for additions still under way,
\* unless a Purge ran while another goroutine was changing the map: its
\* Store(0) then forgets a key it has not deleted, or an addition comes late,
\* and the capacity check is off by one for good.
CountIsExact ==
  /\ TypeOK
  /\ \/ overlap \/ purging
     \/ count + Cardinality(Adders) - Cardinality(Takers) = Cardinality(Present)

\* Once a Purge has returned, nothing that was stored before it began is
\* there, whoever else reads and writes meanwhile.
PurgeForgets == ~purging => \A k \in Present : entries[k].era >= era

\* When a sweep returns, nothing is left that had expired when it began,
\* whatever was stored, deleted or purged in between: what a Set over the
\* capacity, and the ticker, rely on.
SweepIsComplete ==
  [][\A p \in Procs : w[p].now > 0 /\ w'[p].pc = "idle" =>
       \A k \in Present' : entries'[k].exp >= w[p].now]_vars

\* An answer is kept for MinTTL at least, no longer than a maximum that was in
\* force while it was stored, however Set's three reads of maxTTL and SetMaxTTL
\* interleave; and if the maximum was not changed meanwhile, no longer than its
\* shortest-lived record asks for, unless that is shorter than MinTTL.  A maximum
\* below MinTTL is left out: README.md:283 then promises what the floor breaks.
LifeIsBounded ==
  \A c \in Callers : At(c, "swap") /\ (\A m \in w[c].maxima : m >= MinTTL) =>
    /\ w[c].ttl >= MinTTL
    /\ \E m \in w[c].maxima : w[c].ttl <= m
    /\ w[c].maxima = {maxTTL} =>
         \A t \in LeastTTL(TTLsOf[w[c].key]) : w[c].ttl <= t \/ w[c].ttl = MinTTL
=============================================================================
