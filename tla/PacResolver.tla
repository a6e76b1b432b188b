----------------------------- MODULE PacResolver -----------------------------
(***************************************************************************)
(* The routing resolver of internal/pac/resolver.go: concurrent Resolve    *)
(* calls with their lock-free decision cache, UpdateConfig, the background *)
(* cleanup and Close.                                                      *)
(*                                                                         *)
(* Configurations are numbered in the order in which UpdateConfig installs *)
(* them, and a decision is named after the configuration it was made with. *)
(* PAC evaluation is external: it returns a decision, or an error that the *)
(* caller turns into a fallback decision, which is cached as well.  sync.Map *)
(* operations are atomic; its Range visits the keys one by one.            *)
(***************************************************************************)
EXTENDS Integers, FiniteSets

CONSTANTS
    Calls,           \* calls of Resolve
    Urls,            \* target URLs, the keys of the cache
    UrlOf,           \* the URL each call asks for
    maxCacheEntries, \* 2000
    MaxUpdates,      \* bound: calls of UpdateConfig
    None

ASSUME PacAssumption ==
    /\ UrlOf \in [Calls -> Urls]
    /\ Urls # {}
    /\ maxCacheEntries \in Nat
    /\ MaxUpdates \in Nat
    /\ None \notin Nat

Versions == 0..MaxUpdates

VARIABLES
    version,     \* number of the current configuration
    isPACMode,   \* Resolver.isPACMode
    session,     \* Resolver.session is not nil
    cache,       \* Resolver.cache: the decision cached for each URL
    expired,     \* URLs whose entry is past expiresAt
    cacheSize,   \* Resolver.cacheSize
    stopped,     \* stopChan is closed
    updater,     \* where UpdateConfig is; it holds mu unless "idle"
    toClear,     \* keys its Range has still to visit
    cleaner,     \* the key the cleanup is working on
    cleaning,    \* where the cleanup is
    pc,          \* where each Resolve is
    snap,        \* the configuration it read under mu
    decision,    \* its result
    sweep,       \* keys the Range of its storeCache has still to visit
    late,        \* configurations with decisions stored after they were replaced
    overlap      \* two goroutines have changed the cache at the same time

config == <<version, isPACMode, session>>
update == <<updater, toClear>>
clean == <<cleaner, cleaning, stopped>>
call == <<pc, snap, decision, sweep>>
entries == <<cache, expired, late>>
vars == <<config, update, clean, call, entries, cacheSize, overlap>>

-----------------------------------------------------------------------------

Writing == {"overwrite", "count", "clear", "zero", "restore", "recount"}

PC == {"idle", "load", "evaluate", "store", "done"} \cup Writing

\* Goroutines that are changing the cache and its size.
Busy == Cardinality({c \in Calls : pc[c] \in Writing})
          + (IF updater \in {"clear", "zero"} THEN 1 ELSE 0)
          + (IF cleaning = "idle" THEN 0 ELSE 1)

Cached == {u \in Urls : cache[u] # None}

NoteOverlap == overlap' = (overlap \/ Busy' > 1)

Init ==
    /\ version = 0
    /\ isPACMode \in BOOLEAN
    /\ session = isPACMode
    /\ cache = [u \in Urls |-> None]
    /\ expired = {}
    /\ cacheSize = 0
    /\ stopped = FALSE
    /\ updater = "idle"
    /\ toClear = {}
    /\ cleaner = None
    /\ cleaning = "idle"
    /\ pc = [c \in Calls |-> "idle"]
    /\ snap = [c \in Calls |-> 0]
    /\ decision = [c \in Calls |-> None]
    /\ sweep = [c \in Calls |-> {}]
    /\ late = {}
    /\ overlap = FALSE

-----------------------------------------------------------------------------
(* Resolve.                                                                *)

\* The configuration is read under mu.  Without a PAC script, or without a
\* session, the decision is the static one.
Resolve(c) ==
    /\ pc[c] = "idle"
    /\ updater = "idle"
    /\ snap' = [snap EXCEPT ![c] = version]
    /\ IF isPACMode /\ session
         THEN pc' = [pc EXCEPT ![c] = "load"] /\ UNCHANGED decision
         ELSE /\ pc' = [pc EXCEPT ![c] = "done"]
              /\ decision' = [decision EXCEPT ![c] = version]
    /\ UNCHANGED <<sweep, config, update, clean, entries, cacheSize>>
    /\ NoteOverlap

\* An entry that has not expired is the answer.
Load(c) ==
    LET u == UrlOf[c] IN
    /\ pc[c] = "load"
    /\ IF cache[u] # None /\ u \notin expired
         THEN /\ decision' = [decision EXCEPT ![c] = cache[u]]
              /\ pc' = [pc EXCEPT ![c] = "done"]
         ELSE pc' = [pc EXCEPT ![c] = "evaluate"] /\ UNCHANGED decision
    /\ UNCHANGED <<snap, sweep, config, update, clean, entries, cacheSize>>
    /\ NoteOverlap

\* GetProxyForURL with the PAC URL of the configuration that was read.
Evaluate(c) ==
    /\ pc[c] = "evaluate"
    /\ decision' = [decision EXCEPT ![c] = snap[c]]
    /\ pc' = [pc EXCEPT ![c] = "store"]
    /\ UNCHANGED <<snap, sweep, config, update, clean, entries, cacheSize>>
    /\ NoteOverlap

\* cache.Store of the call's entry.
Put(c) ==
    LET u == UrlOf[c] IN
    /\ cache' = [cache EXCEPT ![u] = decision[c]]
    /\ expired' = expired \ {u}
    /\ late' = IF decision[c] = version THEN late ELSE late \cup {decision[c]}

\* storeCache: LoadOrStore.
LoadOrStore(c) ==
    /\ pc[c] = "store"
    /\ IF cache[UrlOf[c]] = None
         THEN Put(c) /\ pc' = [pc EXCEPT ![c] = "count"]
         ELSE pc' = [pc EXCEPT ![c] = "overwrite"] /\ UNCHANGED entries
    /\ UNCHANGED <<snap, decision, sweep, config, update, clean, cacheSize>>
    /\ NoteOverlap

\* Mutant: the replaced entry is counted again.
CountOverwrite(c) ==
    /\ pc[c] = "overwrite"
    /\ Put(c)
    /\ cacheSize' = cacheSize + 1
    /\ pc' = [pc EXCEPT ![c] = "done"]
    /\ UNCHANGED <<snap, decision, sweep, config, update, clean>>
    /\ NoteOverlap

\* The existing entry is replaced.
Overwrite(c) ==
    /\ pc[c] = "overwrite"
    /\ Put(c)
    /\ pc' = [pc EXCEPT ![c] = "done"]
    /\ UNCHANGED <<snap, decision, sweep, config, update, clean, cacheSize>>
    /\ NoteOverlap

\* The new entry is counted; beyond the maximum the cache is cleared.
Count(c) ==
    /\ pc[c] = "count"
    /\ cacheSize' = cacheSize + 1
    /\ IF cacheSize + 1 > maxCacheEntries
         THEN pc' = [pc EXCEPT ![c] = "clear"] /\ sweep' = [sweep EXCEPT ![c] = Urls]
         ELSE pc' = [pc EXCEPT ![c] = "done"] /\ UNCHANGED sweep
    /\ UNCHANGED <<snap, decision, config, update, clean, entries>>
    /\ NoteOverlap

\* Range deletes the keys one by one.
Sweep(c, u) ==
    /\ pc[c] = "clear"
    /\ u \in sweep[c]
    /\ cache' = [cache EXCEPT ![u] = None]
    /\ expired' = expired \ {u}
    /\ sweep' = [sweep EXCEPT ![c] = @ \ {u}]
    /\ pc' = [pc EXCEPT ![c] = IF sweep[c] = {u} THEN "zero" ELSE "clear"]
    /\ UNCHANGED <<late, snap, decision, config, update, clean, cacheSize>>
    /\ NoteOverlap

Zero(c) ==
    /\ pc[c] = "zero"
    /\ cacheSize' = 0
    /\ pc' = [pc EXCEPT ![c] = "restore"]
    /\ UNCHANGED <<snap, decision, sweep, config, update, clean, entries>>
    /\ NoteOverlap

\* The current item is stored again, and counted.
Restore(c) ==
    /\ pc[c] = "restore"
    /\ Put(c)
    /\ pc' = [pc EXCEPT ![c] = "recount"]
    /\ UNCHANGED <<snap, decision, sweep, config, update, clean, cacheSize>>
    /\ NoteOverlap

Recount(c) ==
    /\ pc[c] = "recount"
    /\ cacheSize' = cacheSize + 1
    /\ pc' = [pc EXCEPT ![c] = "done"]
    /\ UNCHANGED <<snap, decision, sweep, config, update, clean, entries>>
    /\ NoteOverlap

-----------------------------------------------------------------------------
(* UpdateConfig, which holds mu.                                           *)

\* Mutant: the cache is not cleared.
UpdateKeepsCache ==
    /\ updater = "idle"
    /\ version < MaxUpdates
    /\ version' = version + 1
    /\ isPACMode' \in BOOLEAN
    /\ updater' = "session"
    /\ UNCHANGED <<toClear, session, clean, call, entries, cacheSize>>
    /\ NoteOverlap

\* The settings are replaced, with what the operating system is asked for if
\* there are none.
UpdateConfig ==
    /\ updater = "idle"
    /\ version < MaxUpdates
    /\ version' = version + 1
    /\ isPACMode' \in BOOLEAN
    /\ updater' = "clear"
    /\ toClear' = Urls
    /\ UNCHANGED <<session, clean, call, entries, cacheSize>>
    /\ NoteOverlap

\* Range deletes the keys one by one.
Clear(u) ==
    /\ updater = "clear"
    /\ u \in toClear
    /\ cache' = [cache EXCEPT ![u] = None]
    /\ expired' = expired \ {u}
    /\ toClear' = toClear \ {u}
    /\ updater' = IF toClear = {u} THEN "zero" ELSE "clear"
    /\ UNCHANGED <<late, config, clean, call, cacheSize>>
    /\ NoteOverlap

ResetSize ==
    /\ updater = "zero"
    /\ cacheSize' = 0
    /\ updater' = "session"
    /\ UNCHANGED <<toClear, config, clean, call, entries>>
    /\ NoteOverlap

\* A session is created, which may fail, or closed.  mu is released.
UpdateSession ==
    /\ updater = "session"
    /\ \/ ~isPACMode /\ session' = FALSE
       \/ isPACMode /\ session' \in {session, TRUE}
    /\ updater' = "idle"
    /\ UNCHANGED <<toClear, version, isPACMode, clean, call, entries, cacheSize>>
    /\ NoteOverlap

-----------------------------------------------------------------------------
(* Time, the cleanup and Close.                                            *)

\* The clock passes expiresAt.
Expire(u) ==
    /\ cache[u] # None
    /\ u \notin expired
    /\ expired' = expired \cup {u}
    /\ UNCHANGED <<cache, late, config, update, clean, call, cacheSize>>
    /\ NoteOverlap

\* Mutant: the comparison with the clock is the wrong way round.
FindFresh(u) ==
    /\ cleaning = "idle"
    /\ u \in Cached \ expired
    /\ cleaner' = u
    /\ cleaning' = "delete"
    /\ UNCHANGED <<stopped, config, update, call, entries, cacheSize>>
    /\ NoteOverlap

\* cacheCleanupLoop's Range has found an expired entry; a sweep goes on when
\* the resolver is closed meanwhile.
CleanupFind(u) ==
    /\ cleaning = "idle"
    /\ u \in expired
    /\ cleaner' = u
    /\ cleaning' = "delete"
    /\ UNCHANGED <<stopped, config, update, call, entries, cacheSize>>
    /\ NoteOverlap

\* It deletes what is there now, and counts it as one.
CleanupDelete ==
    /\ cleaning = "delete"
    /\ cache' = [cache EXCEPT ![cleaner] = None]
    /\ expired' = expired \ {cleaner}
    /\ cleaning' = "count"
    /\ UNCHANGED <<late, cleaner, stopped, config, update, call, cacheSize>>
    /\ NoteOverlap

CleanupCount ==
    /\ cleaning = "count"
    /\ cacheSize' = cacheSize - 1
    /\ cleaning' = "idle"
    /\ cleaner' = None
    /\ UNCHANGED <<stopped, config, update, call, entries>>
    /\ NoteOverlap

Close ==
    /\ updater = "idle"
    /\ ~stopped
    /\ stopped' = TRUE
    /\ session' = FALSE
    /\ UNCHANGED <<version, isPACMode, update, cleaner, cleaning, call, entries, cacheSize>>
    /\ NoteOverlap

-----------------------------------------------------------------------------

Step(c) ==
    \/ Resolve(c) \/ Load(c) \/ Evaluate(c) \/ LoadOrStore(c) \/ Overwrite(c) \/ Count(c)
    \/ \E u \in Urls : Sweep(c, u)
    \/ Zero(c) \/ Restore(c) \/ Recount(c)

Cleanup == (\E u \in Urls : CleanupFind(u)) \/ CleanupDelete \/ CleanupCount

Update == (\E u \in Urls : Clear(u)) \/ ResetSize \/ UpdateSession

Next ==
    \/ \E c \in Calls : Step(c)
    \/ UpdateConfig
    \/ Update
    \/ \E u \in Urls : Expire(u)
    \/ Cleanup
    \/ Close

Spec == Init /\ [][Next]_vars

\* Goroutines that are ready are scheduled, the clock goes on and the cleanup
\* runs every five minutes.
FairSpec ==
    /\ Spec
    /\ WF_vars(Update)
    /\ WF_vars(Cleanup)
    /\ \A u \in Urls : WF_vars(Expire(u))

-----------------------------------------------------------------------------
(* Properties.                                                             *)

TypeOK ==
    /\ version \in Versions
    /\ isPACMode \in BOOLEAN /\ session \in BOOLEAN /\ stopped \in BOOLEAN
    /\ overlap \in BOOLEAN
    /\ cache \in [Urls -> Versions \cup {None}]
    /\ expired \subseteq Urls
    /\ cacheSize \in Int
    /\ updater \in {"idle", "clear", "zero", "session"}
    /\ toClear \subseteq Urls
    /\ (updater = "clear") = (toClear # {})
    /\ cleaner \in Urls \cup {None}
    /\ cleaning \in {"idle", "delete", "count"}
    /\ pc \in [Calls -> PC]
    /\ snap \in [Calls -> Versions]
    /\ decision \in [Calls -> Versions \cup {None}]
    /\ sweep \in [Calls -> SUBSET Urls]
    /\ late \subseteq Versions

\* A call that began after UpdateConfig had returned gets a decision of an
\* older configuration only if a call that had read the older one stored it
\* after it was replaced: an evaluation overlapped the reload.
StaleNeedsOverlap ==
    \A c \in Calls :
        pc[c] = "done" /\ decision[c] < snap[c] => decision[c] \in late

\* When nobody is changing the cache, the size storeCache compares with the
\* maximum is the number of entries, unless two goroutines have changed the
\* cache at the same time before.
DriftNeedsOverlap ==
    Busy = 0 /\ ~overlap => cacheSize = Cardinality(Cached)

\* A decision of an older configuration does not stay in the cache: it
\* expires, and the cleanup removes it, unless the resolver has been closed.
StaleEntriesGo ==
    \A u \in Urls :
        (cache[u] # None /\ cache[u] # version)
            ~> (cache[u] = None \/ cache[u] = version \/ stopped)

=============================================================================
