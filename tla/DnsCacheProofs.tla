--------------------------- MODULE DnsCacheProofs ---------------------------
(***************************************************************************)
(* Proofs about the DNS answer cache, for any number of queries, keys,     *)
(* ticks and reloads: the types, when the counter is right, what a Purge   *)
(* and a sweep leave behind, and how long an answer is kept.               *)
(***************************************************************************)
EXTENDS DnsCache, FiniteSetTheorems, TLAPS

-----------------------------------------------------------------------------
(* Types.                                                                  *)

\* A goroutine that is neither idle nor choosing its next key has a key.
Keyed(r) == r.pc \notin {"idle", "sweep"} => r.key \in Keys

\* What the assumptions on the constants give each of them.
LEMMA ConstantTypes ==
    /\ Capacity \in Nat /\ RecordCap \in Nat /\ TopTTL \in Nat
    /\ MaxClock \in Nat /\ MaxCalls \in Nat /\ MaxReloads \in Nat
    /\ MinTTL \in Nat /\ MinTTL > 0 /\ DefaultTTL \in Nat /\ DefaultTTL > 0
    /\ TTLChoices \subseteq Int /\ TTLsOf \in [Keys -> SUBSET Nat]
    /\ Cleaner \in Procs /\ Callers \subseteq Procs
    /\ IsFiniteSet(Keys) /\ IsFiniteSet(Procs)
PROOF
  <1>1. IsFiniteSet(Procs)
    BY CacheAssumption, FS_AddElement DEF Procs
  <1> QED
    BY <1>1, CacheAssumption DEF Procs

\* At rest a goroutine has nothing in hand.
LEMMA RestType == Rest \in Worker /\ Keyed(Rest) /\ Rest.pc = "idle" /\ Rest.now = 0
BY DEF Rest, Worker, Keyed, Entry

\* A step of one goroutine leaves the others where they are.
LEMMA PutType ==
    ASSUME TypeOK, NEW p \in Procs, NEW r \in Worker, Keyed(r), Put(p, r)
    PROVE  /\ w' \in [Procs -> Worker]
           /\ \A q \in Procs : w'[q].pc \notin {"idle", "sweep"} => w'[q].key \in Keys
           /\ w'[p] = r /\ \A q \in Procs \ {p} : w'[q] = w[q]
BY DEF TypeOK, Put, Keyed

\* The shortest time to live of an answer is a natural number, not above the
\* least that its records name.
LEMMA ExtractType ==
    ASSUME NEW k \in Keys, NEW default \in Nat
    PROVE  /\ ExtractMinTTL(TTLsOf[k], default) \in Nat
           /\ \A t \in LeastTTL(TTLsOf[k]) : ExtractMinTTL(TTLsOf[k], default) <= t
           /\ LeastTTL(TTLsOf[k]) \subseteq Nat
PROOF
  <1> DEFINE L == LeastTTL(TTLsOf[k])
  <1>1. L \subseteq Nat /\ \A t, u \in L : t = u
    BY ConstantTypes DEF LeastTTL, Usable
  <1>2. CASE L = {}
    BY <1>2 DEF ExtractMinTTL
  <1>3. CASE L # {}
    <2>1. (CHOOSE t \in L : TRUE) \in L
      BY <1>3
    <2> QED
      BY <1>1, <1>3, <2>1, ConstantTypes DEF ExtractMinTTL
  <1> QED
    BY <1>1, <1>2, <1>3

\* The records the actions put for a goroutine are of the right kind, with
\* the program counter one expects.
LEMMA WorkerTypes ==
    ASSUME TypeOK, NEW p \in Procs
    PROVE  /\ Resume(p) \in Worker /\ Keyed(Resume(p))
           /\ Resume(p).pc \in {"idle", "sweep"}
           /\ evictExpired \in Worker /\ Keyed(evictExpired)
           /\ evictExpired.pc \in {"idle", "sweep"}
PROOF
  <1>1. w[p] \in Worker
    BY DEF TypeOK
  <1>2. /\ [w[p] EXCEPT !.pc = "sweep"] \in Worker
        /\ [w[p] EXCEPT !.pc = "sweep"].pc = "sweep"
    BY <1>1 DEF Worker
  <1>3. Expired \in SUBSET Keys
    BY DEF Expired, Present
  <1>4. [Rest EXCEPT !.pc = "sweep", !.left = Expired, !.now = clock] \in Worker
    BY <1>3, RestType DEF Rest, Worker, TypeOK
  <1>5. [Rest EXCEPT !.pc = "sweep", !.left = Expired, !.now = clock].pc = "sweep"
    BY DEF Rest
  <1> QED
    BY <1>2, <1>4, <1>5, RestType DEF Resume, evictExpired, Keyed

\* What the steps that only move one goroutine put in its place.
Moved(p, r) ==
    /\ Put(p, r) /\ r \in Worker /\ Keyed(r)
    /\ w[p].pc \notin {"add", "sub"} /\ r.pc \notin {"add", "sub"}

\* Loads, comparisons and the beginning and the visits of a sweep change
\* neither the map nor the counter.
LEMMA Moves ==
    ASSUME TypeOK, NEW p \in Procs,
           \/ GetCheck(p) \/ SetCompare(p) \/ SetClamp(p)
           \/ \E k \in Keys : Look(p, k) \/ (p \in Callers /\ (GetLoad(p, k) \/ SetBegin(p, k)))
           \/ p = Cleaner /\ CleanBegin
    PROVE  /\ \E r : Moved(p, r)
           /\ KeepTable /\ Keep /\ calls' \in Nat
PROOF
  <1>0. w[p] \in Worker /\ Keyed(w[p]) /\ calls \in Nat /\ maxTTL \in Nat /\ clock \in Nat
    BY DEF TypeOK, Keyed
  <1>1. CASE GetCheck(p)
    <2> DEFINE r == IF clock > w[p].seen.exp THEN [Rest EXCEPT !.pc = "del", !.key = w[p].key]
                    ELSE Rest
    <2>1. w[p].key \in Keys
      BY <1>0, <1>1 DEF GetCheck, At, Keyed
    <2>2. r \in Worker /\ Keyed(r) /\ r.pc \in {"del", "idle"}
      BY <2>1, RestType DEF Worker, Rest, Keyed
    <2> QED
      BY <1>0, <1>1, <2>2 DEF GetCheck, Moved, At, KeepRest
  <1>2. CASE SetCompare(p)
    <2> DEFINE r == IF w[p].ttl > maxTTL THEN [w[p] EXCEPT !.pc = "clamp"]
                    ELSE [w[p] EXCEPT !.pc = "swap", !.ttl = AtLeastMin(@)]
    <2>1. w[p].key \in Keys
      BY <1>0, <1>2 DEF SetCompare, At, Keyed
    <2>2. AtLeastMin(w[p].ttl) \in Nat
      BY <1>0, ConstantTypes DEF AtLeastMin, Worker
    <2>3. r \in Worker /\ Keyed(r) /\ r.pc \in {"clamp", "swap"}
      BY <1>0, <2>1, <2>2 DEF Worker, Keyed
    <2> QED
      BY <1>0, <1>2, <2>3 DEF SetCompare, Moved, At, KeepRest
  <1>3. CASE SetClamp(p)
    <2> DEFINE r == [w[p] EXCEPT !.pc = "swap", !.ttl = AtLeastMin(maxTTL)]
    <2>1. w[p].key \in Keys
      BY <1>0, <1>3 DEF SetClamp, At, Keyed
    <2>2. AtLeastMin(maxTTL) \in Nat
      BY <1>0, ConstantTypes DEF AtLeastMin
    <2>3. r \in Worker /\ Keyed(r) /\ r.pc = "swap"
      BY <1>0, <2>1, <2>2 DEF Worker, Keyed
    <2> QED
      BY <1>0, <1>3, <2>3 DEF SetClamp, Moved, At, KeepRest
  <1>4. ASSUME NEW k \in Keys, Look(p, k)
        PROVE  (\E r : Moved(p, r)) /\ KeepTable /\ Keep /\ calls' \in Nat
    <2> DEFINE s == [w[p] EXCEPT !.key = k, !.left = @ \ {k}]
               r == IF Old(p, k) THEN [s EXCEPT !.pc = "del"]
                    ELSE IF s.left = {} THEN Rest ELSE s
    <2>1. s \in Worker /\ s.key = k /\ s.pc = w[p].pc
      BY <1>0 DEF Worker
    <2>2. [s EXCEPT !.pc = "del"] \in Worker /\ [s EXCEPT !.pc = "del"].key = k
          /\ [s EXCEPT !.pc = "del"].pc = "del"
      BY <2>1 DEF Worker
    <2>3. r \in Worker /\ Keyed(r) /\ r.pc \in {"del", "idle", "sweep"}
      BY <1>4, <2>1, <2>2, RestType DEF Look, At, Keyed
    <2> QED
      BY <1>0, <1>4, <2>3 DEF Look, Moved, At, KeepRest
  <1>5. ASSUME NEW k \in Keys, GetLoad(p, k)
        PROVE  (\E r : Moved(p, r)) /\ KeepTable /\ Keep /\ calls' \in Nat
    <2> DEFINE r == [Rest EXCEPT !.pc = "got", !.key = k, !.seen = entries[k]]
    <2>1. r \in Worker /\ Keyed(r) /\ r.pc = "got"
      BY RestType DEF Worker, Rest, Keyed, TypeOK
    <2>3. Moved(p, r)
      BY <1>5, <2>1 DEF GetLoad, Moved, At
    <2>4. Call /\ KeepTable /\ Keep
      BY <1>5 DEF GetLoad
    <2>5. calls' \in Nat
      BY <1>0, <2>4 DEF Call
    <2> QED
      BY <2>3, <2>4, <2>5
  <1>6. ASSUME NEW k \in Keys, SetBegin(p, k)
        PROVE  (\E r : Moved(p, r)) /\ KeepTable /\ Keep /\ calls' \in Nat
    <2> DEFINE r == [Rest EXCEPT !.pc = "extracted", !.key = k,
                                 !.ttl = ExtractMinTTL(TTLsOf[k], maxTTL),
                                 !.maxima = {maxTTL}]
    <2>1. ExtractMinTTL(TTLsOf[k], maxTTL) \in Nat /\ {maxTTL} \subseteq Nat
      BY <1>0, ExtractType
    <2>2. r \in Worker /\ Keyed(r) /\ r.pc = "extracted"
      BY <2>1, RestType DEF Worker, Rest, Keyed
    <2>3. Moved(p, r)
      BY <1>6, <2>2 DEF SetBegin, Moved, At
    <2>4. Call /\ KeepTable /\ Keep
      BY <1>6 DEF SetBegin
    <2>5. calls' \in Nat
      BY <1>0, <2>4 DEF Call
    <2> QED
      BY <2>3, <2>4, <2>5
  <1>7. CASE p = Cleaner /\ CleanBegin
    BY <1>0, <1>7, WorkerTypes DEF CleanBegin, Moved, At, KeepRest
  <1> QED
    BY <1>1, <1>2, <1>3, <1>4, <1>5, <1>6, <1>7

\* A goroutine that moves keeps the types.
LEMMA MovedType ==
    ASSUME TypeOK, NEW p \in Procs, NEW r, Moved(p, r),
           entries' \in [Keys -> Entry \cup {None}], count' \in Int,
           overlap' \in BOOLEAN, Keep, calls' \in Nat
    PROVE  TypeOK'
PROOF
  <1>1. /\ w' \in [Procs -> Worker]
        /\ \A q \in Procs : w'[q].pc \notin {"idle", "sweep"} => w'[q].key \in Keys
    BY PutType DEF Moved
  <1> QED
    BY <1>1 DEF TypeOK, Keep

\* The steps that change the map or the counter, with where they lead.
LEMMA DeleteEffect ==
    ASSUME TypeOK, NEW p \in Procs, Delete(p)
    PROVE  \E r \in Worker :
              /\ Put(p, r) /\ Keyed(r)
              /\ r.pc \in (IF entries[w[p].key] # None THEN {"sub"} ELSE {"idle", "sweep"})
              /\ w[p].key \in Keys
PROOF
  <1>1. w[p] \in Worker /\ w[p].key \in Keys
    BY DEF TypeOK, Delete, At
  <1>2. [w[p] EXCEPT !.pc = "sub"] \in Worker /\ Keyed([w[p] EXCEPT !.pc = "sub"])
        /\ [w[p] EXCEPT !.pc = "sub"].pc = "sub"
    BY <1>1 DEF Worker, Keyed
  <1>3. CASE entries[w[p].key] # None
    <2> DEFINE r == [w[p] EXCEPT !.pc = "sub"]
    <2>1. Put(p, r) /\ r \in Worker /\ Keyed(r) /\ r.pc \in {"sub"}
      BY <1>2, <1>3 DEF Delete
    <2> HIDE DEF r
    <2> QED
      BY <1>1, <1>3, <2>1
  <1>4. CASE entries[w[p].key] = None
    BY <1>1, <1>4, WorkerTypes DEF Delete
  <1> QED
    BY <1>3, <1>4

\* Set stores a fresh entry, and goes on to count it if the key is new.
LEMMA SwapEffect ==
    ASSUME TypeOK, NEW p \in Procs, SetSwap(p)
    PROVE  /\ w[p].key \in Keys
           /\ [exp |-> Horizon(clock + w[p].ttl), era |-> era] \in Entry
           /\ \E r \in Worker :
                 /\ Put(p, r) /\ Keyed(r)
                 /\ r.pc = (IF entries[w[p].key] = None THEN "add" ELSE "idle")
                 /\ r.now = 0
PROOF
  <1>1. w[p] \in Worker /\ w[p].key \in Keys /\ clock \in Nat /\ era \in Nat
    BY DEF TypeOK, SetSwap, At
  <1>2. Horizon(clock + w[p].ttl) \in Nat
    BY <1>1, ConstantTypes DEF Horizon, Worker
  <1>3. [Rest EXCEPT !.pc = "add", !.key = w[p].key] \in Worker
        /\ Keyed([Rest EXCEPT !.pc = "add", !.key = w[p].key])
        /\ [Rest EXCEPT !.pc = "add", !.key = w[p].key].pc = "add"
        /\ [Rest EXCEPT !.pc = "add", !.key = w[p].key].now = 0
    BY <1>1, RestType DEF Worker, Rest, Keyed
  <1>4. CASE entries[w[p].key] = None
    BY <1>1, <1>2, <1>3, <1>4 DEF SetSwap, Entry
  <1>5. CASE entries[w[p].key] # None
    BY <1>1, <1>2, <1>5, RestType DEF SetSwap, Entry
  <1> QED
    BY <1>4, <1>5

\* After the counter has changed a goroutine sweeps or is at rest.
LEMMA CounterEffect ==
    ASSUME TypeOK, NEW p \in Procs, Decrement(p) \/ Increment(p)
    PROVE  \E r \in Worker : Put(p, r) /\ Keyed(r) /\ r.pc \in {"idle", "sweep"}
BY WorkerTypes, RestType DEF Decrement, Increment

\* Where the adders and takers are after a step of one goroutine.
LEMMA Crowds ==
    ASSUME TypeOK, NEW p \in Procs, NEW r \in Worker, Put(p, r)
    PROVE  /\ Adders' = IF r.pc = "add" THEN Adders \cup {p} ELSE Adders \ {p}
           /\ Takers' = IF r.pc = "sub" THEN Takers \cup {p} ELSE Takers \ {p}
BY DEF TypeOK, Put, Adders, Takers, At

\* The types of the rest of the state after a step that changes the map or
\* the counter.
LEMMA TypeStep ==
    ASSUME TypeOK, [Next]_vars
    PROVE  TypeOK'
PROOF
  <1>1. ASSUME NEW p \in Procs, NEW r \in Worker, Keyed(r), Put(p, r),
               entries' \in [Keys -> Entry \cup {None}], count' \in Int,
               overlap' \in BOOLEAN, KeepRest
        PROVE  TypeOK'
    <2>1. /\ w' \in [Procs -> Worker]
          /\ \A q \in Procs : w'[q].pc \notin {"idle", "sweep"} => w'[q].key \in Keys
      BY <1>1, PutType
    <2> QED
      BY <1>1, <2>1 DEF TypeOK, KeepRest, Keep
  <1>2. ASSUME NEW p \in Procs,
               \/ GetCheck(p) \/ SetCompare(p) \/ SetClamp(p)
               \/ \E k \in Keys : Look(p, k) \/ (p \in Callers /\ (GetLoad(p, k) \/ SetBegin(p, k)))
               \/ p = Cleaner /\ CleanBegin
        PROVE  TypeOK'
    <2>1. PICK r : Moved(p, r)
      BY <1>2, Moves
    <2>2. KeepTable /\ Keep /\ calls' \in Nat
      BY <1>2, Moves
    <2>3. /\ entries' \in [Keys -> Entry \cup {None}] /\ count' \in Int
          /\ overlap' \in BOOLEAN
      BY <2>2 DEF TypeOK, KeepTable
    <2> QED
      BY <2>1, <2>2, <2>3, MovedType
  <1>3. ASSUME NEW p \in Procs, Delete(p) PROVE TypeOK'
    <2>1. PICK r \in Worker : Put(p, r) /\ Keyed(r) /\ w[p].key \in Keys
      BY <1>3, DeleteEffect
    <2>2. /\ entries' \in [Keys -> Entry \cup {None}] /\ count' \in Int
          /\ overlap' \in BOOLEAN /\ KeepRest
      BY <1>3, <2>1 DEF Delete, TypeOK
    <2> QED
      BY <1>1, <2>1, <2>2
  <1>4. ASSUME NEW p \in Procs, SetSwap(p) PROVE TypeOK'
    <2>1. PICK r \in Worker : Put(p, r) /\ Keyed(r)
      BY <1>4, SwapEffect
    <2>2. /\ w[p].key \in Keys
          /\ [exp |-> Horizon(clock + w[p].ttl), era |-> era] \in Entry
      BY <1>4, SwapEffect
    <2>3. /\ entries' \in [Keys -> Entry \cup {None}] /\ count' \in Int
          /\ overlap' \in BOOLEAN /\ KeepRest
      BY <1>4, <2>2 DEF SetSwap, TypeOK
    <2> QED
      BY <1>1, <2>1, <2>3
  <1>5. ASSUME NEW p \in Procs, Decrement(p) \/ Increment(p) PROVE TypeOK'
    <2>1. PICK r \in Worker : Put(p, r) /\ Keyed(r)
      BY <1>5, CounterEffect
    <2>2. /\ entries' \in [Keys -> Entry \cup {None}] /\ count' \in Int
          /\ overlap' \in BOOLEAN /\ KeepRest
      BY <1>5 DEF Decrement, Increment, TypeOK
    <2> QED
      BY <1>1, <2>1, <2>2
  <1>6. CASE PurgeBegin \/ PurgeEnd \/ (\E k \in Keys : PurgeVisit(k))
    <2>1. CASE PurgeBegin
      <3>1. reloads' \in Nat /\ era' \in Nat
        BY <2>1 DEF PurgeBegin, TypeOK
      <3>2. overlap' \in BOOLEAN
        BY <2>1 DEF PurgeBegin
      <3> QED
        BY <2>1, <3>1, <3>2 DEF PurgeBegin, TypeOK
    <2>2. CASE PurgeEnd
      <3>1. count' = 0 /\ purging' \in BOOLEAN
        BY <2>2, Zenon DEF PurgeEnd
      <3>2. count' \in Int
        BY <3>1
      <3> QED
        BY <2>2, <3>1, <3>2, Zenon DEF PurgeEnd, TypeOK
    <2>3. ASSUME NEW k \in Keys, PurgeVisit(k) PROVE TypeOK'
      BY <2>3 DEF PurgeVisit, TypeOK
    <2> QED
      BY <1>6, <2>1, <2>2, <2>3
  <1>7. ASSUME NEW t \in TTLChoices, SetMaxTTL(t) PROVE TypeOK'
    <2>1. Maximum(t) \in Nat \ {0} /\ reloads + 1 \in Nat
      BY ConstantTypes DEF Maximum, TypeOK
    <2>2. \A p \in Procs :
            /\ [w[p] EXCEPT !.maxima = @ \cup {Maximum(t)}] \in Worker
            /\ [w[p] EXCEPT !.maxima = @ \cup {Maximum(t)}].pc = w[p].pc
            /\ [w[p] EXCEPT !.maxima = @ \cup {Maximum(t)}].key = w[p].key
      BY <2>1 DEF TypeOK, Worker
    <2>3. /\ w' \in [Procs -> Worker]
          /\ \A q \in Procs : w'[q].pc \notin {"idle", "sweep"} => w'[q].key \in Keys
      BY <1>7, <2>2 DEF SetMaxTTL, TypeOK
    <2> QED
      BY <1>7, <2>1, <2>3 DEF SetMaxTTL, TypeOK
  <1>8. CASE Tick \/ UNCHANGED vars
    BY <1>8 DEF Tick, vars, TypeOK
  <1> QED
    BY <1>2, <1>3, <1>4, <1>5, <1>6, <1>7, <1>8, ConstantTypes DEF Next, Step

\* The cache's variables always have their types.
THEOREM CacheTypeCorrect == Spec => []TypeOK
PROOF
  <1>1. Init => TypeOK
    <2> SUFFICES ASSUME Init PROVE TypeOK
      OBVIOUS
    <2>1. maxTTL \in Nat \ {0}
      BY ConstantTypes DEF Init, Maximum
    <2>2. count \in Int /\ clock \in Nat /\ calls \in Nat /\ reloads \in Nat /\ era \in Nat
      BY DEF Init
    <2>3. \A p \in Procs : w[p] \in Worker /\ w[p].pc = "idle"
      BY RestType DEF Init
    <2>4. w \in [Procs -> Worker]
      BY RestType DEF Init
    <2>5. entries \in [Keys -> Entry \cup {None}]
      BY DEF Init
    <2>6. purging \in BOOLEAN /\ purge \in SUBSET Keys /\ overlap \in BOOLEAN
      BY DEF Init
    <2> QED
      BY <2>1, <2>2, <2>3, <2>4, <2>5, <2>6 DEF TypeOK
  <1>2. TypeOK /\ [Next]_vars => TypeOK'
    BY TypeStep
  <1> QED
    BY <1>1, <1>2, PTL DEF Spec

-----------------------------------------------------------------------------
(* The counter.                                                            *)

\* As long as no Purge has overlapped a change, the counter is the number of
\* entries but for the additions and subtractions that are still to come; and
\* while a Purge runs nobody has one to make, and every entry is still to be
\* visited, so that its Store(0) is right.
CountInv ==
    \/ overlap
    \/ /\ purging /\ Adders = {} /\ Takers = {} /\ Present \subseteq purge
    \/ /\ ~purging
       /\ count + Cardinality(Adders) - Cardinality(Takers) = Cardinality(Present)

\* The sets that are counted are finite.
LEMMA Finite ==
    /\ IsFiniteSet(Adders) /\ IsFiniteSet(Takers) /\ IsFiniteSet(Present)
    /\ Cardinality(Adders) \in Nat /\ Cardinality(Takers) \in Nat
    /\ Cardinality(Present) \in Nat
PROOF
  <1>1. IsFiniteSet(Adders) /\ IsFiniteSet(Takers)
    BY ConstantTypes, FS_Subset DEF Adders, Takers
  <1>2. IsFiniteSet(Present)
    BY ConstantTypes, FS_Subset DEF Present
  <1> QED
    BY <1>1, <1>2, FS_CardinalityType

\* A step that moves no goroutine to or from a counter update, and leaves the
\* map and the Purge alone, keeps the counter right.
LEMMA CountKept ==
    ASSUME CountInv, Adders' = Adders, Takers' = Takers, Present' = Present,
           count' = count, purging' = purging, purge' = purge, overlap' = overlap
    PROVE  CountInv'
BY DEF CountInv

\* Every step keeps the counter right.
LEMMA CountStep ==
    ASSUME TypeOK, CountInv, [Next]_vars
    PROVE  CountInv'
PROOF
  <1>0. count \in Int
    BY DEF TypeOK
  <1>1. ASSUME NEW p \in Procs, NEW r, Moved(p, r), KeepTable, Keep
        PROVE  CountInv'
    <2>1. Adders' = Adders \ {p} /\ Takers' = Takers \ {p}
      BY <1>1, Crowds DEF Moved
    <2>2. p \notin Adders /\ p \notin Takers
      BY <1>1 DEF Moved, Adders, Takers, At
    <2>3. Present' = Present
      BY <1>1 DEF KeepTable, Present
    <2> QED
      BY <1>1, <2>1, <2>2, <2>3, CountKept DEF KeepTable, Keep
  <1>2. ASSUME NEW p \in Procs, Delete(p) PROVE CountInv'
    <2>1. PICK r \in Worker :
            /\ Put(p, r)
            /\ r.pc \in (IF entries[w[p].key] # None THEN {"sub"} ELSE {"idle", "sweep"})
            /\ w[p].key \in Keys
      BY <1>2, DeleteEffect
    <2>2. /\ p \notin Adders /\ p \notin Takers
          /\ Adders' = Adders
          /\ Takers' = IF entries[w[p].key] # None THEN Takers \cup {p} ELSE Takers
      BY <1>2, <2>1, Crowds DEF Delete, Adders, Takers, At
    <2>3. Present' = Present \ {w[p].key}
      BY <1>2, <2>1 DEF Delete, Present, TypeOK
    <2>4. purging' = purging /\ purge' = purge /\ count' = count
      BY <1>2 DEF Delete, KeepRest, Keep
    <2>5. CASE entries[w[p].key] = None
      <3>1. Present' = Present /\ Takers' = Takers
        BY <2>2, <2>3, <2>5 DEF Present
      <3>2. overlap' = overlap
        BY <1>2, <2>5 DEF Delete, TypeOK
      <3> QED
        BY <2>2, <2>4, <3>1, <3>2, CountKept
    <2>6. CASE entries[w[p].key] # None
      <3>1. overlap' = (overlap \/ purging)
        BY <1>2, <2>6 DEF Delete
      <3>2. /\ Cardinality(Present') = Cardinality(Present) - 1
            /\ Cardinality(Takers') = Cardinality(Takers) + 1
            /\ Cardinality(Adders') = Cardinality(Adders)
        <4>1. w[p].key \in Present
          BY <2>1, <2>6 DEF Present
        <4>2. Cardinality(Present') = Cardinality(Present) - 1
          BY <2>3, <4>1, Finite, FS_RemoveElement
        <4>3. Cardinality(Takers') = Cardinality(Takers) + 1
          BY <2>2, <2>6, Finite, FS_AddElement
        <4> QED
          BY <2>2, <4>2, <4>3
      <3>3. CASE overlap \/ purging
        BY <3>1, <3>3 DEF CountInv
      <3>4. CASE ~overlap /\ ~purging
        <4>1. count + Cardinality(Adders) - Cardinality(Takers) = Cardinality(Present)
          BY <3>4 DEF CountInv
        <4>2. count' + Cardinality(Adders') - Cardinality(Takers') = Cardinality(Present')
          BY <1>0, <2>4, <3>2, <4>1, Finite
        <4> QED
          BY <2>4, <3>4, <4>2 DEF CountInv
      <3> QED
        BY <3>3, <3>4
    <2> QED
      BY <2>5, <2>6
  <1>3. ASSUME NEW p \in Procs, SetSwap(p) PROVE CountInv'
    <2>1. PICK r \in Worker :
            /\ Put(p, r)
            /\ r.pc = (IF entries[w[p].key] = None THEN "add" ELSE "idle")
      BY <1>3, SwapEffect
    <2>2. /\ w[p].key \in Keys
          /\ [exp |-> Horizon(clock + w[p].ttl), era |-> era] \in Entry
      BY <1>3, SwapEffect
    <2>3. /\ p \notin Adders /\ p \notin Takers
          /\ Takers' = Takers
          /\ Adders' = IF entries[w[p].key] = None THEN Adders \cup {p} ELSE Adders
      BY <1>3, <2>1, Crowds DEF SetSwap, Adders, Takers, At
    <2>4. Present' = Present \cup {w[p].key}
      <3>1. [exp |-> Horizon(clock + w[p].ttl), era |-> era] # None
        BY <2>2 DEF Entry, None
      <3> QED
        BY <1>3, <2>2, <3>1 DEF SetSwap, Present, TypeOK
    <2>5. purging' = purging /\ purge' = purge /\ count' = count
      BY <1>3 DEF SetSwap, KeepRest, Keep
    <2>6. CASE entries[w[p].key] # None
      <3>1. Present' = Present /\ Adders' = Adders
        BY <2>2, <2>3, <2>4, <2>6 DEF Present
      <3>2. overlap' = overlap
        BY <1>3, <2>6 DEF SetSwap, TypeOK
      <3> QED
        BY <2>3, <2>5, <3>1, <3>2, CountKept
    <2>7. CASE entries[w[p].key] = None
      <3>1. overlap' = (overlap \/ purging)
        BY <1>3, <2>7 DEF SetSwap
      <3>2. /\ Cardinality(Present') = Cardinality(Present) + 1
            /\ Cardinality(Adders') = Cardinality(Adders) + 1
            /\ Cardinality(Takers') = Cardinality(Takers)
        BY <2>1, <2>3, <2>4, <2>7, Finite, FS_AddElement DEF Present
      <3>3. CASE overlap \/ purging
        BY <3>1, <3>3 DEF CountInv
      <3>4. CASE ~overlap /\ ~purging
        <4>1. count + Cardinality(Adders) - Cardinality(Takers) = Cardinality(Present)
          BY <3>4 DEF CountInv
        <4>2. count' + Cardinality(Adders') - Cardinality(Takers') = Cardinality(Present')
          BY <1>0, <2>5, <3>2, <4>1, Finite
        <4> QED
          BY <2>5, <3>4, <4>2 DEF CountInv
      <3> QED
        BY <3>3, <3>4
    <2> QED
      BY <2>6, <2>7
  <1>4. ASSUME NEW p \in Procs, Decrement(p) \/ Increment(p) PROVE CountInv'
    <2>1. PICK r \in Worker : Put(p, r) /\ r.pc \in {"idle", "sweep"}
      BY <1>4, CounterEffect
    <2>2. Adders' = Adders \ {p} /\ Takers' = Takers \ {p}
      BY <2>1, Crowds
    <2>3. /\ purging' = purging /\ overlap' = (overlap \/ purging)
          /\ Present' = Present
      BY <1>4 DEF Decrement, Increment, KeepRest, Keep, Present
    <2>4. CASE overlap \/ purging
      BY <2>3, <2>4 DEF CountInv
    <2>5. CASE ~overlap /\ ~purging
      <3>1. count + Cardinality(Adders) - Cardinality(Takers) = Cardinality(Present)
        BY <2>5 DEF CountInv
      <3>2. CASE Decrement(p)
        <4>1. /\ Cardinality(Adders') = Cardinality(Adders)
              /\ Cardinality(Takers') = Cardinality(Takers) - 1
          <5>1. p \notin Adders /\ p \in Takers
            BY <3>2 DEF Decrement, Adders, Takers, At
          <5> QED
            BY <2>2, <5>1, Finite, FS_RemoveElement
        <4>2. count' = count - 1
          BY <3>2 DEF Decrement
        <4> QED
          BY <1>0, <2>3, <2>5, <3>1, <4>1, <4>2, Finite DEF CountInv
      <3>3. CASE Increment(p)
        <4>1. /\ Cardinality(Adders') = Cardinality(Adders) - 1
              /\ Cardinality(Takers') = Cardinality(Takers)
          <5>1. p \in Adders /\ p \notin Takers
            BY <3>3 DEF Increment, Adders, Takers, At
          <5> QED
            BY <2>2, <5>1, Finite, FS_RemoveElement
        <4>2. count' = count + 1
          BY <3>3 DEF Increment
        <4> QED
          BY <1>0, <2>3, <2>5, <3>1, <4>1, <4>2, Finite DEF CountInv
      <3> QED
        BY <1>4, <3>2, <3>3
    <2> QED
      BY <2>4, <2>5
  <1>5. CASE PurgeBegin
    <2>1. /\ Adders' = Adders /\ Takers' = Takers /\ Present' = Present
          /\ purging' = TRUE /\ purge' = Keys
          /\ overlap' = (overlap \/ Adders # {} \/ Takers # {})
      BY <1>5, Zenon DEF PurgeBegin, Adders, Takers, Present, At
    <2> QED
      BY <2>1 DEF CountInv, Present
  <1>6. ASSUME NEW k \in Keys, PurgeVisit(k) PROVE CountInv'
    <2>1. /\ Adders' = Adders /\ Takers' = Takers
          /\ purging /\ purging' = purging /\ overlap' = overlap
          /\ purge' = purge \ {k}
      BY <1>6, Zenon DEF PurgeVisit, Adders, Takers, At
    <2>2. Present' = Present \ {k}
      BY <1>6 DEF PurgeVisit, Present, TypeOK
    <2> QED
      BY <2>1, <2>2 DEF CountInv
  <1>7. CASE PurgeEnd
    <2>1. /\ Adders' = Adders /\ Takers' = Takers /\ Present' = Present
          /\ purging /\ purge = {} /\ overlap' = overlap
          /\ purging' = FALSE /\ count' = 0
      BY <1>7, Zenon DEF PurgeEnd, Adders, Takers, Present, At
    <2>2. CASE overlap
      BY <2>1, <2>2 DEF CountInv
    <2>3. CASE ~overlap
      <3>1. Adders' = {} /\ Takers' = {} /\ Present' = {}
        BY <2>1, <2>3 DEF CountInv
      <3>2. count' + Cardinality(Adders') - Cardinality(Takers') = Cardinality(Present')
        BY <2>1, <3>1, FS_EmptySet
      <3> QED
        BY <2>1, <3>2 DEF CountInv
    <2> QED
      BY <2>2, <2>3
  <1>8. ASSUME NEW t \in TTLChoices, SetMaxTTL(t) PROVE CountInv'
    <2>1. \A q \in Procs : w'[q].pc = w[q].pc
      BY <1>8 DEF SetMaxTTL, TypeOK, Worker
    <2>2. Adders' = Adders /\ Takers' = Takers /\ Present' = Present
      BY <1>8, <2>1 DEF SetMaxTTL, Adders, Takers, Present, At
    <2>3. /\ count' = count /\ purging' = purging /\ purge' = purge
          /\ overlap' = overlap
      BY <1>8, Zenon DEF SetMaxTTL
    <2> QED
      BY <2>2, <2>3, CountKept
  <1>9. CASE Tick \/ UNCHANGED vars
    <2>1. /\ Adders' = Adders /\ Takers' = Takers /\ Present' = Present
          /\ count' = count /\ purging' = purging /\ purge' = purge
          /\ overlap' = overlap
      BY <1>9, Zenon DEF Tick, vars, Adders, Takers, Present, At
    <2> QED
      BY <2>1, CountKept
  <1>10. ASSUME NEW p \in Procs,
               \/ GetCheck(p) \/ SetCompare(p) \/ SetClamp(p)
               \/ \E k \in Keys : Look(p, k) \/ (p \in Callers /\ (GetLoad(p, k) \/ SetBegin(p, k)))
               \/ p = Cleaner /\ CleanBegin
         PROVE  CountInv'
    BY <1>1, <1>10, Moves
  <1> QED
    BY <1>2, <1>3, <1>4, <1>5, <1>6, <1>7, <1>8, <1>9, <1>10, ConstantTypes
    DEF Next, Step

\* The counter beside the map is exact, but for updates under way, as long as
\* no Purge has overlapped a change of the map: whatever queries, sweeps and
\* replacements interleave.
THEOREM CountCorrect == Spec => []CountIsExact
PROOF
  <1>1. Init => CountInv
    <2> SUFFICES ASSUME Init PROVE CountInv
      OBVIOUS
    <2>1. Adders = {} /\ Takers = {} /\ Present = {}
      BY RestType DEF Init, Adders, Takers, Present, At
    <2>2. count + Cardinality(Adders) - Cardinality(Takers) = Cardinality(Present)
      BY <2>1, FS_EmptySet DEF Init
    <2> QED
      BY <2>2 DEF Init, CountInv
  <1>2. TypeOK /\ CountInv /\ [Next]_vars => CountInv'
    BY CountStep
  <1>3. TypeOK /\ CountInv => CountIsExact
    BY DEF CountInv, CountIsExact
  <1> QED
    BY <1>1, <1>2, <1>3, CacheTypeCorrect, PTL DEF Spec

-----------------------------------------------------------------------------
(* Purge.                                                                  *)

\* An entry from before the Purge that runs is still to be visited.
EraInv == \A k \in Present : entries[k].era >= era \/ (purging /\ k \in purge)

\* Every step keeps it: what is stored meanwhile belongs to the new era.
LEMMA EraStep ==
    ASSUME TypeOK, EraInv, [Next]_vars
    PROVE  EraInv'
PROOF
  <1>1. CASE UNCHANGED <<entries, era, purging, purge>>
    BY <1>1 DEF EraInv, Present
  <1>2. ASSUME NEW p \in Procs, Delete(p) PROVE EraInv'
    BY <1>2, DeleteEffect DEF Delete, KeepRest, Keep, EraInv, Present, TypeOK
  <1>3. ASSUME NEW p \in Procs, SetSwap(p) PROVE EraInv'
    <2>1. w[p].key \in Keys /\ era \in Nat
      BY <1>3, SwapEffect DEF TypeOK
    <2> QED
      BY <1>3, <2>1 DEF SetSwap, KeepRest, Keep, EraInv, Present, TypeOK
  <1>4. CASE PurgeBegin
    BY <1>4, Zenon DEF PurgeBegin, EraInv, Present
  <1>5. ASSUME NEW k \in Keys, PurgeVisit(k) PROVE EraInv'
    BY <1>5 DEF PurgeVisit, EraInv, Present, TypeOK
  <1>6. CASE PurgeEnd
    BY <1>6 DEF PurgeEnd, EraInv, Present
  <1>7. ASSUME NEW p \in Procs,
               \/ GetCheck(p) \/ SetCompare(p) \/ SetClamp(p) \/ Decrement(p) \/ Increment(p)
               \/ \E k \in Keys : Look(p, k) \/ GetLoad(p, k) \/ SetBegin(p, k)
        PROVE  UNCHANGED <<entries, era, purging, purge>>
    BY <1>7, Zenon
    DEF GetCheck, SetCompare, SetClamp, Decrement, Increment, Look, GetLoad, SetBegin,
        KeepTable, KeepRest, Keep
  <1>8. CASE CleanBegin \/ Tick \/ (\E t \in TTLChoices : SetMaxTTL(t)) \/ UNCHANGED vars
    <2>1. UNCHANGED <<entries, era, purging, purge>>
      BY <1>8, Zenon DEF CleanBegin, Tick, SetMaxTTL, vars, KeepTable, KeepRest, Keep
    <2> QED
      BY <1>1, <2>1
  <1> QED
    BY <1>1, <1>2, <1>3, <1>4, <1>5, <1>6, <1>7, <1>8, ConstantTypes DEF Next, Step

\* Nothing that was stored before a Purge began is there once it has returned,
\* whoever reads and writes meanwhile.
THEOREM PurgeIsThorough == Spec => []PurgeForgets
PROOF
  <1>1. Init => EraInv
    BY DEF Init, EraInv, Present
  <1>2. TypeOK /\ EraInv /\ [Next]_vars => EraInv'
    BY EraStep
  <1>3. EraInv => PurgeForgets
    BY DEF EraInv, PurgeForgets
  <1> QED
    BY <1>1, <1>2, <1>3, CacheTypeCorrect, PTL DEF Spec

-----------------------------------------------------------------------------
(* Sweeps.                                                                 *)

\* Of a goroutine r that sweeps a map e: it began in the past, and what had
\* expired then is gone, still to be visited, or about to be deleted.
Swept(r, e, c) ==
    r.now > 0 =>
        /\ r.now <= c
        /\ r.pc \in {"sweep", "del", "sub"}
        /\ \A k \in Keys : e[k] # None /\ e[k].exp < r.now
                => k \in r.left \/ (r.pc = "del" /\ r.key = k)

SweepInv ==
    /\ clock <= MaxClock
    /\ \A p \in Procs : Swept(w[p], entries, clock)

\* Time, deletions and new entries do not add to what a sweep has to find.
LEMMA SweptKept ==
    ASSUME TypeOK, TypeOK', NEW r \in Worker, Swept(r, entries, clock), clock <= clock',
           \A k \in Keys : \/ entries'[k] = entries[k] \/ entries'[k] = None
                           \/ entries'[k].exp >= clock
    PROVE  Swept(r, entries', clock')
PROOF
  <1> SUFFICES ASSUME r.now > 0
               PROVE  /\ r.now <= clock' /\ r.pc \in {"sweep", "del", "sub"}
                      /\ \A k \in Keys : entries'[k] # None /\ entries'[k].exp < r.now
                            => k \in r.left \/ (r.pc = "del" /\ r.key = k)
    BY DEF Swept
  <1>1. r.now \in Nat /\ clock \in Nat /\ clock' \in Nat /\ r.now <= clock
    BY DEF Worker, TypeOK, Swept
  <1>2. ASSUME NEW k \in Keys, entries'[k] # None, entries'[k].exp < r.now
        PROVE  k \in r.left \/ (r.pc = "del" /\ r.key = k)
    <2>1. entries'[k].exp \in Nat
      BY <1>2 DEF TypeOK, Entry
    <2>2. entries'[k] = entries[k]
      BY <1>1, <1>2, <2>1
    <2> QED
      BY <1>2, <2>2 DEF Swept
  <1> QED
    BY <1>1, <1>2 DEF Swept

\* A sweep that begins has everything to find; a goroutine at rest, nothing.
LEMMA SweepBegins ==
    ASSUME TypeOK
    PROVE  /\ Swept(evictExpired, entries, clock)
           /\ \A e, c : Swept(Rest, e, c)
PROOF
  <1>1. \A e, c : Swept(Rest, e, c)
    BY RestType DEF Swept
  <1> DEFINE r == [Rest EXCEPT !.pc = "sweep", !.left = Expired, !.now = clock]
  <1>2. r.pc = "sweep" /\ r.left = Expired /\ r.now = clock
    BY DEF Rest
  <1> HIDE DEF r
  <1>3. clock \in Nat /\ \A k \in Present : entries[k].exp \in Nat
    BY DEF TypeOK, Present, Entry
  <1>4. Swept(r, entries, clock)
    BY <1>2, <1>3 DEF Swept, Expired, Present
  <1> QED
    BY <1>1, <1>4 DEF evictExpired, r

\* What the steps of a sweep leave to be found.
LEMMA ResumeSwept ==
    ASSUME TypeOK, NEW p \in Procs, Swept(w[p], entries, clock),
           At(p, "sub") \/ (At(p, "del") /\ entries[w[p].key] = None)
    PROVE  /\ Swept(Resume(p), entries, clock)
           /\ w[p].now > 0 /\ Resume(p).pc = "idle"
                => \A k \in Keys : entries[k] # None => entries[k].exp >= w[p].now
PROOF
  <1>1. w[p] \in Worker /\ \A k \in Keys : entries[k] # None => entries[k].exp \in Nat
    BY DEF TypeOK, Entry
  <1>2. w[p].now > 0 => /\ w[p].now <= clock
                        /\ \A k \in Keys : entries[k] # None /\ entries[k].exp < w[p].now
                              => k \in w[p].left
    BY DEF Swept, At
  <1>3. CASE w[p].left = {}
    <2>1. Resume(p) = Rest
      BY <1>3 DEF Resume
    <2>2. w[p].now \in Nat
      BY <1>1 DEF Worker
    <2> QED
      BY <1>1, <1>2, <1>3, <2>1, <2>2, SweepBegins
  <1>4. CASE w[p].left # {}
    <2> DEFINE r == [w[p] EXCEPT !.pc = "sweep"]
    <2>1. /\ r.pc = "sweep" /\ r.now = w[p].now /\ r.left = w[p].left
          /\ Resume(p) = r
      BY <1>1, <1>4 DEF Worker, Resume
    <2> HIDE DEF r
    <2> QED
      BY <1>2, <2>1 DEF Swept
  <1> QED
    BY <1>3, <1>4

\* A visit of a sweep passes over a key, or finds it expired and keeps it to
\* be deleted.
LEMMA LookSwept ==
    ASSUME TypeOK, NEW p \in Procs, Swept(w[p], entries, clock), NEW k \in Keys, Look(p, k)
    PROVE  \E r \in Worker :
              /\ Put(p, r) /\ Keyed(r)
              /\ Swept(r, entries, clock)
              /\ w[p].now > 0 /\ r.pc = "idle"
                   => \A j \in Keys : entries[j] # None => entries[j].exp >= w[p].now
PROOF
  <1> DEFINE s == [w[p] EXCEPT !.key = k, !.left = @ \ {k}]
             d == [s EXCEPT !.pc = "del"]
             r == IF Old(p, k) THEN d ELSE IF s.left = {} THEN Rest ELSE s
  <1>1. /\ w[p] \in Worker /\ w[p].pc = "sweep" /\ w[p].now \in Nat
        /\ \A j \in Keys : entries[j] # None => entries[j].exp \in Nat
    BY DEF TypeOK, Entry, Look, At, Worker
  <1>2. /\ s \in Worker /\ s.pc = "sweep" /\ s.key = k /\ s.now = w[p].now
        /\ s.left = w[p].left \ {k}
    BY <1>1 DEF Worker
  <1>3. /\ d \in Worker /\ d.pc = "del" /\ d.key = k /\ d.now = w[p].now
        /\ d.left = w[p].left \ {k}
    BY <1>2 DEF Worker
  <1>4. Put(p, r)
    BY DEF Look
  <1> HIDE DEF s, d
  <1>5. w[p].now > 0 => /\ w[p].now <= clock
                        /\ \A j \in Keys : entries[j] # None /\ entries[j].exp < w[p].now
                              => j \in w[p].left
    BY <1>1 DEF Swept
  <1>6. CASE Old(p, k)
    <2>1. Swept(d, entries, clock) /\ Keyed(d)
      BY <1>3, <1>5 DEF Swept, Keyed
    <2> QED
      BY <1>3, <1>4, <1>6, <2>1
  <1>7. CASE ~Old(p, k)
    <2>1. \A j \in Keys : w[p].now > 0 /\ entries[j] # None /\ entries[j].exp < w[p].now
              => j \in w[p].left \ {k}
      BY <1>1, <1>5, <1>7 DEF Old
    <2>2. CASE s.left = {}
      <3>1. r = Rest
        BY <1>7, <2>2
      <3>2. w[p].now > 0 => \A j \in Keys : entries[j] # None => entries[j].exp >= w[p].now
        BY <1>1, <1>2, <2>1, <2>2
      <3> QED
        BY <1>4, <3>1, <3>2, SweepBegins, RestType
    <2>3. CASE s.left # {}
      <3>1. r = s
        BY <1>7, <2>3
      <3>2. Swept(s, entries, clock) /\ Keyed(s)
        BY <1>2, <1>5, <2>1 DEF Swept, Keyed
      <3> QED
        BY <1>2, <1>4, <3>1, <3>2
    <2> QED
      BY <2>2, <2>3
  <1> QED
    BY <1>6, <1>7

\* What SweepIsComplete says of one step.
SweepEnds ==
    \A p \in Procs : w[p].now > 0 /\ w'[p].pc = "idle" =>
        \A k \in Present' : entries'[k].exp >= w[p].now

\* Only the goroutine that moves need be looked at.
LEMMA OneSweeps ==
    ASSUME TypeOK, TypeOK', SweepInv, NEW p \in Procs, NEW r \in Worker, Put(p, r),
           clock' = clock,
           \A k \in Keys : \/ entries'[k] = entries[k] \/ entries'[k] = None
                           \/ entries'[k].exp >= clock,
           Swept(r, entries', clock'),
           w[p].now > 0 /\ r.pc = "idle"
               => \A k \in Keys : entries'[k] # None => entries'[k].exp >= w[p].now
    PROVE  SweepInv' /\ SweepEnds
PROOF
  <1>1. w'[p] = r /\ \A q \in Procs \ {p} : w'[q] = w[q]
    BY DEF Put, TypeOK
  <1>2. clock \in Nat /\ clock' <= MaxClock /\ clock <= clock'
    BY DEF TypeOK, SweepInv
  <1>3. ASSUME NEW q \in Procs \ {p} PROVE Swept(w'[q], entries', clock')
    BY <1>1, <1>2, SweptKept DEF SweepInv, TypeOK
  <1>4. SweepInv'
    BY <1>1, <1>2, <1>3 DEF SweepInv
  <1>5. ASSUME NEW q \in Procs, w[q].now > 0, w'[q].pc = "idle"
        PROVE  \A k \in Present' : entries'[k].exp >= w[q].now
    <2>1. q = p
      BY <1>1, <1>5 DEF SweepInv, Swept
    <2> QED
      BY <1>1, <1>5, <2>1 DEF Present
  <1> QED
    BY <1>4, <1>5 DEF SweepEnds

\* Every step keeps what sweeps have to find, and a sweep that ends has found
\* it all.
LEMMA SweepStep ==
    ASSUME TypeOK, TypeOK', SweepInv, [Next]_vars
    PROVE  SweepInv' /\ SweepEnds
PROOF
  <1>0. /\ clock \in Nat /\ clock <= MaxClock
        /\ \A p \in Procs : w[p] \in Worker /\ w[p].now \in Nat /\ Swept(w[p], entries, clock)
    BY DEF TypeOK, Worker, SweepInv
  <1>1. ASSUME NEW p \in Procs, NEW r, Put(p, r), r \in Worker, r.now = 0,
               w[p].now = 0, clock' = clock,
               \A k \in Keys : \/ entries'[k] = entries[k] \/ entries'[k] = None
                               \/ entries'[k].exp >= clock
        PROVE  SweepInv' /\ SweepEnds
    BY <1>1, OneSweeps DEF Swept
  <1>2. ASSUME NEW p \in Procs, w[p].pc \notin {"sweep", "del", "sub"}
        PROVE  w[p].now = 0
    BY <1>0, <1>2 DEF Swept
  <1>3. ASSUME NEW p \in Procs,
               \/ GetCheck(p) \/ SetCompare(p) \/ SetClamp(p)
               \/ \E k \in Keys : p \in Callers /\ (GetLoad(p, k) \/ SetBegin(p, k))
        PROVE  SweepInv' /\ SweepEnds
    <2>1. PICK r : Moved(p, r)
      BY <1>3, Moves
    <2>2. entries' = entries /\ clock' = clock
      BY <1>3, Moves DEF KeepTable, Keep
    <2>3. w[p].now = 0
      BY <1>2, <1>3 DEF GetCheck, SetCompare, SetClamp, GetLoad, SetBegin, At
    <2>4. r \in Worker /\ Put(p, r) /\ w'[p] = r
      BY <2>1 DEF Moved, Put, TypeOK
    <2>5. w'[p].now = 0
      <3>1. CASE GetCheck(p)
        BY <3>1, RestType DEF GetCheck, Put, TypeOK, Rest
      <3>2. CASE SetCompare(p)
        BY <1>0, <2>3, <3>2 DEF SetCompare, Put, TypeOK, Worker
      <3>3. CASE SetClamp(p)
        BY <1>0, <2>3, <3>3 DEF SetClamp, Put, TypeOK, Worker
      <3>4. ASSUME NEW k \in Keys, GetLoad(p, k) \/ SetBegin(p, k) PROVE w'[p].now = 0
        BY <3>4 DEF GetLoad, SetBegin, Put, TypeOK, Rest
      <3> QED
        BY <1>3, <3>1, <3>2, <3>3, <3>4
    <2> QED
      BY <1>1, <2>2, <2>3, <2>4, <2>5
  <1>4. ASSUME NEW p \in Procs, SetSwap(p) PROVE SweepInv' /\ SweepEnds
    <2>1. PICK r \in Worker : Put(p, r) /\ r.now = 0
      BY <1>4, SwapEffect
    <2>2. w[p].now = 0 /\ clock' = clock /\ w[p].key \in Keys
      BY <1>2, <1>4, SwapEffect DEF SetSwap, At, KeepRest, Keep
    <2>3. Horizon(clock + w[p].ttl) >= clock
      BY <1>0, ConstantTypes DEF Horizon, Worker
    <2>4. \A k \in Keys : entries'[k] = entries[k] \/ entries'[k].exp >= clock
      BY <1>4, <2>2, <2>3 DEF SetSwap, TypeOK
    <2> QED
      BY <1>1, <2>1, <2>2, <2>4
  <1>5. ASSUME NEW p \in Procs, Delete(p) PROVE SweepInv' /\ SweepEnds
    <2>1. PICK r \in Worker :
            /\ Put(p, r)
            /\ r.pc \in (IF entries[w[p].key] # None THEN {"sub"} ELSE {"idle", "sweep"})
            /\ w[p].key \in Keys
      BY <1>5, DeleteEffect
    <2>2. /\ entries' = [entries EXCEPT ![w[p].key] = None] /\ clock' = clock
          /\ w[p].pc = "del" /\ w'[p] = r
      BY <1>5, <2>1 DEF Delete, KeepRest, Keep, At, Put, TypeOK
    <2>3. \A k \in Keys : entries'[k] = entries[k] \/ entries'[k] = None
      BY <2>1, <2>2 DEF TypeOK
    <2>4. CASE entries[w[p].key] # None
      <3>1. r = [w[p] EXCEPT !.pc = "sub"]
        BY <1>5, <2>2, <2>4 DEF Delete, Put, TypeOK
      <3>2. r.now = w[p].now /\ r.left = w[p].left /\ r.pc = "sub"
        BY <1>0, <3>1 DEF Worker
      <3>3. entries'[w[p].key] = None
        BY <2>1, <2>2 DEF TypeOK
      <3>4. Swept(r, entries', clock')
        BY <1>0, <2>2, <2>3, <3>2, <3>3 DEF Swept
      <3> QED
        BY <2>1, <2>2, <2>3, <3>2, <3>4, OneSweeps
    <2>5. CASE entries[w[p].key] = None
      <3>1. r = Resume(p)
        BY <1>5, <2>2, <2>5 DEF Delete, Put, TypeOK
      <3>2. entries' = entries
        BY <2>1, <2>2, <2>5 DEF TypeOK
      <3>3. /\ Swept(r, entries, clock)
            /\ w[p].now > 0 /\ r.pc = "idle"
                 => \A k \in Keys : entries[k] # None => entries[k].exp >= w[p].now
        BY <1>0, <2>2, <2>5, <3>1, ResumeSwept DEF At
      <3> QED
        BY <2>1, <2>2, <3>2, <3>3, OneSweeps
    <2> QED
      BY <2>4, <2>5
  <1>6. ASSUME NEW p \in Procs, Decrement(p) PROVE SweepInv' /\ SweepEnds
    <2>1. /\ Put(p, Resume(p)) /\ Resume(p) \in Worker /\ At(p, "sub")
          /\ entries' = entries /\ clock' = clock
      BY <1>6, WorkerTypes DEF Decrement, KeepRest, Keep
    <2>2. /\ Swept(Resume(p), entries, clock)
          /\ w[p].now > 0 /\ Resume(p).pc = "idle"
               => \A k \in Keys : entries[k] # None => entries[k].exp >= w[p].now
      BY <1>0, <2>1, ResumeSwept
    <2>3. PICK r \in Worker : r = Resume(p)
      BY <2>1
    <2> QED
      BY <2>1, <2>2, <2>3, OneSweeps
  <1>7. ASSUME NEW p \in Procs, Increment(p) \/ (p = Cleaner /\ CleanBegin)
        PROVE  SweepInv' /\ SweepEnds
    <2>1. /\ entries' = entries /\ clock' = clock /\ w[p].now = 0
          /\ Put(p, Rest) \/ Put(p, evictExpired)
      BY <1>2, <1>7 DEF Increment, CleanBegin, KeepTable, KeepRest, Keep, At
    <2>2. Rest \in Worker /\ evictExpired \in Worker
      BY RestType, WorkerTypes, <1>7
    <2>3. Swept(Rest, entries, clock) /\ Swept(evictExpired, entries, clock)
      BY SweepBegins
    <2>4. PICK r \in Worker : Put(p, r) /\ Swept(r, entries, clock)
      BY <2>1, <2>2, <2>3
    <2> QED
      BY <2>1, <2>4, OneSweeps
  <1>8. ASSUME NEW p \in Procs, NEW k \in Keys, Look(p, k) PROVE SweepInv' /\ SweepEnds
    <2>1. PICK r \in Worker :
            /\ Put(p, r) /\ Swept(r, entries, clock)
            /\ w[p].now > 0 /\ r.pc = "idle"
                 => \A j \in Keys : entries[j] # None => entries[j].exp >= w[p].now
      BY <1>0, <1>8, LookSwept
    <2>2. entries' = entries /\ clock' = clock
      BY <1>8 DEF Look, KeepTable, KeepRest, Keep
    <2> QED
      BY <2>1, <2>2, OneSweeps
  <1>9. ASSUME \A q \in Procs : /\ w'[q].pc = w[q].pc /\ w'[q].now = w[q].now
                                /\ w'[q].left = w[q].left /\ w'[q].key = w[q].key,
               clock' \in Nat, clock <= clock', clock' <= MaxClock,
               \A k \in Keys : entries'[k] = entries[k] \/ entries'[k] = None
        PROVE  SweepInv' /\ SweepEnds
    <2>1. \A q \in Procs : Swept(w[q], entries', clock')
      BY <1>0, <1>9, SweptKept
    <2>2. SweepInv'
      BY <1>9, <2>1 DEF SweepInv, Swept
    <2>3. SweepEnds
      BY <1>0, <1>9 DEF SweepEnds, Swept
    <2> QED
      BY <2>2, <2>3
  <1>10. ASSUME NEW t \in TTLChoices, SetMaxTTL(t) PROVE SweepInv' /\ SweepEnds
    <2>1. \A q \in Procs : /\ w'[q].pc = w[q].pc /\ w'[q].now = w[q].now
                           /\ w'[q].left = w[q].left /\ w'[q].key = w[q].key
      BY <1>10 DEF SetMaxTTL, TypeOK, Worker
    <2>2. entries' = entries /\ clock' = clock
      BY <1>10, Zenon DEF SetMaxTTL
    <2> QED
      BY <1>0, <1>9, <2>1, <2>2
  <1>11. CASE Tick \/ UNCHANGED vars \/ PurgeBegin \/ PurgeEnd \/ (\E k \in Keys : PurgeVisit(k))
    <2>1. w' = w
      BY <1>11, Zenon DEF Tick, vars, PurgeBegin, PurgeEnd, PurgeVisit
    <2>2. clock' = clock \/ (clock < MaxClock /\ clock' = clock + 1)
      BY <1>11, Zenon DEF Tick, vars, PurgeBegin, PurgeEnd, PurgeVisit
    <2>3. entries' = entries \/ \E k \in Keys : entries' = [entries EXCEPT ![k] = None]
      BY <1>11, Zenon DEF Tick, vars, PurgeBegin, PurgeEnd, PurgeVisit
    <2>4. \A k \in Keys : entries'[k] = entries[k] \/ entries'[k] = None
      BY <2>3 DEF TypeOK
    <2> QED
      BY <1>0, <1>9, <2>1, <2>2, <2>4, ConstantTypes
  <1> QED
    BY <1>3, <1>4, <1>5, <1>6, <1>7, <1>8, <1>10, <1>11, ConstantTypes DEF Next, Step

\* A sweep that returns leaves nothing that had expired when it began,
\* whatever is stored, replaced, deleted or purged in between.
THEOREM SweepsAreComplete == Spec => SweepIsComplete
PROOF
  <1>1. Init => SweepInv
    <2> SUFFICES ASSUME Init PROVE SweepInv
      OBVIOUS
    <2>1. clock <= MaxClock
      BY ConstantTypes DEF Init
    <2>2. \A p \in Procs : w[p].now = 0
      BY RestType DEF Init
    <2> QED
      BY <2>1, <2>2 DEF SweepInv, Swept
  <1>2. TypeOK /\ TypeOK' /\ SweepInv /\ [Next]_vars => SweepInv' /\ SweepEnds
    BY SweepStep
  <1>3. SweepEnds => [\A p \in Procs : w[p].now > 0 /\ w'[p].pc = "idle" =>
                        \A k \in Present' : entries'[k].exp >= w[p].now]_vars
    BY DEF SweepEnds
  <1> QED
    BY <1>1, <1>2, <1>3, CacheTypeCorrect, PTL DEF Spec, SweepIsComplete

-----------------------------------------------------------------------------
(* How long an answer is kept.                                             *)

\* A goroutine within a Set.
Setting == {"extracted", "clamp", "swap"}

\* What a Set knows about the time to live it holds: after its reading of
\* the records, between its two readings of the maximum, and before it stores.
Timed(r, max) ==
    /\ r.pc \in Setting => max \in r.maxima
    /\ r.pc \in {"extracted", "clamp"} => \A t \in LeastTTL(TTLsOf[r.key]) : r.ttl <= t
    /\ r.pc = "clamp" /\ r.maxima = {max} => r.ttl > max
    /\ r.pc = "swap" =>
         /\ r.ttl >= MinTTL
         /\ r.ttl = MinTTL \/ \E m \in r.maxima : r.ttl <= m
         /\ r.maxima = {max} =>
              r.ttl = MinTTL \/ \A t \in LeastTTL(TTLsOf[r.key]) : r.ttl <= t

LifeInv == \A p \in Procs : Timed(w[p], maxTTL)

\* Only the goroutine that moves need be looked at, and only within a Set.
LEMMA OneTimed ==
    ASSUME TypeOK, LifeInv, NEW p \in Procs, NEW r, Put(p, r), maxTTL' = maxTTL,
           r.pc \in Setting => Timed(r, maxTTL)
    PROVE  LifeInv'
PROOF
  <1>1. w'[p] = r /\ \A q \in Procs \ {p} : w'[q] = w[q]
    BY DEF Put, TypeOK
  <1>2. Timed(r, maxTTL)
    BY DEF Timed, Setting
  <1> QED
    BY <1>1, <1>2 DEF LifeInv

\* Set reads the records' lifetimes, compares with the maximum, and clamps.
LEMMA SetTimed ==
    ASSUME TypeOK, LifeInv, NEW p \in Procs,
           \/ \E k \in Keys : SetBegin(p, k)
           \/ SetCompare(p) \/ SetClamp(p)
    PROVE  LifeInv'
PROOF
  <1>0. /\ w[p] \in Worker /\ w[p].ttl \in Nat /\ maxTTL \in Nat /\ Timed(w[p], maxTTL)
        /\ MinTTL \in Nat
    BY ConstantTypes DEF TypeOK, LifeInv, Worker
  <1>1. ASSUME NEW k \in Keys, SetBegin(p, k) PROVE LifeInv'
    <2> DEFINE r == [Rest EXCEPT !.pc = "extracted", !.key = k,
                                 !.ttl = ExtractMinTTL(TTLsOf[k], maxTTL),
                                 !.maxima = {maxTTL}]
    <2>1. /\ r.pc = "extracted" /\ r.key = k /\ r.ttl = ExtractMinTTL(TTLsOf[k], maxTTL)
          /\ r.maxima = {maxTTL}
      BY DEF Rest
    <2>2. Put(p, r) /\ maxTTL' = maxTTL
      BY <1>1 DEF SetBegin, Keep
    <2> HIDE DEF r
    <2>3. \A t \in LeastTTL(TTLsOf[k]) : r.ttl <= t
      <3>1. \A t \in LeastTTL(TTLsOf[k]) : ExtractMinTTL(TTLsOf[k], maxTTL) <= t
        BY <1>0, ExtractType
      <3> QED
        BY <2>1, <3>1, Zenon
    <2>4. Timed(r, maxTTL)
      BY <2>1, <2>3 DEF Timed
    <2> QED
      BY <2>2, <2>4, OneTimed
  <1>2. CASE SetCompare(p)
    <2> DEFINE c == [w[p] EXCEPT !.pc = "clamp"]
               s == [w[p] EXCEPT !.pc = "swap", !.ttl = AtLeastMin(@)]
    <2>1. w[p].pc = "extracted" /\ w[p].key \in Keys /\ maxTTL' = maxTTL
      BY <1>2 DEF SetCompare, At, TypeOK, KeepRest, Keep
    <2>2. /\ c.pc = "clamp" /\ c.key = w[p].key /\ c.ttl = w[p].ttl
          /\ s.pc = "swap" /\ s.key = w[p].key /\ s.ttl = AtLeastMin(w[p].ttl)
          /\ c.maxima = w[p].maxima /\ s.maxima = w[p].maxima
      BY <1>0 DEF Worker
    <2>3. Put(p, IF w[p].ttl > maxTTL THEN c ELSE s)
      BY <1>2 DEF SetCompare
    <2> HIDE DEF c, s
    <2>4. maxTTL \in w[p].maxima /\ \A t \in LeastTTL(TTLsOf[w[p].key]) : w[p].ttl <= t
      BY <1>0, <2>1 DEF Timed, Setting
    <2>5. CASE w[p].ttl > maxTTL
      <3>1. Timed(c, maxTTL)
        BY <2>2, <2>4, <2>5 DEF Timed
      <3> QED
        BY <2>1, <2>3, <2>5, <3>1, OneTimed
    <2>6. CASE ~(w[p].ttl > maxTTL)
      <3>1. s.ttl >= MinTTL /\ (s.ttl = MinTTL \/ s.ttl = w[p].ttl)
        BY <1>0, <2>2 DEF AtLeastMin
      <3>2. w[p].ttl <= maxTTL
        BY <1>0, <2>6
      <3>3. Timed(s, maxTTL)
        BY <2>2, <2>4, <3>1, <3>2 DEF Timed
      <3> QED
        BY <2>1, <2>3, <2>6, <3>3, OneTimed
    <2> QED
      BY <2>5, <2>6
  <1>3. CASE SetClamp(p)
    <2> DEFINE s == [w[p] EXCEPT !.pc = "swap", !.ttl = AtLeastMin(maxTTL)]
    <2>1. w[p].pc = "clamp" /\ w[p].key \in Keys /\ maxTTL' = maxTTL
      BY <1>3 DEF SetClamp, At, TypeOK, KeepRest, Keep
    <2>2. /\ s.pc = "swap" /\ s.key = w[p].key /\ s.ttl = AtLeastMin(maxTTL)
          /\ s.maxima = w[p].maxima
      BY <1>0 DEF Worker
    <2>3. Put(p, s)
      BY <1>3 DEF SetClamp
    <2> HIDE DEF s
    <2>4. /\ \A t \in LeastTTL(TTLsOf[w[p].key]) : w[p].ttl <= t
          /\ maxTTL \in w[p].maxima
          /\ w[p].maxima = {maxTTL} => w[p].ttl > maxTTL
      BY <1>0, <2>1 DEF Timed, Setting
    <2>5. s.ttl >= MinTTL /\ (s.ttl = MinTTL \/ s.ttl = maxTTL)
      BY <1>0, <2>2 DEF AtLeastMin
    <2>6. LeastTTL(TTLsOf[w[p].key]) \subseteq Nat
      BY <1>0, <2>1, ExtractType
    <2>7. w[p].ttl > maxTTL => \A t \in LeastTTL(TTLsOf[w[p].key]) : maxTTL <= t
      BY <1>0, <2>4, <2>6
    <2>8. maxTTL <= maxTTL
      BY <1>0
    <2>9. Timed(s, maxTTL)
      BY <2>2, <2>4, <2>5, <2>7, <2>8 DEF Timed
    <2> QED
      BY <2>1, <2>3, <2>9, OneTimed
  <1> QED
    BY <1>1, <1>2, <1>3

\* Every step keeps what a Set knows.
LEMMA LifeStep ==
    ASSUME TypeOK, LifeInv, [Next]_vars
    PROVE  LifeInv'
PROOF
  <1>1. ASSUME NEW p \in Procs, GetCheck(p) PROVE LifeInv'
    <2> DEFINE d == [Rest EXCEPT !.pc = "del", !.key = w[p].key]
    <2>1. d.pc = "del" /\ Rest.pc = "idle"
      BY DEF Rest
    <2>2. maxTTL' = maxTTL /\ (Put(p, d) \/ Put(p, Rest))
      BY <1>1 DEF GetCheck, KeepRest, Keep
    <2> HIDE DEF d
    <2> QED
      BY <2>1, <2>2, OneTimed DEF Setting
  <1>2. ASSUME NEW p \in Procs, Delete(p) PROVE LifeInv'
    <2>1. PICK r \in Worker :
            /\ Put(p, r)
            /\ r.pc \in (IF entries[w[p].key] # None THEN {"sub"} ELSE {"idle", "sweep"})
      BY <1>2, DeleteEffect
    <2>2. maxTTL' = maxTTL
      BY <1>2 DEF Delete, KeepRest, Keep
    <2> QED
      BY <2>1, <2>2, OneTimed DEF Setting
  <1>3. ASSUME NEW p \in Procs, SetSwap(p) PROVE LifeInv'
    <2>1. PICK r \in Worker :
            Put(p, r) /\ r.pc = (IF entries[w[p].key] = None THEN "add" ELSE "idle")
      BY <1>3, SwapEffect
    <2>2. maxTTL' = maxTTL
      BY <1>3 DEF SetSwap, KeepRest, Keep
    <2> QED
      BY <2>1, <2>2, OneTimed DEF Setting
  <1>4. ASSUME NEW p \in Procs, Decrement(p) \/ Increment(p) PROVE LifeInv'
    <2>1. PICK r \in Worker : Put(p, r) /\ r.pc \in {"idle", "sweep"}
      BY <1>4, CounterEffect
    <2>2. maxTTL' = maxTTL
      BY <1>4 DEF Decrement, Increment, KeepRest, Keep
    <2> QED
      BY <2>1, <2>2, OneTimed DEF Setting
  <1>5. ASSUME NEW p \in Procs, NEW k \in Keys, Look(p, k) PROVE LifeInv'
    <2> DEFINE s == [w[p] EXCEPT !.key = k, !.left = @ \ {k}]
               d == [s EXCEPT !.pc = "del"]
    <2>1. s \in Worker /\ s.pc = "sweep"
      BY <1>5 DEF TypeOK, Worker, Look, At
    <2>2. d.pc = "del" /\ Rest.pc = "idle"
      BY <2>1, RestType DEF Worker
    <2>3. maxTTL' = maxTTL /\ (Put(p, d) \/ Put(p, Rest) \/ Put(p, s))
      BY <1>5 DEF Look, KeepRest, Keep
    <2> HIDE DEF s, d
    <2> QED
      BY <2>1, <2>2, <2>3, OneTimed DEF Setting
  <1>6. ASSUME NEW p \in Procs, NEW k \in Keys, GetLoad(p, k) PROVE LifeInv'
    <2> DEFINE g == [Rest EXCEPT !.pc = "got", !.key = k, !.seen = entries[k]]
    <2>1. g.pc = "got"
      BY DEF Rest
    <2>2. Put(p, g) /\ maxTTL' = maxTTL
      BY <1>6 DEF GetLoad, Keep
    <2> HIDE DEF g
    <2> QED
      BY <2>1, <2>2, OneTimed DEF Setting
  <1>7. CASE CleanBegin
    <2>1. evictExpired.pc \in {"idle", "sweep"} /\ Cleaner \in Procs
      BY WorkerTypes, ConstantTypes
    <2>2. Put(Cleaner, evictExpired) /\ maxTTL' = maxTTL
      BY <1>7 DEF CleanBegin, KeepRest, Keep
    <2> QED
      BY <2>1, <2>2, OneTimed DEF Setting
  <1>8. ASSUME NEW t \in TTLChoices, SetMaxTTL(t) PROVE LifeInv'
    <2>1. SUFFICES ASSUME NEW p \in Procs PROVE Timed(w'[p], maxTTL')
      BY DEF LifeInv
    <2>2. /\ w'[p].pc = w[p].pc /\ w'[p].key = w[p].key /\ w'[p].ttl = w[p].ttl
          /\ w[p].pc \in Setting => w'[p].maxima = w[p].maxima \cup {maxTTL'}
      BY <1>8 DEF SetMaxTTL, TypeOK, Worker, Setting
    <2>3. Timed(w[p], maxTTL)
      BY DEF LifeInv
    <2>4. CASE w[p].pc \in Setting
      <3>1. maxTTL \in w[p].maxima /\ w'[p].maxima = w[p].maxima \cup {maxTTL'}
        BY <2>2, <2>3, <2>4 DEF Timed
      <3>2. w'[p].maxima = {maxTTL'} => w[p].maxima = {maxTTL} /\ maxTTL' = maxTTL
        BY <3>1
      <3> QED
        BY <2>2, <2>3, <3>1, <3>2 DEF Timed
    <2>5. CASE w[p].pc \notin Setting
      BY <2>2, <2>5 DEF Timed, Setting
    <2> QED
      BY <2>4, <2>5
  <1>9. CASE Tick \/ UNCHANGED vars \/ PurgeBegin \/ PurgeEnd \/ (\E k \in Keys : PurgeVisit(k))
    <2>1. w' = w /\ maxTTL' = maxTTL
      BY <1>9, Zenon DEF Tick, vars, PurgeBegin, PurgeEnd, PurgeVisit
    <2> QED
      BY <2>1 DEF LifeInv
  <1> QED
    BY <1>1, <1>2, <1>3, <1>4, <1>5, <1>6, <1>7, <1>8, <1>9, SetTimed, ConstantTypes
       DEF Next, Step

\* Where no maximum is below MinTTL, an answer is stored for MinTTL at least and
\* for no longer than a maximum in force during the Set allows, and, unless the
\* maximum changed, no longer than its shortest-lived record or MinTTL.
THEOREM LifetimesBounded == Spec => []LifeIsBounded
PROOF
  <1>1. Init => LifeInv
    BY RestType DEF Init, LifeInv, Timed, Setting
  <1>2. TypeOK /\ LifeInv /\ [Next]_vars => LifeInv'
    BY LifeStep
  <1>3. LifeInv => LifeIsBounded
    <2> SUFFICES ASSUME LifeInv, NEW c \in Callers, At(c, "swap"),
                        \A m \in w[c].maxima : m >= MinTTL
                 PROVE  /\ w[c].ttl >= MinTTL
                        /\ \E m \in w[c].maxima : w[c].ttl <= m
                        /\ w[c].maxima = {maxTTL} =>
                             \A t \in LeastTTL(TTLsOf[w[c].key]) : w[c].ttl <= t \/ w[c].ttl = MinTTL
      BY DEF LifeIsBounded
    <2>1. Timed(w[c], maxTTL) /\ w[c].pc = "swap"
      BY ConstantTypes DEF LifeInv, At
    <2>2. maxTTL \in w[c].maxima /\ maxTTL >= MinTTL
      BY <2>1 DEF Timed, Setting
    <2>3. w[c].ttl = MinTTL => w[c].ttl <= maxTTL
      BY <2>2
    <2> QED
      BY <2>1, <2>2, <2>3 DEF Timed
  <1> QED
    BY <1>1, <1>2, <1>3, CacheTypeCorrect, PTL DEF Spec

=============================================================================
