------------------------------ MODULE DnsProofs ------------------------------
(***************************************************************************)
(* Proofs about the DNS engine, for any number of queries, names and       *)
(* servers: types, one DoH request per key, answers that fit their query,  *)
(* coalesced probes, and the fallback to plain DNS.                        *)
(***************************************************************************)
EXTENDS DnsEngine, TLAPS

-----------------------------------------------------------------------------
(* Types.                                                                  *)

\* A query that goes on to a label, or returns, keeps the types of pc and
\* reply.
LEMMA GotoType ==
    ASSUME TypeOK, NEW q \in Queries, NEW l \in PC, Goto(q, l)
    PROVE  pc' \in [Queries -> PC]
BY DEF TypeOK, Goto

\* Returning a reply keeps the types of the label and of the replies.
LEMMA ReturnType ==
    ASSUME TypeOK, NEW q \in Queries, NEW r \in Reply, Return(q, r)
    PROVE  /\ pc' \in [Queries -> PC]
           /\ reply' \in [Queries -> Reply \cup {None}]
BY DEF TypeOK, Return, PC

\* So does acting on a probe status.
LEMMA DecideType ==
    ASSUME TypeOK, NEW q \in Queries, NEW st, Decide(q, st)
    PROVE  /\ pc' \in [Queries -> PC]
           /\ reply' \in [Queries -> Reply \cup {None}]
BY DEF TypeOK, Decide, Goto, Return, PC, Reply

\* Every step of a query keeps the types.
LEMMA QueryType ==
    ASSUME TypeOK, NEW q \in Queries, Receive(q) \/ Progress(q)
    PROVE  TypeOK'
PROOF
  <1> USE DnsAssumption
  <1>0. KeyOf[q] \in Keys /\ ServerOf[KeyOf[q]] \in Servers
    OBVIOUS
  <1>1. CASE Receive(q)
    <2>1. /\ pc' \in [Queries -> PC]
          /\ reply' \in [Queries -> Reply \cup {None}]
      BY <1>1 DEF Receive, Return, Goto, TypeOK, PC, Reply
    <2>2. snap' \in [Queries -> Config \cup {None}]
      BY <1>1 DEF Receive, TypeOK
    <2> QED
      BY <1>1, <2>1, <2>2 DEF Receive, TypeOK, cfgVars, probeVars, callVars
  <1>2. CASE Get(q)
    <2>1. /\ pc' \in [Queries -> PC]
          /\ reply' \in [Queries -> Reply \cup {None}]
      <3>1. CASE Goto(q, "check") /\ UNCHANGED reply
        BY <3>1 DEF Goto, TypeOK, PC
      <3>2. CASE /\ entries[KeyOf[q]] # None
                 /\ Return(q, Answer(entries[KeyOf[q]], q))
        <4>1. Answer(entries[KeyOf[q]], q) \in Reply
          BY <1>0, <3>2 DEF TypeOK, Answer, Reply
        <4> QED BY <3>2, <4>1, ReturnType
      <3> QED BY <1>2, <3>1, <3>2 DEF Get
    <2> QED
      BY <1>2, <2>1 DEF Get, TypeOK, cfgVars, probeVars, callVars
  <1>3. CASE GetStatus(q)
    <2>1. /\ pc' \in [Queries -> PC]
          /\ reply' \in [Queries -> Reply \cup {None}]
      BY <1>3, DecideType DEF GetStatus, Goto, TypeOK, PC
    <2> QED
      BY <1>3, <2>1 DEF GetStatus, TypeOK, cfgVars, probeVars, callVars
  <1>4. CASE DeleteStatus(q)
    <2>1. /\ status' \in [Servers -> {"unknown", "supported", "unsupported"}]
          /\ stale' \in SUBSET Servers
          /\ forgotten' \in [Servers -> Nat]
      BY <1>0, <1>4 DEF DeleteStatus, Delete, TypeOK
    <2>2. pc' \in [Queries -> PC]
      BY <1>4 DEF DeleteStatus, Goto, TypeOK, PC
    <2> QED
      BY <1>4, <2>1, <2>2 DEF DeleteStatus, TypeOK, cfgVars, callVars
  <1>5. CASE LockAndRecheck(q)
    <2>1. /\ status' \in [Servers -> {"unknown", "supported", "unsupported"}]
          /\ stale' \in SUBSET Servers
          /\ forgotten' \in [Servers -> Nat]
      BY <1>0, <1>5 DEF LockAndRecheck, Delete, TypeOK
    <2>2. /\ mutex' \in [Servers -> Queries \cup {None}]
          /\ probes' \in [Servers -> Nat]
      BY <1>0, <1>5 DEF LockAndRecheck, TypeOK
    <2>3. /\ pc' \in [Queries -> PC]
          /\ reply' \in [Queries -> Reply \cup {None}]
      BY <1>5, DecideType DEF LockAndRecheck, Goto, TypeOK, PC
    <2> QED
      BY <1>5, <2>1, <2>2, <2>3 DEF LockAndRecheck, TypeOK, cfgVars, callVars
  <1>6. CASE ProbeDone(q)
    <2>1. /\ status' \in [Servers -> {"unknown", "supported", "unsupported"}]
          /\ stale' \in SUBSET Servers
          /\ forgotten' \in [Servers -> Nat]
          /\ mutex' \in [Servers -> Queries \cup {None}]
      BY <1>0, <1>6 DEF ProbeDone, TypeOK
    <2>2. /\ pc' \in [Queries -> PC]
          /\ reply' \in [Queries -> Reply \cup {None}]
      BY <1>6, DecideType, ReturnType DEF ProbeDone, Reply
    <2> QED
      BY <1>6, <2>1, <2>2 DEF ProbeDone, TypeOK, cfgVars, callVars
  <1>7. CASE Do(q)
    <2>1. pc' \in [Queries -> PC]
      BY <1>7 DEF Do, Goto, TypeOK, PC
    <2>2. /\ calls' \in [Keys -> Queries \cup {None}]
          /\ joined' \in [Queries -> Queries \cup {None}]
      BY <1>0, <1>7 DEF Do, TypeOK
    <2> QED
      BY <1>7, <2>1, <2>2 DEF Do, TypeOK, cfgVars, probeVars
  <1>8. CASE QueryDone(q)
    <2>1. pc' \in [Queries -> PC]
      BY <1>8 DEF QueryDone, Goto, TypeOK, PC
    <2>2. result' \in [Queries -> {"none", "ok", "error", "panic"}]
      BY <1>8 DEF QueryDone, TypeOK
    <2> QED
      BY <1>8, <2>1, <2>2 DEF QueryDone, TypeOK, cfgVars, probeVars
  <1>9. CASE Forget(q)
    <2>1. pc' \in [Queries -> PC]
      BY <1>9 DEF Forget, Goto, TypeOK, PC
    <2>2. calls' \in [Keys -> Queries \cup {None}]
      BY <1>0, <1>9 DEF Forget, TypeOK
    <2> QED
      BY <1>9, <2>1, <2>2 DEF Forget, TypeOK, cfgVars, probeVars
  <1>10. CASE Release(q)
    <2>1. /\ pc' \in [Queries -> PC]
          /\ reply' \in [Queries -> Reply \cup {None}]
      BY <1>10 DEF Release, Goto, Return, FailureReply, TypeOK, PC, Reply
    <2> QED
      BY <1>10, <2>1 DEF Release, TypeOK, cfgVars, probeVars
  <1>11. CASE Follow(q)
    <2>1. joined[q] \in Queries
      BY <1>11 DEF Follow, TypeOK
    <2>2. Answer(joined[q], q) \in Reply /\ FailureReply(q) \in Reply
      BY <2>1 DEF Answer, FailureReply, Reply
    <2>3. /\ pc' \in [Queries -> PC]
          /\ reply' \in [Queries -> Reply \cup {None}]
      BY <1>11, <2>2, ReturnType DEF Follow
    <2> QED
      BY <1>11, <2>3 DEF Follow, TypeOK, cfgVars, probeVars, callVars
  <1>12. CASE Store(q)
    <2>1. Answer(q, q) \in Reply
      BY DEF Answer, Reply
    <2>2. /\ pc' \in [Queries -> PC]
          /\ reply' \in [Queries -> Reply \cup {None}]
      BY <1>12, <2>1, ReturnType DEF Store
    <2>3. entries' \in [Keys -> Queries \cup {None}]
      BY <1>0, <1>12 DEF Store, TypeOK
    <2> QED
      BY <1>12, <2>2, <2>3 DEF Store, TypeOK, cfgVars, probeVars, callVars
  <1> QED
    BY <1>1, <1>2, <1>3, <1>4, <1>5, <1>6, <1>7, <1>8, <1>9, <1>10, <1>11,
       <1>12 DEF Progress

\* So does the passage of time, and a reload.
LEMMA EnvironmentType ==
    ASSUME TypeOK,
           \/ \E k \in Keys : CacheExpire(k)
           \/ \E s \in Servers : ProbeExpire(s)
           \/ Reload \/ UpdateConfig
    PROVE  TypeOK'
PROOF
  <1> USE DnsAssumption
  <1>1. ASSUME NEW k \in Keys, CacheExpire(k) PROVE TypeOK'
    BY <1>1 DEF CacheExpire, TypeOK, cfgVars, probeVars, callVars
  <1>2. ASSUME NEW s \in Servers, ProbeExpire(s) PROVE TypeOK'
    BY <1>2 DEF ProbeExpire, TypeOK, cfgVars, callVars
  <1>3. CASE Reload
    BY <1>3 DEF Reload, TypeOK, probeVars, callVars
  <1>4. CASE UpdateConfig
    <2>1. hasCache' \in BOOLEAN /\ reloading' \in BOOLEAN
      BY <1>4 DEF UpdateConfig
    <2>2. entries' \in [Keys -> Queries \cup {None}]
      BY <1>4 DEF UpdateConfig, TypeOK
    <2> QED
      BY <1>4, <2>1, <2>2 DEF UpdateConfig, TypeOK, probeVars, callVars
  <1> QED
    BY <1>1, <1>2, <1>3, <1>4

\* The engine's variables always have their types.
THEOREM DnsTypeCorrect == Spec => []TypeOK
PROOF
  <1>1. Init => TypeOK
    <2> SUFFICES ASSUME Init PROVE TypeOK
      OBVIOUS
    <2>1. /\ reloads \in 0..MaxReloads
          /\ expiries \in [Servers -> 0..MaxExpiries]
          /\ probes \in [Servers -> Nat] /\ forgotten \in [Servers -> Nat]
      BY DnsAssumption DEF Init
    <2>2. hasCache \in BOOLEAN /\ reloading \in BOOLEAN
      BY DEF Init, Config
    <2>3. status \in [Servers -> {"unknown", "supported", "unsupported"}]
      BY DEF Init
    <2> QED
      BY <2>1, <2>2, <2>3 DEF Init, TypeOK, PC
  <1>2. TypeOK /\ [Next]_vars => TypeOK'
    <2> SUFFICES ASSUME TypeOK, [Next]_vars PROVE TypeOK'
      OBVIOUS
    <2>1. CASE UNCHANGED vars
      BY <2>1 DEF vars, TypeOK
    <2> QED
      BY <2>1, QueryType, EnvironmentType DEF Next
  <1> QED
    BY <1>1, <1>2, PTL DEF Spec

-----------------------------------------------------------------------------
(* Coalescing.                                                             *)

\* A query whose DoH request is under way, or just over, is the one the map
\* holds for its key.
LeadersAreRegistered ==
    \A q \in Queries :
        pc[q] \in {"leading", "ending"} => calls[KeyOf[q]] = q

\* Every step keeps the leaders registered: Do makes a query leader only if
\* the key has none, and Forget removes the query's own call.
LEMMA LeaderStep ==
    ASSUME TypeOK, LeadersAreRegistered, [Next]_vars
    PROVE  LeadersAreRegistered'
PROOF
  <1> SUFFICES ASSUME NEW p \in Queries, pc'[p] \in {"leading", "ending"}
               PROVE  calls'[KeyOf[p]] = p
    BY DEF LeadersAreRegistered
  <1>1. pc[p] \in {"leading", "ending"} => calls[KeyOf[p]] = p
    BY DEF LeadersAreRegistered
  <1>2. ASSUME NEW q \in Queries, Do(q) PROVE calls'[KeyOf[p]] = p
    BY <1>1, <1>2, DnsAssumption DEF Do, Goto, TypeOK
  <1>3. ASSUME NEW q \in Queries, Forget(q) PROVE calls'[KeyOf[p]] = p
    <2>1. calls[KeyOf[q]] = q /\ KeyOf[q] \in Keys /\ KeyOf[p] \in Keys
      BY <1>3, DnsAssumption DEF Forget, LeadersAreRegistered
    <2>2. p # q /\ pc[p] \in {"leading", "ending"}
      BY <1>3 DEF Forget, Goto, TypeOK
    <2> QED
      BY <1>1, <1>3, <2>1, <2>2 DEF Forget, TypeOK
  <1>4. ASSUME NEW q \in Queries,
               \/ Receive(q) \/ Get(q) \/ GetStatus(q) \/ DeleteStatus(q)
               \/ LockAndRecheck(q) \/ ProbeDone(q) \/ QueryDone(q)
               \/ Release(q) \/ Follow(q) \/ Store(q)
        PROVE  calls'[KeyOf[p]] = p
    <2>1. calls' = calls
      BY <1>4 DEF Receive, Get, GetStatus, DeleteStatus, LockAndRecheck, ProbeDone,
                  QueryDone, Release, Follow, Store, callVars
    <2>2. pc[p] \in {"leading", "ending"}
      BY <1>4 DEF Receive, Get, GetStatus, DeleteStatus, LockAndRecheck, ProbeDone,
                  QueryDone, Release, Follow, Store, Goto, Return, Decide, TypeOK
    <2> QED
      BY <1>1, <2>1, <2>2
  <1>5. CASE \/ \E k \in Keys : CacheExpire(k)
             \/ \E s \in Servers : ProbeExpire(s)
             \/ Reload \/ UpdateConfig \/ UNCHANGED vars
    BY <1>1, <1>5 DEF CacheExpire, ProbeExpire, Reload, UpdateConfig, vars, callVars
  <1> QED
    BY <1>2, <1>3, <1>4, <1>5 DEF Next, Progress

\* No two queries have a DoH request for the same key under way.
THEOREM SingleFlight == Spec => []OneRequestPerKey
PROOF
  <1>1. Init => LeadersAreRegistered
    BY DEF Init, LeadersAreRegistered
  <1>2. TypeOK /\ LeadersAreRegistered /\ [Next]_vars => LeadersAreRegistered'
    BY LeaderStep
  <1>3. LeadersAreRegistered => OneRequestPerKey
    BY DEF LeadersAreRegistered, OneRequestPerKey
  <1> QED
    BY <1>1, <1>2, <1>3, DnsTypeCorrect, PTL DEF Spec

-----------------------------------------------------------------------------
(* Answers.                                                                *)

\* The query from has obtained an answer for key k.
Obtained(from, k) == from \in Queries /\ KeyOf[from] = k /\ result[from] = "ok"

\* Where answers are kept: in the cache, with the followers, in the replies.
AnswerInv ==
    /\ \A q \in Queries :
        result[q] # "none" => pc[q] \in {"ending", "releasing", "store", "done"}
    /\ \A q \in Queries : pc[q] = "store" => result[q] = "ok"
    /\ \A k \in Keys : entries[k] # None => Obtained(entries[k], k)
    /\ \A k \in Keys : calls[k] # None => KeyOf[calls[k]] = k
    /\ \A q \in Queries :
        joined[q] # None => joined[q] \in Queries /\ KeyOf[joined[q]] = KeyOf[q]
    /\ \A q \in Queries :
        reply[q] # None /\ reply[q].kind = "answer"
            => Obtained(reply[q].from, KeyOf[q]) /\ reply[q].id = q

\* The result of a query is written once, so that an answer stays obtained.
LEMMA ObtainedLasts ==
    ASSUME TypeOK, AnswerInv, [Next]_vars,
           NEW from, NEW k, Obtained(from, k)
    PROVE  Obtained(from, k)'
PROOF
  <1>1. ASSUME NEW q \in Queries, QueryDone(q) PROVE result'[from] = "ok"
    BY <1>1 DEF QueryDone, Obtained, AnswerInv, TypeOK
  <1>2. CASE result' = result
    BY <1>2 DEF Obtained
  <1>3. (\E q \in Queries : QueryDone(q)) \/ result' = result
    BY DEF Next, Progress, Receive, Get, GetStatus, DeleteStatus, LockAndRecheck,
           ProbeDone, Do, Forget, Release, Follow, Store, CacheExpire, ProbeExpire,
           Reload, UpdateConfig, vars, callVars
  <1> QED
    BY <1>1, <1>2, <1>3 DEF Obtained

\* Which results belong to which labels is kept by every step.
LEMMA ResultStep ==
    ASSUME TypeOK, AnswerInv, [Next]_vars, NEW p \in Queries
    PROVE  /\ result'[p] # "none"
                => pc'[p] \in {"ending", "releasing", "store", "done"}
           /\ pc'[p] = "store" => result'[p] = "ok"
PROOF
  <1>1. /\ result[p] # "none"
             => pc[p] \in {"ending", "releasing", "store", "done"}
        /\ pc[p] = "store" => result[p] = "ok"
    BY DEF AnswerInv
  <1>2. ASSUME NEW q \in Queries, QueryDone(q)
        PROVE  /\ result'[p] # "none"
                    => pc'[p] \in {"ending", "releasing", "store", "done"}
               /\ pc'[p] = "store" => result'[p] = "ok"
    BY <1>1, <1>2 DEF QueryDone, Goto, TypeOK
  <1>3. ASSUME NEW q \in Queries, Forget(q) \/ Release(q) \/ Store(q)
        PROVE  /\ result'[p] # "none"
                    => pc'[p] \in {"ending", "releasing", "store", "done"}
               /\ pc'[p] = "store" => result'[p] = "ok"
    BY <1>1, <1>3
    DEF Forget, Release, Store, Goto, Return, TypeOK, callVars
  <1>4. ASSUME NEW q \in Queries,
               \/ Receive(q) \/ Get(q) \/ GetStatus(q) \/ DeleteStatus(q)
               \/ LockAndRecheck(q) \/ ProbeDone(q) \/ Do(q) \/ Follow(q)
        PROVE  /\ result'[p] # "none"
                    => pc'[p] \in {"ending", "releasing", "store", "done"}
               /\ pc'[p] = "store" => result'[p] = "ok"
    BY <1>1, <1>4
    DEF Receive, Get, GetStatus, DeleteStatus, LockAndRecheck, ProbeDone, Do,
        Follow, Goto, Return, Decide, TypeOK, callVars
  <1>5. CASE \/ \E k \in Keys : CacheExpire(k)
             \/ \E s \in Servers : ProbeExpire(s)
             \/ Reload \/ UpdateConfig \/ UNCHANGED vars
    BY <1>1, <1>5 DEF CacheExpire, ProbeExpire, Reload, UpdateConfig, vars, callVars
  <1> QED
    BY <1>2, <1>3, <1>4, <1>5 DEF Next, Progress

\* An answer is cached, and a call joined, only under the key it is for.
LEMMA KeyStep ==
    ASSUME TypeOK, AnswerInv, [Next]_vars
    PROVE  /\ \A k \in Keys : entries'[k] # None
                                => entries'[k] = entries[k]
                                   \/ Obtained(entries'[k], k)
           /\ \A k \in Keys : calls'[k] # None => KeyOf[calls'[k]] = k
           /\ \A q \in Queries :
                joined'[q] # None
                    => joined'[q] \in Queries /\ KeyOf[joined'[q]] = KeyOf[q]
PROOF
  <1>1. /\ \A k \in Keys : calls[k] # None => KeyOf[calls[k]] = k
        /\ \A q \in Queries :
             joined[q] # None
                 => joined[q] \in Queries /\ KeyOf[joined[q]] = KeyOf[q]
    BY DEF AnswerInv
  <1>2. ASSUME NEW k \in Keys, entries'[k] # None
        PROVE  entries'[k] = entries[k] \/ Obtained(entries'[k], k)
    <2>1. ASSUME NEW q \in Queries, Store(q)
          PROVE  entries'[k] = entries[k] \/ Obtained(entries'[k], k)
      BY <2>1, DnsAssumption DEF Store, AnswerInv, Obtained, TypeOK
    <2>2. ASSUME NEW l \in Keys, CacheExpire(l) PROVE entries'[k] = entries[k]
      BY <1>2, <2>2 DEF CacheExpire, TypeOK
    <2>3. CASE UpdateConfig
      BY <1>2, <2>3 DEF UpdateConfig
    <2>4. \/ \E q \in Queries : Store(q)
          \/ \E l \in Keys : CacheExpire(l)
          \/ UpdateConfig
          \/ entries' = entries
      BY DEF Next, Progress, Receive, Get, GetStatus, DeleteStatus, LockAndRecheck,
             ProbeDone, Do, QueryDone, Forget, Release, Follow, ProbeExpire, Reload,
             vars
    <2> QED
      BY <2>1, <2>2, <2>3, <2>4
  <1>3. /\ \A k \in Keys : calls'[k] # None => KeyOf[calls'[k]] = k
        /\ \A q \in Queries :
             joined'[q] # None
                 => joined'[q] \in Queries /\ KeyOf[joined'[q]] = KeyOf[q]
    <2>1. ASSUME NEW q \in Queries, Do(q)
          PROVE  /\ \A k \in Keys : calls'[k] # None => KeyOf[calls'[k]] = k
                 /\ \A r \in Queries :
                      joined'[r] # None
                          => joined'[r] \in Queries /\ KeyOf[joined'[r]] = KeyOf[r]
      BY <1>1, <2>1, DnsAssumption DEF Do, TypeOK
    <2>2. ASSUME NEW q \in Queries, Forget(q)
          PROVE  /\ \A k \in Keys : calls'[k] # None => KeyOf[calls'[k]] = k
                 /\ joined' = joined
      BY <1>1, <2>2, DnsAssumption DEF Forget, TypeOK
    <2>3. \/ \E q \in Queries : Do(q) \/ Forget(q)
          \/ UNCHANGED <<calls, joined>>
      BY DEF Next, Progress, Receive, Get, GetStatus, DeleteStatus, LockAndRecheck,
             ProbeDone, QueryDone, Release, Follow, Store, CacheExpire, ProbeExpire,
             Reload, UpdateConfig, vars, callVars
    <2> QED
      BY <1>1, <2>1, <2>2, <2>3
  <1> QED
    BY <1>2, <1>3

\* A reply a step adds fits the query it is for.
LEMMA ReplyStep ==
    ASSUME TypeOK, AnswerInv, [Next]_vars, NEW p \in Queries,
           reply'[p] # None, reply'[p].kind = "answer"
    PROVE  \/ reply'[p] = reply[p]
           \/ Obtained(reply'[p].from, KeyOf[p]) /\ reply'[p].id = p
PROOF
  <1>0. KeyOf[p] \in Keys
    BY DnsAssumption
  <1> DEFINE Fits == \/ reply'[p] = reply[p]
                     \/ Obtained(reply'[p].from, KeyOf[p]) /\ reply'[p].id = p
  <1>1. ASSUME NEW q \in Queries, NEW r, Return(q, r), r.kind # "answer"
        PROVE  Fits
    BY <1>1 DEF Return, TypeOK
  <1>2. ASSUME NEW q \in Queries, NEW f, Return(q, Answer(f, q)),
               Obtained(f, KeyOf[q])
        PROVE  Fits
    BY <1>2 DEF Return, Answer, TypeOK
  <1>3. ASSUME NEW q \in Queries, NEW st, Decide(q, st) PROVE Fits
    BY <1>1, <1>3 DEF Decide, Passthrough
  <1>4. ASSUME NEW q \in Queries, Receive(q) PROVE Fits
    BY <1>1, <1>4 DEF Receive, Passthrough, NXDomain
  <1>5. ASSUME NEW q \in Queries, Get(q) PROVE Fits
    <2>1. KeyOf[q] \in Keys
      BY DnsAssumption
    <2> QED
      BY <1>2, <1>5, <2>1 DEF Get, AnswerInv
  <1>6. ASSUME NEW q \in Queries, GetStatus(q) \/ LockAndRecheck(q)
        PROVE  Fits
    BY <1>3, <1>6 DEF GetStatus, LockAndRecheck
  <1>7. ASSUME NEW q \in Queries, ProbeDone(q) PROVE Fits
    BY <1>1, <1>3, <1>7 DEF ProbeDone, Dropped
  <1>8. ASSUME NEW q \in Queries, Release(q) PROVE Fits
    BY <1>1, <1>8 DEF Release, FailureReply, Dropped, Passthrough, ServFail
  <1>9. ASSUME NEW q \in Queries, Follow(q) PROVE Fits
    <2>1. joined[q] \in Queries /\ KeyOf[joined[q]] = KeyOf[q]
      BY <1>9, DnsAssumption DEF Follow, AnswerInv, TypeOK
    <2>2. CASE result[joined[q]] = "ok"
      BY <1>2, <1>9, <2>1, <2>2 DEF Follow, Obtained
    <2>3. CASE result[joined[q]] # "ok"
      BY <1>1, <1>9, <2>3 DEF Follow, FailureReply, Passthrough, ServFail
    <2> QED BY <2>2, <2>3
  <1>10. ASSUME NEW q \in Queries, Store(q) PROVE Fits
    BY <1>2, <1>10 DEF Store, AnswerInv, Obtained
  <1>11. ASSUME reply' = reply PROVE Fits
    BY <1>11
  <1>12. \/ \E q \in Queries :
              \/ Receive(q) \/ Get(q) \/ GetStatus(q) \/ LockAndRecheck(q)
              \/ ProbeDone(q) \/ Release(q) \/ Follow(q) \/ Store(q)
         \/ reply' = reply
    BY DEF Next, Progress, DeleteStatus, Do, QueryDone, Forget, CacheExpire,
           ProbeExpire, Reload, UpdateConfig, vars
  <1> QED
    BY <1>4, <1>5, <1>6, <1>7, <1>8, <1>9, <1>10, <1>11, <1>12

\* Answers stay under the key they were obtained for, wherever they are kept.
LEMMA AnswersKept == Spec => []AnswerInv
PROOF
  <1>1. Init => AnswerInv
    BY DEF Init, AnswerInv
  <1>2. TypeOK /\ AnswerInv /\ [Next]_vars => AnswerInv'
    <2> SUFFICES ASSUME TypeOK, AnswerInv, [Next]_vars PROVE AnswerInv'
      OBVIOUS
    <2>1. ASSUME NEW k \in Keys, entries'[k] # None
          PROVE  /\ entries'[k] \in Queries /\ KeyOf[entries'[k]] = k
                 /\ result'[entries'[k]] = "ok"
      <3>1. Obtained(entries'[k], k)
        BY <2>1, KeyStep DEF AnswerInv
      <3>2. PICK f \in Queries : f = entries'[k]
        BY <3>1 DEF Obtained
      <3>3. Obtained(f, k)'
        BY <3>1, <3>2, ObtainedLasts
      <3> QED
        BY <3>2, <3>3 DEF Obtained
    <2>2. ASSUME NEW q \in Queries, reply'[q] # None, reply'[q].kind = "answer"
          PROVE  /\ reply'[q].from \in Queries /\ KeyOf[reply'[q].from] = KeyOf[q]
                 /\ result'[reply'[q].from] = "ok" /\ reply'[q].id = q
      <3>1. Obtained(reply'[q].from, KeyOf[q]) /\ reply'[q].id = q
        BY <2>2, ReplyStep DEF AnswerInv
      <3>2. PICK f \in Queries : f = reply'[q].from
        BY <3>1 DEF Obtained
      <3>3. Obtained(f, KeyOf[q])'
        BY <3>1, <3>2, ObtainedLasts
      <3> QED
        BY <3>1, <3>2, <3>3 DEF Obtained
    <2>3. \A q \in Queries :
             /\ result'[q] # "none"
                  => pc'[q] \in {"ending", "releasing", "store", "done"}
             /\ pc'[q] = "store" => result'[q] = "ok"
      BY ResultStep
    <2> QED
      BY <2>1, <2>2, <2>3, KeyStep DEF AnswerInv, Obtained
  <1> QED
    BY <1>1, <1>2, DnsTypeCorrect, PTL DEF Spec

\* Every answer was obtained for the key of the query it answers, and carries
\* that query's ID, whether it was cached, shared or fetched.
THEOREM AnswersFit == Spec => []AnswerFits
PROOF
  <1>1. AnswerInv => AnswerFits
    BY DEF AnswerInv, AnswerFits, Obtained
  <1> QED
    BY <1>1, AnswersKept, PTL

-----------------------------------------------------------------------------
(* Probes.                                                                 *)

\* A probe is accounted for by a result that was forgotten, except the last
\* one, whose result is known or still to come.
ProbesAccounted ==
    \A s \in Servers :
        probes[s] <= forgotten[s]
                       + IF status[s] # "unknown" \/ mutex[s] # None THEN 1 ELSE 0

\* Every step keeps the probes accounted for.
LEMMA ProbeStep ==
    ASSUME TypeOK, ProbesAccounted, [Next]_vars
    PROVE  ProbesAccounted'
PROOF
  <1> SUFFICES ASSUME NEW t \in Servers
               PROVE  probes'[t] <= forgotten'[t]
                        + IF status'[t] # "unknown" \/ mutex'[t] # None THEN 1 ELSE 0
    BY DEF ProbesAccounted
  <1>1. /\ probes[t] <= forgotten[t]
             + IF status[t] # "unknown" \/ mutex[t] # None THEN 1 ELSE 0
        /\ probes[t] \in Nat /\ forgotten[t] \in Nat
    BY DEF ProbesAccounted, TypeOK
  <1> DEFINE Accounted ==
        probes'[t] <= forgotten'[t]
          + IF status'[t] # "unknown" \/ mutex'[t] # None THEN 1 ELSE 0
  <1>2. ASSUME NEW q \in Queries, DeleteStatus(q) PROVE Accounted
    BY <1>1, <1>2, DnsAssumption DEF DeleteStatus, Delete, TypeOK
  <1>3. ASSUME NEW q \in Queries, LockAndRecheck(q) PROVE Accounted
    <2> DEFINE s == ServerOf[KeyOf[q]]
    <2>1. s \in Servers
      BY DnsAssumption
    <2>2. CASE t # s
      BY <1>1, <1>3, <2>1, <2>2 DEF LockAndRecheck, Delete, TypeOK
    <2>3. CASE t = s /\ s \in stale
      BY <1>1, <1>3, <2>1, <2>3, DnsAssumption DEF LockAndRecheck, Delete, TypeOK
    <2>4. CASE t = s /\ s \notin stale
      BY <1>1, <1>3, <2>1, <2>4, DnsAssumption DEF LockAndRecheck, TypeOK
    <2> QED BY <2>2, <2>3, <2>4
  <1>4. ASSUME NEW q \in Queries, ProbeDone(q) PROVE Accounted
    BY <1>1, <1>4, DnsAssumption DEF ProbeDone, TypeOK
  <1>5. ASSUME UNCHANGED <<status, probes, forgotten, mutex>> PROVE Accounted
    BY <1>1, <1>5
  <1>6. \/ \E q \in Queries : DeleteStatus(q) \/ LockAndRecheck(q) \/ ProbeDone(q)
        \/ UNCHANGED <<status, probes, forgotten, mutex>>
    BY DEF Next, Progress, Receive, Get, GetStatus, Do, QueryDone, Forget, Release,
           Follow, Store, CacheExpire, ProbeExpire, Reload, UpdateConfig, vars,
           probeVars
  <1> QED
    BY <1>2, <1>3, <1>4, <1>5, <1>6

\* A server is probed at most once more than its results were forgotten,
\* however many queries find its status unknown at the same time.
THEOREM ProbesCoalesced == Spec => []ProbesAreCoalesced
PROOF
  <1>1. Init => ProbesAccounted
    BY DEF Init, ProbesAccounted
  <1>2. TypeOK /\ ProbesAccounted /\ [Next]_vars => ProbesAccounted'
    BY ProbeStep
  <1>3. TypeOK /\ ProbesAccounted => ProbesAreCoalesced
    BY DEF TypeOK, ProbesAccounted, ProbesAreCoalesced
  <1> QED
    BY <1>1, <1>2, <1>3, DnsTypeCorrect, PTL DEF Spec

-----------------------------------------------------------------------------
(* Fallback.                                                               *)

\* The labels of a query that has made no request and joined none.
BeforeCall == {"idle", "lookup", "check", "delete", "lock", "probing", "coalesce"}

\* A query that has not ended has no reply, and before the coalescing group it
\* has joined no call.
QueryHistory ==
    \A q \in Queries :
        /\ pc[q] # "done" => reply[q] = None
        /\ pc[q] \in BeforeCall => joined[q] = None

\* Whoever probes, and whatever is found unsupported, was probed.
ProbeHistory ==
    /\ \A q \in Queries : pc[q] = "probing" => probes[ServerOf[KeyOf[q]]] > 0
    /\ \A s \in Servers : status[s] = "unsupported" => probes[s] > 0

\* No step lowers the number of probes.
LEMMA ProbesGrow ==
    ASSUME TypeOK, [Next]_vars, NEW s \in Servers
    PROVE  probes'[s] >= probes[s] /\ probes[s] \in Nat /\ probes'[s] \in Nat
PROOF
  <1>1. probes[s] \in Nat
    BY DEF TypeOK
  <1>2. ASSUME NEW q \in Queries, LockAndRecheck(q)
        PROVE  probes'[s] >= probes[s] /\ probes'[s] \in Nat
    BY <1>1, <1>2, DnsAssumption DEF LockAndRecheck, TypeOK
  <1>3. (\E q \in Queries : LockAndRecheck(q)) \/ probes' = probes
    BY DEF Next, Progress, Receive, Get, GetStatus, DeleteStatus, ProbeDone, Do,
           QueryDone, Forget, Release, Follow, Store, CacheExpire, ProbeExpire, Reload,
           UpdateConfig, vars, probeVars
  <1> QED
    BY <1>1, <1>2, <1>3

\* Every step keeps the history of replies and joined calls.
LEMMA QueryHistoryStep ==
    ASSUME TypeOK, QueryHistory, [Next]_vars
    PROVE  QueryHistory'
PROOF
  <1> SUFFICES ASSUME NEW p \in Queries
               PROVE  /\ pc'[p] # "done" => reply'[p] = None
                      /\ pc'[p] \in BeforeCall => joined'[p] = None
    BY DEF QueryHistory
  <1>1. /\ pc[p] # "done" => reply[p] = None
        /\ pc[p] \in BeforeCall => joined[p] = None
    BY DEF QueryHistory
  <1> DEFINE Kept == /\ pc'[p] # "done" => reply'[p] = None
                     /\ pc'[p] \in BeforeCall => joined'[p] = None
  <1>2. ASSUME NEW q \in Queries, NEW r, Return(q, r), joined' = joined PROVE Kept
    BY <1>1, <1>2 DEF Return, TypeOK, BeforeCall
  <1>3. ASSUME NEW q \in Queries, NEW l \in PC, Goto(q, l), UNCHANGED <<joined, reply>>,
               pc[q] \in BeforeCall \/ l \notin BeforeCall, pc[q] # "done"
        PROVE  Kept
    BY <1>1, <1>3 DEF Goto, TypeOK
  <1>4. ASSUME NEW q \in Queries, NEW st, Decide(q, st), joined' = joined,
               pc[q] \in BeforeCall
        PROVE  Kept
    BY <1>2, <1>3, <1>4 DEF Decide, BeforeCall, PC
  <1>5. ASSUME NEW q \in Queries, Receive(q) PROVE Kept
    BY <1>2, <1>3, <1>5 DEF Receive, BeforeCall, PC, callVars
  <1>6. ASSUME NEW q \in Queries, Get(q) \/ GetStatus(q) \/ DeleteStatus(q)
        PROVE  Kept
    BY <1>2, <1>3, <1>4, <1>6
    DEF Get, GetStatus, DeleteStatus, BeforeCall, PC, callVars
  <1>7. ASSUME NEW q \in Queries, LockAndRecheck(q) \/ ProbeDone(q) PROVE Kept
    BY <1>2, <1>3, <1>4, <1>7 DEF LockAndRecheck, ProbeDone, BeforeCall, PC, callVars
  <1>8. ASSUME NEW q \in Queries, Do(q) PROVE Kept
    BY <1>1, <1>8 DEF Do, Goto, TypeOK, BeforeCall
  <1>9. ASSUME NEW q \in Queries,
               QueryDone(q) \/ Forget(q) \/ Release(q) \/ Follow(q) \/ Store(q)
        PROVE  Kept
    BY <1>2, <1>3, <1>9
    DEF QueryDone, Forget, Release, Follow, Store, BeforeCall, PC, callVars
  <1>10. CASE \/ \E k \in Keys : CacheExpire(k)
              \/ \E s \in Servers : ProbeExpire(s)
              \/ Reload \/ UpdateConfig \/ UNCHANGED vars
    BY <1>1, <1>10 DEF CacheExpire, ProbeExpire, Reload, UpdateConfig, vars, callVars
  <1> QED
    BY <1>5, <1>6, <1>7, <1>8, <1>9, <1>10 DEF Next, Progress

\* Every step keeps the history of probes.
LEMMA ProbeHistoryStep ==
    ASSUME TypeOK, ProbeHistory, [Next]_vars
    PROVE  ProbeHistory'
PROOF
  <1>1. ASSUME NEW p \in Queries, pc'[p] = "probing"
        PROVE  probes'[ServerOf[KeyOf[p]]] > 0
    <2>0. ServerOf[KeyOf[p]] \in Servers
      BY DnsAssumption
    <2>1. CASE pc[p] = "probing"
      BY <2>0, <2>1, ProbesGrow DEF ProbeHistory
    <2>2. CASE LockAndRecheck(p)
      BY <1>1, <2>0, <2>2 DEF LockAndRecheck, Decide, Goto, Return, TypeOK
    <2>3. pc[p] = "probing" \/ LockAndRecheck(p)
      BY <1>1 DEF Next, Progress, Receive, Get, GetStatus, DeleteStatus, LockAndRecheck,
         ProbeDone, Do, QueryDone, Forget, Release, Follow, Store, CacheExpire,
         ProbeExpire, Reload, UpdateConfig, vars, Goto, Return, Decide, TypeOK
    <2> QED BY <2>1, <2>2, <2>3
  <1>2. ASSUME NEW s \in Servers, status'[s] = "unsupported" PROVE probes'[s] > 0
    <2>1. CASE status[s] = "unsupported"
      BY <2>1, ProbesGrow DEF ProbeHistory
    <2>2. ASSUME NEW q \in Queries, ProbeDone(q), status[s] # "unsupported"
          PROVE  probes[s] > 0
      BY <1>2, <2>2, DnsAssumption DEF ProbeDone, ProbeHistory, TypeOK
    <2>3. ASSUME NEW q \in Queries, DeleteStatus(q) \/ LockAndRecheck(q)
          PROVE  status[s] = "unsupported"
      BY <1>2, <2>3, DnsAssumption DEF DeleteStatus, LockAndRecheck, Delete, TypeOK
    <2>4. \/ \E q \in Queries : ProbeDone(q) \/ DeleteStatus(q) \/ LockAndRecheck(q)
          \/ status' = status
      BY DEF Next, Progress, Receive, Get, GetStatus, Do, QueryDone, Forget, Release,
             Follow, Store, CacheExpire, ProbeExpire, Reload, UpdateConfig, vars,
             probeVars
    <2> QED
      BY <1>2, <2>1, <2>2, <2>3, <2>4, ProbesGrow
  <1> QED
    BY <1>1, <1>2 DEF ProbeHistory

\* A query that passes in plain text by this step was not in scope of DoH, has
\* the fallback, or met a server found unsupported before any request.
LEMMA FallbackStep ==
    ASSUME TypeOK, AnswerInv, QueryHistory, ProbeHistory, FallbackIsHeeded, [Next]_vars
    PROVE  FallbackIsHeeded'
PROOF
  <1> SUFFICES ASSUME NEW p \in Queries
               PROVE  /\ /\ reply'[p] = Passthrough
                         /\ snap'[p].doh /\ p \notin Unparseable /\ ~snap'[p].fallback
                         => /\ result'[p] = "none" /\ joined'[p] = None
                            /\ probes'[ServerOf[KeyOf[p]]] > 0
                      /\ reply'[p] = ServFail => ~snap'[p].fallback
    BY DEF FallbackIsHeeded
  <1> DEFINE t == ServerOf[KeyOf[p]]
             Quiet == result'[p] = "none" /\ joined'[p] = None /\ probes'[t] > 0
             Plain == snap'[p].doh /\ p \notin Unparseable /\ ~snap'[p].fallback
             Heeded == /\ reply'[p] = Passthrough /\ Plain => Quiet
                       /\ reply'[p] = ServFail => ~snap'[p].fallback
  <1>0. /\ t \in Servers
        /\ probes'[t] >= probes[t] /\ probes[t] \in Nat /\ probes'[t] \in Nat
        /\ None # Passthrough /\ None # ServFail /\ Passthrough # ServFail
    BY DnsAssumption, NoneAssumption, ProbesGrow DEF Reply, Passthrough, ServFail
  <1>1. /\ reply[p] = Passthrough /\ snap[p].doh /\ p \notin Unparseable /\ ~snap[p].fallback
             => result[p] = "none" /\ joined[p] = None /\ probes[t] > 0
        /\ reply[p] = ServFail => ~snap[p].fallback
        /\ pc[p] # "done" => reply[p] = None
        /\ pc[p] \in BeforeCall => joined[p] = None /\ result[p] = "none"
    BY DEF FallbackIsHeeded, QueryHistory, AnswerInv, BeforeCall, TypeOK
  <1>2. ASSUME reply'[p] = None PROVE Heeded
    BY <1>0, <1>2
  \* Nothing of a query that has ended changes.
  <1>3. ASSUME pc[p] = "done" PROVE Heeded
    <2>1. /\ reply'[p] = reply[p] /\ snap'[p] = snap[p]
          /\ result'[p] = result[p] /\ joined'[p] = joined[p]
      BY <1>3 DEF Next, Progress, Receive, Get, GetStatus, DeleteStatus, LockAndRecheck,
         ProbeDone, Do, QueryDone, Forget, Release, Follow, Store, CacheExpire,
         ProbeExpire, Reload, UpdateConfig, vars, callVars, Goto, Return, Decide, TypeOK
    <2> QED
      BY <1>0, <1>1, <2>1
  <1>4. CASE Receive(p)
    <2>1. reply'[p] # ServFail
      BY <1>0, <1>1, <1>4
      DEF Receive, Goto, Return, TypeOK, Passthrough, ServFail, NXDomain
    <2>2. ASSUME Plain PROVE reply'[p] # Passthrough
      <3>1. snap'[p] = cfg
        BY <1>4 DEF Receive, TypeOK
      <3> QED
        BY <1>0, <1>1, <1>4, <2>2, <3>1
        DEF Receive, Goto, Return, TypeOK, Passthrough, NXDomain
    <2> QED
      BY <2>1, <2>2
  <1>5. CASE Get(p) \/ Store(p)
    <2>1. reply'[p] # ServFail /\ reply'[p] # Passthrough
      BY <1>0, <1>1, <1>5
      DEF Get, Store, Goto, Return, TypeOK, Answer, Passthrough, ServFail
    <2> QED
      BY <2>1
  \* A server known to be unsupported was probed, by this query or another.
  <1>6. ASSUME pc[p] \in BeforeCall, NEW st, Decide(p, st), UNCHANGED <<result, joined>>,
               st # "supported" => probes[t] > 0
        PROVE  Heeded
    <2>1. reply'[p] = None \/ (st # "supported" /\ reply'[p] = Passthrough)
      BY <1>1, <1>6 DEF Decide, Goto, Return, TypeOK, BeforeCall
    <2>2. CASE reply'[p] = None
      BY <2>2, <1>2
    <2>3. CASE st # "supported" /\ reply'[p] = Passthrough
      BY <1>0, <1>1, <1>6, <2>3
    <2> QED
      BY <2>1, <2>2, <2>3
  <1>7. CASE GetStatus(p)
    <2>1. pc[p] = "check" /\ UNCHANGED <<result, joined>>
      BY <1>7 DEF GetStatus, callVars
    <2>2. CASE UNCHANGED reply
      BY <1>1, <1>2, <2>1, <2>2 DEF BeforeCall
    <2>3. CASE status[t] # "unknown" /\ Decide(p, status[t])
      <3>1. status[t] # "supported" => probes[t] > 0
        BY <1>0, <2>3 DEF ProbeHistory, TypeOK
      <3> QED
        BY <1>6, <2>1, <2>3, <3>1 DEF BeforeCall
    <2> QED
      BY <1>7, <2>2, <2>3 DEF GetStatus
  <1>8. CASE LockAndRecheck(p)
    <2>1. pc[p] = "lock" /\ UNCHANGED <<result, joined>>
      BY <1>8 DEF LockAndRecheck, callVars
    <2>2. CASE UNCHANGED reply
      BY <1>1, <1>2, <2>1, <2>2 DEF BeforeCall
    <2>3. CASE status'[t] # "unknown" /\ Decide(p, status[t])
      <3>1. t \notin stale /\ status' = status
        BY <1>0, <1>8, <2>3 DEF LockAndRecheck, Delete, TypeOK
      <3>2. status[t] # "supported" => probes[t] > 0
        BY <1>0, <2>3, <3>1 DEF ProbeHistory, TypeOK
      <3> QED
        BY <1>6, <2>1, <2>3, <3>2 DEF BeforeCall
    <2> QED
      BY <1>8, <2>2, <2>3 DEF LockAndRecheck
  <1>9. CASE ProbeDone(p)
    <2>1. pc[p] = "probing" /\ UNCHANGED <<result, joined>> /\ probes[t] > 0
      BY <1>9 DEF ProbeDone, ProbeHistory, callVars
    <2>2. ASSUME NEW st, Decide(p, st) PROVE Heeded
      BY <1>6, <2>1, <2>2 DEF BeforeCall
    <2>3. CASE Return(p, Dropped)
      <3>1. reply'[p] = Dropped
        BY <2>3 DEF Return, TypeOK
      <3> QED
        BY <3>1 DEF Dropped, Passthrough, ServFail
    <2> QED
      BY <1>9, <2>2, <2>3 DEF ProbeDone
  \* A failed request ends the way the query's own configuration says.
  <1>10. ASSUME snap' = snap, Return(p, FailureReply(p)) PROVE Heeded
    <2>1. reply'[p] = FailureReply(p) /\ snap'[p] = snap[p]
      BY <1>10 DEF Return, TypeOK
    <2> QED
      BY <1>0, <2>1 DEF FailureReply
  <1>11. CASE Release(p)
    <2>1. CASE Return(p, Dropped)
      <3>1. reply'[p] = Dropped
        BY <2>1 DEF Return, TypeOK
      <3> QED
        BY <3>1 DEF Dropped, Passthrough, ServFail
    <2>2. CASE UNCHANGED reply
      BY <1>1, <1>2, <1>11, <2>2 DEF Release
    <2> QED
      BY <1>10, <1>11, <2>1, <2>2 DEF Release
  <1>12. CASE Follow(p)
    <2>1. CASE Return(p, Answer(joined[p], p))
      <3>1. reply'[p] = Answer(joined[p], p)
        BY <2>1 DEF Return, TypeOK
      <3> QED
        BY <3>1 DEF Answer, Passthrough, ServFail
    <2> QED
      BY <1>10, <1>12, <2>1 DEF Follow
  <1>13. CASE reply'[p] = reply[p] /\ pc[p] # "done"
    BY <1>1, <1>2, <1>13
  <1>14. \/ reply'[p] = reply[p]
         \/ Receive(p) \/ Get(p) \/ GetStatus(p) \/ LockAndRecheck(p)
         \/ ProbeDone(p) \/ Release(p) \/ Follow(p) \/ Store(p)
    BY DEF Next, Progress, Receive, Get, GetStatus, DeleteStatus, LockAndRecheck,
       ProbeDone, Do, QueryDone, Forget, Release, Follow, Store, CacheExpire,
       ProbeExpire, Reload, UpdateConfig, vars, Goto, Return, Decide, TypeOK
  <1> QED
    BY <1>3, <1>4, <1>5, <1>7, <1>8, <1>9, <1>11, <1>12, <1>13, <1>14

\* A failed DoH query is answered as the configuration it began with says, for
\* a follower too and whatever is reloaded meanwhile; without the fallback a
\* query leaves in plain text only when its server had been probed, and before
\* any DoH request was made for it.
THEOREM FallbackHeeded == Spec => []FallbackIsHeeded
PROOF
  <1>1. Init => QueryHistory /\ ProbeHistory /\ FallbackIsHeeded
    <2> SUFFICES ASSUME Init PROVE QueryHistory /\ ProbeHistory /\ FallbackIsHeeded
      OBVIOUS
    <2>1. QueryHistory /\ ProbeHistory
      BY DEF Init, QueryHistory, ProbeHistory
    <2>2. \A q \in Queries : reply[q] # Passthrough /\ reply[q] # ServFail
      BY NoneAssumption DEF Init, Reply
    <2> QED
      BY <2>1, <2>2 DEF FallbackIsHeeded
  <1>2. /\ TypeOK /\ QueryHistory /\ [Next]_vars => QueryHistory'
        /\ TypeOK /\ ProbeHistory /\ [Next]_vars => ProbeHistory'
        /\ TypeOK /\ AnswerInv /\ QueryHistory /\ ProbeHistory /\ FallbackIsHeeded
              /\ [Next]_vars => FallbackIsHeeded'
    BY QueryHistoryStep, ProbeHistoryStep, FallbackStep
  <1> QED
    BY <1>1, <1>2, DnsTypeCorrect, AnswersKept, PTL DEF Spec

=============================================================================
