----------------------------- MODULE RelayProofs -----------------------------
(***************************************************************************)
(* Proofs about the relay, for every idle timeout and every amount of      *)
(* data: its variables keep their types, no goroutine spins on an expired  *)
(* deadline, a direction waits only so long without activity, no session   *)
(* in use is cut, and the relay implements Pipe.                           *)
(***************************************************************************)
EXTENDS Relay, TLAPS

-----------------------------------------------------------------------------
(* Types.                                                                  *)

\* A chunk a peer has sent is in the inbox, in the hands of the goroutine
\* between its read and its write, delivered, or lost: never duplicated.
NoDuplication ==
    \A s \in Sides :
        inbox[s] + got[Other(s)] + (IF pc[s] = "write" THEN 1 ELSE 0) <= sent[s]

\* The deadlines and timestamps of the code are natural numbers.
LEMMA IntervalType ==
    ASSUME TypeOK
    PROVE  /\ idle \in Nat
           /\ deadlineRefreshInterval \in Nat
           /\ drainTimeout \in Nat
           /\ SinceLimit \in Nat /\ AgeLimit \in Nat
PROOF
  <1>1. idle \in Nat
    BY TimesAssumption DEF TypeOK
  <1>2. idle \div 4 \in Nat
    BY <1>1, SMT
  <1>3. deadlineRefreshInterval \in Nat
    BY <1>1, <1>2, TimesAssumption DEF deadlineRefreshInterval
  <1>4. drainTimeout \in Nat
    BY <1>1, TimesAssumption DEF drainTimeout
  <1> QED
    BY <1>1, <1>3, <1>4, TimesAssumption DEF SinceLimit, AgeLimit

\* A refresh keeps the deadlines' types.
LEMMA UpdateType ==
    ASSUME TypeOK, NEW s \in Sides, updateDeadline(s)
    PROVE  /\ remaining' \in [Sides -> Nat \cup {NoDeadline}]
           /\ age' \in [Sides -> 0..AgeLimit]
BY IntervalType DEF TypeOK, updateDeadline

\* A step of a goroutine keeps the types and duplicates nothing.
LEMMA StepType ==
    ASSUME TypeOK, NoDuplication, NEW s \in Sides, Step(s)
    PROVE  TypeOK' /\ NoDuplication'
PROOF
  <1> USE IntervalType, TimesAssumption
  <1>0. Other(s) \in Sides /\ Other(s) # s /\ Other(Other(s)) = s
        /\ \A t \in Sides : t = s \/ t = Other(s)
    BY DEF Sides, Other
  <1>i. idle' = idle => /\ SinceLimit' = SinceLimit
                        /\ drainTimeout' = drainTimeout
    BY DEF SinceLimit, drainTimeout, isPermanent
  <1>1. CASE ReadData(s)
    <2>1. /\ inbox[s] - 1 \in 0..MaxChunks
          /\ 0 \in 0..SinceLimit
      BY <1>1 DEF ReadData, TypeOK
    <2>2. TypeOK'
      BY <1>1, <1>i, <2>1, UpdateType DEF ReadData, TypeOK, peerVars
    <2>3. NoDuplication'
      BY <1>0, <1>1 DEF ReadData, TypeOK, peerVars, NoDuplication
    <2> QED BY <2>2, <2>3
  <1>2. CASE WriteDone(s)
    <2>1. got[Other(s)] + 1 \in 0..MaxChunks
      BY <1>0, <1>2 DEF WriteDone, TypeOK, NoDuplication
    <2>2. TypeOK'
      BY <1>0, <1>2, <1>i, <2>1 DEF WriteDone, TypeOK, peerVars, timeVars
    <2>3. NoDuplication'
      BY <1>0, <1>2 DEF WriteDone, TypeOK, peerVars, timeVars, NoDuplication
    <2> QED BY <2>2, <2>3
  <1>3. CASE WriteError(s)
    <2>1. TypeOK'
      BY <1>3, <1>i DEF WriteError, CloseBoth, TypeOK, peerVars, timeVars
    <2>2. NoDuplication'
      BY <1>0, <1>3 DEF WriteError, TypeOK, peerVars, timeVars, NoDuplication
    <2> QED BY <2>1, <2>2
  <1>4. CASE ReadEOF(s)
    <2>1. TypeOK'
      BY <1>0, <1>4, <1>i DEF ReadEOF, TypeOK, peerVars
    <2>2. NoDuplication'
      BY <1>0, <1>4 DEF ReadEOF, TypeOK, peerVars, NoDuplication
    <2> QED BY <2>1, <2>2
  <1>5. CASE ReadError(s)
    <2>1. TypeOK'
      BY <1>5, <1>i DEF ReadError, CloseBoth, TypeOK, peerVars, timeVars
    <2>2. NoDuplication'
      BY <1>0, <1>5 DEF ReadError, TypeOK, peerVars, timeVars, NoDuplication
    <2> QED BY <2>1, <2>2
  <1>6. CASE ReadTimeout(s)
    <2>1. TypeOK'
      BY <1>6, <1>i DEF ReadTimeout, TypeOK, peerVars, timeVars
    <2>2. NoDuplication'
      BY <1>0, <1>6 DEF ReadTimeout, TypeOK, peerVars, timeVars, NoDuplication
    <2> QED BY <2>1, <2>2
  <1>7. CASE HandleTimeout(s)
    <2>1. pc' \in [Sides -> {"read", "expired", "write", "done"}]
      BY <1>7 DEF HandleTimeout, TypeOK
    <2>2. /\ remaining' \in [Sides -> Nat \cup {NoDeadline}]
          /\ age' \in [Sides -> 0..AgeLimit]
      BY <1>7, UpdateType DEF HandleTimeout, TypeOK
    <2>3. TypeOK'
      BY <1>0, <1>7, <1>i, <2>1, <2>2 DEF HandleTimeout, TypeOK, peerVars
    <2>4. NoDuplication'
      BY <1>0, <1>7 DEF HandleTimeout, TypeOK, peerVars, NoDuplication
    <2> QED BY <2>3, <2>4
  <1> QED
    BY <1>1, <1>2, <1>3, <1>4, <1>5, <1>6, <1>7 DEF Step

\* So does a step of a peer.
LEMMA PeerType ==
    ASSUME TypeOK, NoDuplication, NEW s \in Sides, PeerStep(s)
    PROVE  TypeOK' /\ NoDuplication'
PROOF
  <1> USE IntervalType, TimesAssumption
  <1>0. Other(s) \in Sides /\ Other(s) # s /\ Other(Other(s)) = s
        /\ \A t \in Sides : t = s \/ t = Other(s)
    BY DEF Sides, Other
  <1>i. idle' = idle => SinceLimit' = SinceLimit
    BY DEF SinceLimit, drainTimeout, isPermanent
  <1>1. CASE PeerSend(s)
    <2>1. /\ sent[s] + 1 \in 0..MaxChunks
          /\ inbox[s] + 1 \in 0..MaxChunks
      BY <1>0, <1>1 DEF PeerSend, TypeOK, NoDuplication
    <2>2. TypeOK'
      BY <1>1, <1>i, <2>1 DEF PeerSend, TypeOK, timeVars
    <2>3. NoDuplication'
      BY <1>0, <1>1 DEF PeerSend, TypeOK, timeVars, NoDuplication
    <2> QED BY <2>2, <2>3
  <1>2. CASE PeerEnd(s)
    <2>1. TypeOK'
      BY <1>2, <1>i DEF PeerEnd, TypeOK, timeVars
    <2>2. NoDuplication'
      BY <1>2 DEF PeerEnd, NoDuplication
    <2> QED BY <2>1, <2>2
  <1>3. CASE PeerStall(s) \/ PeerResume(s)
    <2>1. TypeOK'
      BY <1>3, <1>i DEF PeerStall, PeerResume, TypeOK, timeVars
    <2>2. NoDuplication'
      BY <1>3 DEF PeerStall, PeerResume, NoDuplication
    <2> QED BY <2>1, <2>2
  <1> QED
    BY <1>1, <1>2, <1>3 DEF PeerStep

\* The relay's variables always have their types, and no chunk is delivered
\* that was not sent.
THEOREM RelayTypeCorrect == Spec => []TypeOK
PROOF
  <1>1. Init => TypeOK /\ NoDuplication
    <2> SUFFICES ASSUME Init PROVE TypeOK /\ NoDuplication
      OBVIOUS
    <2>1. idle \in Nat /\ drainTimeout \in Nat
      BY TimesAssumption DEF Init, drainTimeout
    <2>2. /\ 0 \in 0..MaxChunks /\ 0 \in 0..AgeLimit /\ 0 \in 0..SinceLimit
          /\ idle \in Nat \cup {NoDeadline}
      BY <2>1, TimesAssumption DEF SinceLimit, AgeLimit
    <2>3. remaining \in [Sides -> Nat \cup {NoDeadline}]
      BY <2>1 DEF Init
    <2>4. TypeOK
      BY <2>2, <2>3, Zenon DEF Init, TypeOK
    <2>5. NoDuplication
      BY DEF Init, NoDuplication, Sides, Other
    <2> QED BY <2>4, <2>5
  <1>2. TypeOK /\ NoDuplication /\ [Next]_vars => (TypeOK /\ NoDuplication)'
    <2> SUFFICES ASSUME TypeOK, NoDuplication, [Next]_vars
                 PROVE  TypeOK' /\ NoDuplication'
      OBVIOUS
    <2>1. CASE \E s \in Sides : Step(s) \/ PeerStep(s)
      BY <2>1, StepType, PeerType
    <2>2. CASE Finish
      <3>1. idle' = idle => SinceLimit' = SinceLimit
        BY DEF SinceLimit, drainTimeout, isPermanent
      <3>2. TypeOK'
        BY <2>2, <3>1 DEF Finish, CloseBoth, TypeOK, peerVars, timeVars
      <3>3. NoDuplication'
        BY <2>2 DEF Finish, NoDuplication, peerVars, timeVars
      <3> QED BY <3>2, <3>3
    <2>3. CASE Tick
      <3>1. SinceLimit' = SinceLimit
        BY <2>3 DEF Tick, SinceLimit, drainTimeout, isPermanent
      <3>2. remaining' \in [Sides -> Nat \cup {NoDeadline}]
        BY <2>3 DEF Tick, TypeOK, Sooner, NoDeadline
      <3>3. age' \in [Sides -> 0..AgeLimit] /\ since' \in 0..SinceLimit
        BY <2>3, IntervalType DEF Tick, TypeOK, Later
      <3>4. quiet' \in BOOLEAN
        BY <2>3 DEF Tick
      <3>5. TypeOK'
        BY <2>3, <3>1, <3>2, <3>3, <3>4 DEF Tick, TypeOK, peerVars
      <3>6. NoDuplication'
        BY <2>3 DEF Tick, NoDuplication, peerVars
      <3> QED BY <3>5, <3>6
    <2>4. CASE UNCHANGED vars
      <3>1. TypeOK'
        BY <2>4 DEF vars, TypeOK, SinceLimit, drainTimeout, isPermanent
      <3>2. NoDuplication'
        BY <2>4 DEF vars, NoDuplication
      <3> QED BY <3>1, <3>2
    <2> QED
      BY <2>1, <2>2, <2>3, <2>4 DEF Next, Returned
  <1> QED
    BY <1>1, <1>2, PTL DEF Spec

-----------------------------------------------------------------------------
(* Deadlines.                                                              *)

\* A session with an idle timeout always has read deadlines, and the time left
\* of one plus the age of the direction's own last refresh exceeds the refresh
\* interval: by the time it expires, a refresh is due.  The drain deadline the
\* other direction sets respects this because it exceeds the interval too.
RefreshIsDue ==
    idle > 0 =>
        \A s \in Sides :
            /\ remaining[s] \in Nat
            /\ remaining[s] + age[s] > deadlineRefreshInterval
            /\ pc[s] = "expired" => age[s] > deadlineRefreshInterval

\* A direction that has not ended expires at most twice the idle timeout
\* after the last activity, plus a drain if the other direction has ended.
Patience(s) == 2 * idle + IF pc[Other(s)] = "done" THEN drainTimeout ELSE 0

DeadlineIsNear ==
    idle > 0 =>
        \A s \in Sides :
            pc[s] # "done" /\ remaining[s] > 0
                => since + remaining[s] <= Patience(s)

\* The refresh interval is shorter than every deadline the code sets.
LEMMA IntervalBound ==
    ASSUME TypeOK, idle > 0
    PROVE  /\ deadlineRefreshInterval < idle
           /\ deadlineRefreshInterval < drainTimeout
           /\ deadlineRefreshInterval < AgeLimit
PROOF
  <1>1. idle \in Nat
    BY IntervalType
  <1>2. idle \div 4 \in Nat /\ idle \div 4 < idle
    BY <1>1, SMT
  <1> QED
    BY <1>1, <1>2, TimesAssumption
    DEF deadlineRefreshInterval, drainTimeout, isPermanent, AgeLimit

\* What a refresh does to the deadline of its direction.
LEMMA UpdateEffect ==
    ASSUME TypeOK, RefreshIsDue, idle > 0, NEW s \in Sides, updateDeadline(s)
    PROVE  /\ \A t \in Sides \ {s} : /\ remaining'[t] = remaining[t]
                                     /\ age'[t] = age[t]
           /\ \/ age[s] > deadlineRefreshInterval
                 /\ remaining'[s] = idle /\ age'[s] = 0
              \/ age[s] <= deadlineRefreshInterval
                 /\ remaining'[s] = remaining[s] /\ age'[s] = age[s]
BY IntervalType DEF TypeOK, updateDeadline, isPermanent

\* Every step keeps a refresh due before a deadline expires.
LEMMA RefreshStep ==
    ASSUME TypeOK, TypeOK', RefreshIsDue, [Next]_vars
    PROVE  RefreshIsDue'
PROOF
  <1>1. idle' = idle
    BY DEF Next, vars, Step, PeerStep, ReadData, WriteDone, WriteError, ReadEOF,
           ReadError, ReadTimeout, HandleTimeout, PeerSend, PeerEnd, PeerStall,
           PeerResume, Finish, Tick, Returned
  <1>2. /\ deadlineRefreshInterval' = deadlineRefreshInterval
        /\ drainTimeout' = drainTimeout
    BY <1>1 DEF deadlineRefreshInterval, drainTimeout, isPermanent
  <1> SUFFICES ASSUME idle > 0, NEW t \in Sides
               PROVE  /\ remaining'[t] \in Nat
                      /\ remaining'[t] + age'[t] > deadlineRefreshInterval
                      /\ pc'[t] = "expired" => age'[t] > deadlineRefreshInterval
    BY <1>1, <1>2 DEF RefreshIsDue
  <1>3. /\ remaining[t] \in Nat
        /\ remaining[t] + age[t] > deadlineRefreshInterval
        /\ pc[t] = "expired" => age[t] > deadlineRefreshInterval
    BY DEF RefreshIsDue
  <1>4. /\ idle \in Nat /\ drainTimeout \in Nat
        /\ deadlineRefreshInterval \in Nat
        /\ age[t] \in Nat
        /\ deadlineRefreshInterval < idle
        /\ deadlineRefreshInterval < drainTimeout
        /\ deadlineRefreshInterval < AgeLimit
    BY IntervalType, IntervalBound DEF TypeOK
  <1>5. ASSUME NEW s \in Sides, ReadData(s) PROVE
            /\ remaining'[t] \in Nat
            /\ remaining'[t] + age'[t] > deadlineRefreshInterval
            /\ pc'[t] = "expired" => age'[t] > deadlineRefreshInterval
    BY <1>3, <1>4, <1>5, UpdateEffect DEF ReadData, TypeOK
  <1>6. ASSUME NEW s \in Sides, ReadEOF(s) PROVE
            /\ remaining'[t] \in Nat
            /\ remaining'[t] + age'[t] > deadlineRefreshInterval
            /\ pc'[t] = "expired" => age'[t] > deadlineRefreshInterval
    BY <1>3, <1>4, <1>6 DEF ReadEOF, TypeOK
  <1>7. ASSUME NEW s \in Sides, ReadTimeout(s) PROVE
            /\ remaining'[t] \in Nat
            /\ remaining'[t] + age'[t] > deadlineRefreshInterval
            /\ pc'[t] = "expired" => age'[t] > deadlineRefreshInterval
    BY <1>3, <1>4, <1>7 DEF ReadTimeout, TypeOK, timeVars
  <1>8. ASSUME NEW s \in Sides, HandleTimeout(s) PROVE
            /\ remaining'[t] \in Nat
            /\ remaining'[t] + age'[t] > deadlineRefreshInterval
            /\ pc'[t] = "expired" => age'[t] > deadlineRefreshInterval
    BY <1>3, <1>4, <1>8, UpdateEffect DEF HandleTimeout, TypeOK
  <1>9. ASSUME NEW s \in Sides,
               WriteDone(s) \/ WriteError(s) \/ ReadError(s) \/ PeerStep(s)
        PROVE  /\ remaining'[t] \in Nat
               /\ remaining'[t] + age'[t] > deadlineRefreshInterval
               /\ pc'[t] = "expired" => age'[t] > deadlineRefreshInterval
    BY <1>3, <1>4, <1>9
    DEF WriteDone, WriteError, ReadError, PeerStep, PeerSend, PeerEnd, PeerStall,
        PeerResume, TypeOK, timeVars
  <1>10. CASE Tick
    BY <1>3, <1>4, <1>10, IntervalType DEF Tick, Sooner, Later, TypeOK
  <1>11. CASE Finish \/ UNCHANGED vars
    BY <1>3, <1>11 DEF Finish, vars, timeVars
  <1> QED
    BY <1>5, <1>6, <1>7, <1>8, <1>9, <1>10, <1>11 DEF Next, Step, Returned

\* A goroutine whose read has timed out while the session is in use re-arms
\* its deadline, so that its next read waits again.
THEOREM NeverSpins == Spec => []NoSpin
PROOF
  <1>1. TypeOK /\ Init => RefreshIsDue
    <2> SUFFICES ASSUME TypeOK, Init, idle > 0, NEW s \in Sides
                 PROVE  /\ remaining[s] \in Nat
                        /\ remaining[s] + age[s] > deadlineRefreshInterval
                        /\ pc[s] = "expired" => age[s] > deadlineRefreshInterval
      BY DEF RefreshIsDue
    <2> QED
      BY IntervalType, IntervalBound DEF Init, isPermanent
  <1>2. TypeOK /\ TypeOK' /\ RefreshIsDue /\ [Next]_vars => RefreshIsDue'
    BY RefreshStep
  <1>3. TypeOK /\ RefreshIsDue => NoSpin
    BY IntervalType DEF RefreshIsDue, NoSpin, TypeOK
  <1> QED
    BY <1>1, <1>2, <1>3, RelayTypeCorrect, PTL DEF Spec

\* Every step keeps the deadlines near the last activity.
LEMMA NearStep ==
    ASSUME TypeOK, TypeOK', RefreshIsDue, DeadlineIsNear, [Next]_vars
    PROVE  DeadlineIsNear'
PROOF
  <1>1. idle' = idle
    BY DEF Next, vars, Step, PeerStep, ReadData, WriteDone, WriteError, ReadEOF,
           ReadError, ReadTimeout, HandleTimeout, PeerSend, PeerEnd, PeerStall,
           PeerResume, Finish, Tick, Returned
  <1>2. drainTimeout' = drainTimeout
    BY <1>1 DEF drainTimeout, isPermanent
  <1> DEFINE Due(t) == 2 * idle + IF pc'[Other(t)] = "done" THEN drainTimeout
                                                            ELSE 0
  <1> SUFFICES ASSUME idle > 0, NEW t \in Sides, pc'[t] # "done",
                      remaining'[t] > 0
               PROVE  since' + remaining'[t] <= Due(t)
    BY <1>1, <1>2 DEF DeadlineIsNear, Patience
  <1>3. pc[t] # "done" /\ remaining[t] > 0 => since + remaining[t] <= Patience(t)
    BY DEF DeadlineIsNear
  <1>4. /\ idle \in Nat /\ drainTimeout \in Nat
        /\ since \in Nat /\ remaining[t] \in Nat /\ remaining'[t] \in Int
        /\ Other(t) \in Sides /\ Other(t) # t /\ Other(Other(t)) = t
        /\ \A s \in Sides : s = t \/ s = Other(t)
    BY IntervalType DEF TypeOK, RefreshIsDue, Sides, Other, NoDeadline
  <1>5. ASSUME pc[t] # "done",
               pc[Other(t)] = "done" => pc'[Other(t)] = "done",
               remaining'[t] = remaining[t],
               since' \in Nat, since' <= since
        PROVE  since' + remaining'[t] <= Due(t)
    <2>1. Patience(t) <= Due(t) /\ Patience(t) \in Nat /\ Due(t) \in Nat
      BY <1>4, <1>5 DEF Patience
    <2>2. since + remaining[t] <= Patience(t)
      BY <1>3, <1>5
    <2> QED
      BY <1>4, <1>5, <2>1, <2>2
  <1>6. ASSUME NEW s \in Sides, ReadData(s)
        PROVE  since' + remaining'[t] <= Due(t)
    <2>1. CASE remaining'[t] = remaining[t]
      BY <1>4, <1>5, <1>6, <2>1 DEF ReadData, TypeOK
    <2>2. CASE remaining'[t] = idle
      BY <1>4, <1>6, <2>2 DEF ReadData
    <2> QED
      BY <1>6, <2>1, <2>2, UpdateEffect DEF ReadData
  <1>7. ASSUME NEW s \in Sides, ReadEOF(s)
        PROVE  since' + remaining'[t] <= Due(t)
    <2>1. s = Other(t) /\ t = Other(s)
      BY <1>4, <1>7 DEF ReadEOF, TypeOK
    <2>2. /\ pc[s] # "done" /\ pc[t] # "done" /\ pc'[s] = "done"
          /\ since' = since
      BY <1>4, <1>7, <2>1 DEF ReadEOF, TypeOK
    <2>3. since + remaining[s] <= 2 * idle /\ remaining[s] \in Nat
      BY <1>4, <1>7, <2>1, <2>2
      DEF ReadEOF, DeadlineIsNear, RefreshIsDue, Patience
    <2>4. remaining'[t] = drainTimeout \/ remaining'[t] = remaining[t]
      BY <1>7, <2>1 DEF ReadEOF, TypeOK
    <2> QED
      BY <1>4, <1>5, <2>1, <2>2, <2>3, <2>4
  <1>8. ASSUME NEW s \in Sides, HandleTimeout(s)
        PROVE  since' + remaining'[t] <= Due(t)
    <2>1. /\ pc[t] # "done" /\ since' = since
          /\ pc[Other(t)] = "done" => pc'[Other(t)] = "done"
      BY <1>4, <1>8 DEF HandleTimeout, TypeOK
    <2>2. CASE remaining'[t] = remaining[t]
      BY <1>4, <1>5, <2>1, <2>2
    <2>3. CASE remaining'[t] = idle /\ since < idle
      BY <1>4, <2>1, <2>3
    <2> QED
      BY <1>8, <2>2, <2>3, UpdateEffect DEF HandleTimeout
  <1>9. ASSUME NEW s \in Sides,
               \/ WriteDone(s) \/ WriteError(s) \/ ReadError(s)
               \/ ReadTimeout(s) \/ PeerStep(s)
        PROVE  since' + remaining'[t] <= Due(t)
    <2>1. /\ remaining'[t] = remaining[t] /\ since' = since
          /\ pc[t] # "done"
          /\ pc[Other(t)] = "done" => pc'[Other(t)] = "done"
      BY <1>4, <1>9
      DEF WriteDone, WriteError, ReadError, ReadTimeout, PeerStep, PeerSend,
          PeerEnd, PeerStall, PeerResume, TypeOK, timeVars
    <2> QED
      BY <1>4, <1>5, <2>1
  <1>10. CASE Tick
    <2>0. SinceLimit \in Nat /\ since \in 0..SinceLimit
      BY IntervalType DEF TypeOK
    <2>1. /\ pc' = pc
          /\ remaining'[t] = remaining[t] - 1 /\ remaining[t] > 0
          /\ since' <= since + 1 /\ since' \in Nat
      BY <1>4, <1>10, <2>0 DEF Tick, Sooner, Later
    <2>2. Due(t) = Patience(t) /\ Due(t) \in Nat
      BY <1>4, <2>1 DEF Patience
    <2>3. since + remaining[t] <= Due(t)
      BY <1>3, <2>1, <2>2
    <2> QED
      BY <1>4, <2>1, <2>2, <2>3
  <1>11. CASE Finish \/ UNCHANGED vars
    BY <1>4, <1>5, <1>11 DEF Finish, vars, timeVars
  <1> QED
    BY <1>6, <1>7, <1>8, <1>9, <1>10, <1>11 DEF Next, Step, Returned

\* A direction of a session with an idle timeout waits for data at most twice
\* the timeout and a drain after the last activity of either direction.
THEOREM CutIsBounded == Spec => []IdleCutBound
PROOF
  <1>1. TypeOK /\ Init => RefreshIsDue /\ DeadlineIsNear
    <2> SUFFICES ASSUME TypeOK, Init, idle > 0
                 PROVE  RefreshIsDue /\ DeadlineIsNear
      BY DEF RefreshIsDue, DeadlineIsNear
    <2>1. \A s \in Sides : /\ remaining[s] = idle /\ age[s] = 0 /\ since = 0
                           /\ pc[s] = "read" /\ pc[Other(s)] = "read"
      BY DEF Init, isPermanent, Sides, Other
    <2>2. /\ idle \in Nat /\ drainTimeout \in Nat
          /\ deadlineRefreshInterval \in Nat
          /\ deadlineRefreshInterval < idle
      BY IntervalType, IntervalBound
    <2>3. RefreshIsDue
      BY <2>1, <2>2 DEF RefreshIsDue
    <2>4. DeadlineIsNear
      BY <2>1, <2>2 DEF DeadlineIsNear, Patience
    <2> QED BY <2>3, <2>4
  <1>2. /\ TypeOK /\ TypeOK' /\ RefreshIsDue /\ DeadlineIsNear /\ [Next]_vars
        => RefreshIsDue' /\ DeadlineIsNear'
    BY RefreshStep, NearStep
  <1>3. TypeOK /\ DeadlineIsNear => IdleCutBound
    <2> SUFFICES ASSUME TypeOK, DeadlineIsNear, NEW s \in Sides, ~isPermanent,
                        pc[s] = "read", remaining[s] > 0
                 PROVE  since <= 2 * idle + drainTimeout
      BY DEF IdleCutBound
    <2>1. /\ idle \in Nat /\ idle > 0 /\ drainTimeout \in Nat
          /\ since \in Nat /\ remaining[s] \in Int
      BY IntervalType DEF TypeOK, isPermanent, NoDeadline
    <2>2. since + remaining[s] <= Patience(s)
      BY <2>1 DEF DeadlineIsNear
    <2> QED
      BY <2>1, <2>2 DEF Patience
  <1> QED
    BY <1>1, <1>2, <1>3, RelayTypeCorrect, PTL DEF Spec

-----------------------------------------------------------------------------
(* The relay implements the pipe.                                          *)

\* A direction that has not ended has lost nothing: what its peer has sent is
\* in the inbox, in the goroutine's hands or delivered; and nobody has been
\* told that it has ended.  Both connections are closed at once.
Carried(s) ==
    pc[s] # "done" =>
        /\ inbox[s] + got[Other(s)] + (IF pc[s] = "write" THEN 1 ELSE 0) = sent[s]
        /\ Other(s) \notin finSent
        /\ s \notin cut

PipeInv ==
    /\ conn["client"] = conn["upstream"]
    /\ \A s \in Sides : Carried(s)

\* A step of a goroutine keeps it.
LEMMA StepCarries ==
    ASSUME TypeOK, PipeInv, NEW s \in Sides, Step(s)
    PROVE  PipeInv'
PROOF
  <1>0. /\ "client" \in Sides /\ "upstream" \in Sides
        /\ Other(s) \in Sides /\ Other(s) # s /\ Other(Other(s)) = s
        /\ \A t \in Sides : t = s \/ t = Other(s)
    BY DEF Sides, Other
  <1>1. /\ Carried(s) /\ Carried(Other(s))
        /\ inbox[s] \in Nat /\ got[Other(s)] \in Nat /\ sent[s] \in Nat
    BY <1>0 DEF PipeInv, TypeOK
  <1>2. /\ pc[s] # "done" /\ sent' = sent
        /\ pc'[Other(s)] = pc[Other(s)]
    BY <1>0 DEF Step, ReadData, WriteDone, WriteError, ReadEOF, ReadError,
                ReadTimeout, HandleTimeout, TypeOK, peerVars
  <1>3. /\ inbox'[Other(s)] = inbox[Other(s)] /\ got'[s] = got[s]
        /\ s \in finSent' => s \in finSent
        /\ Other(s) \in cut' => Other(s) \in cut
    BY <1>0 DEF Step, ReadData, WriteDone, WriteError, ReadEOF, ReadError,
                ReadTimeout, HandleTimeout, TypeOK
  <1>4. Carried(Other(s))'
    BY <1>0, <1>1, <1>2, <1>3 DEF Carried
  <1>5. conn'["client"] = conn'["upstream"]
    BY <1>0 DEF Step, ReadData, WriteDone, WriteError, ReadEOF, ReadError,
                ReadTimeout, HandleTimeout, CloseBoth, PipeInv
  <1>6. Carried(s)'
    <2>1. CASE ReadData(s)
      BY <1>0, <1>1, <1>2, <2>1 DEF ReadData, Carried, TypeOK
    <2>2. CASE WriteDone(s)
      BY <1>0, <1>1, <1>2, <2>2 DEF WriteDone, Carried, TypeOK
    <2>3. CASE ReadTimeout(s)
      BY <1>0, <1>1, <1>2, <2>3 DEF ReadTimeout, Carried, TypeOK
    <2>4. CASE HandleTimeout(s)
      BY <1>0, <1>1, <1>2, <2>4 DEF HandleTimeout, Carried, TypeOK
    <2>5. CASE WriteError(s) \/ ReadEOF(s) \/ ReadError(s)
      BY <2>5 DEF WriteError, ReadEOF, ReadError, Carried, TypeOK
    <2> QED
      BY <2>1, <2>2, <2>3, <2>4, <2>5 DEF Step
  <1> QED
    BY <1>0, <1>4, <1>5, <1>6 DEF PipeInv

\* So does every other step.
LEMMA NextCarries ==
    ASSUME TypeOK, PipeInv, [Next]_vars
    PROVE  PipeInv'
PROOF
  <1>1. ASSUME NEW s \in Sides, PeerSend(s) PROVE PipeInv'
    <2>1. \A t \in Sides : /\ Other(t) \in Sides
                           /\ inbox[t] \in Nat /\ got[Other(t)] \in Nat
                           /\ sent[t] \in Nat
      BY DEF TypeOK, Sides, Other
    <2>2. \A t \in Sides : Carried(t)'
      BY <1>1, <2>1 DEF PeerSend, PipeInv, Carried, TypeOK
    <2> QED
      BY <1>1, <2>2 DEF PeerSend, PipeInv
  <1>2. ASSUME NEW s \in Sides, PeerEnd(s) \/ PeerStall(s) \/ PeerResume(s)
        PROVE  PipeInv'
    BY <1>2 DEF PeerEnd, PeerStall, PeerResume, PipeInv, Carried
  <1>3. CASE Finish
    BY <1>3 DEF Finish, CloseBoth, PipeInv, Carried, Sides, peerVars
  <1>4. CASE Tick
    BY <1>4 DEF Tick, PipeInv, Carried, peerVars
  <1>5. CASE UNCHANGED vars
    BY <1>5 DEF vars, PipeInv, Carried
  <1> QED
    BY <1>1, <1>2, <1>3, <1>4, <1>5, StepCarries DEF Next, PeerStep, Returned

\* Each step of the relay is one of the pipe, or the peers see nothing of it:
\* a write delivers, an end of stream is passed on, a timeout cuts a direction
\* or is ignored, an error or the end of both goroutines closes.
LEMMA StepIsPiped ==
    ASSUME TypeOK, PipeInv, [Next]_vars
    PROVE  [P!Next]_(P!vars)
PROOF
  <1>0. \A s \in Sides : s \in P!Sides /\ P!Other(s) = Other(s)
    BY DEF Sides, Other, P!Sides, P!Other
  <1>1. \A s \in Sides : /\ conn["client"] = conn[s]
                         /\ conn["client"] = conn[Other(s)]
                         /\ Other(s) \in Sides
    BY DEF PipeInv, Sides, Other
  <1>2. ASSUME NEW s \in Sides, WriteDone(s) PROVE P!Deliver(s)
    <2>1. /\ got[Other(s)] < sent[s] /\ Other(s) \notin finSent
          /\ conn["client"] # "closed"
      BY <1>1, <1>2 DEF WriteDone, PipeInv, Carried, TypeOK
    <2> QED
      BY <1>0, <1>2, <2>1 DEF WriteDone, P!Deliver, peerVars
  <1>3. ASSUME NEW s \in Sides, ReadEOF(s) PROVE P!PassEnd(s)
    <2>1. /\ got[Other(s)] = sent[s] /\ s \notin cut
          /\ conn["client"] # "closed" /\ peer[s] # "open"
      BY <1>1, <1>3 DEF ReadEOF, PipeInv, Carried, TypeOK
    <2> QED
      BY <1>0, <1>3, <2>1 DEF ReadEOF, P!PassEnd, P!Sides, Sides, peerVars
  <1>4. ASSUME NEW s \in Sides, HandleTimeout(s)
        PROVE  P!Cut(s) \/ UNCHANGED P!vars
    <2>1. CASE since < idle
      BY <1>4, <2>1 DEF HandleTimeout, P!vars, peerVars
    <2>2. CASE ~(since < idle)
      <3>1. Other(s) \notin finSent
        BY <1>4 DEF HandleTimeout, PipeInv, Carried
      <3> QED
        BY <1>0, <1>4, <2>2, <3>1 DEF HandleTimeout, P!Cut, peerVars
    <2> QED
      BY <2>1, <2>2
  <1>5. ASSUME NEW s \in Sides, WriteError(s) \/ ReadError(s) PROVE P!Close
    BY <1>5 DEF WriteError, ReadError, CloseBoth, P!Close, Sides, peerVars
  <1>6. CASE Finish
    <2>1. P!Close
      BY <1>6 DEF Finish, CloseBoth, P!Close, Sides, peerVars
    <2> QED
      BY <2>1 DEF P!Next
  <1>7. ASSUME NEW s \in Sides, PeerSend(s) PROVE P!Send(s)
    BY <1>0, <1>1, <1>7 DEF PeerSend, P!Send
  <1>8. ASSUME NEW s \in Sides, PeerEnd(s) PROVE P!End(s)
    <2>1. {t \in Sides : peer'[t] # "open"}
            = {t \in Sides : peer[t] # "open"} \cup {s}
      BY <1>8 DEF PeerEnd, TypeOK
    <2> QED
      BY <1>0, <1>1, <1>8, <2>1 DEF PeerEnd, P!End
  <1>9. ASSUME NEW s \in Sides,
               ReadData(s) \/ ReadTimeout(s) \/ PeerStall(s) \/ PeerResume(s)
        PROVE  UNCHANGED P!vars
    BY <1>9 DEF ReadData, ReadTimeout, PeerStall, PeerResume, P!vars, peerVars
  <1>10. CASE Tick \/ UNCHANGED vars
    BY <1>10 DEF Tick, vars, P!vars, peerVars
  <1>11. ASSUME NEW s \in Sides, Step(s) \/ PeerStep(s)
         PROVE  [P!Next]_(P!vars)
    BY <1>0, <1>2, <1>3, <1>4, <1>5, <1>7, <1>8, <1>9, <1>11
    DEF Step, PeerStep, P!Next
  <1> QED
    BY <1>6, <1>10, <1>11 DEF Next, Returned

\* A direction that has not ended never loses anything.
LEMMA Carries == Spec => []PipeInv
PROOF
  <1>1. Init => PipeInv
    BY DEF Init, PipeInv, Carried, Sides, Other
  <1>2. TypeOK /\ PipeInv /\ [Next]_vars => PipeInv'
    BY NextCarries
  <1> QED
    BY <1>1, <1>2, RelayTypeCorrect, PTL DEF Spec

\* PipeConnEx implements Pipe, for any timeouts and any amount of data: streams
\* are carried in order, an end of stream is passed on only behind the last
\* chunk, and nothing follows it.
THEOREM RelayIsAPipe == Spec => ImplementsPipe
PROOF
  <1>1. Init => P!Init
    BY DEF Init, P!Init, Sides, P!Sides
  <1>2. TypeOK /\ PipeInv /\ [Next]_vars => [P!Next]_(P!vars)
    BY StepIsPiped
  <1> QED
    BY <1>1, <1>2, Carries, RelayTypeCorrect, PTL DEF Spec, ImplementsPipe, P!Spec

-----------------------------------------------------------------------------
(* Sessions in use.                                                        *)

\* A session with an idle timeout that nothing has disturbed: it was never
\* idle for that long and no peer has reset its connection.
Calm == ~isPermanent /\ ~quiet /\ \A s \in Sides : peer[s] # "reset"

\* All that the peer has sent, and its end of stream, has been passed on.
Delivered(s) ==
    peer[s] = "fin" /\ got[Other(s)] = sent[s] /\ Other(s) \in finSent

\* In such a session a goroutine ends at an end of stream only, behind the last
\* chunk, and the connections are open until both have ended.
CalmInv ==
    Calm =>
        /\ since < idle
        /\ ~finished => \A s \in Sides : conn[s] = "open"
        /\ \A s \in Sides :
            pc[s] = "done" => Delivered(s)

\* PipeConnEx returns when both goroutines have ended.
FinishedLast == finished => \A s \in Sides : pc[s] = "done"

\* In permanent mode a direction has no deadline until the other one ends.
PermanentInv ==
    isPermanent =>
        \A s \in Sides :
            peer[Other(s)] = "open" =>
                remaining[s] = NoDeadline /\ pc[s] # "expired" /\ s \notin cut

ActiveInv == CalmInv /\ FinishedLast /\ PermanentInv

\* The timeout is fixed, and a peer that has ended, or reset, stays so.
LEMMA PeersOnlyEnd ==
    ASSUME TypeOK, [Next]_vars
    PROVE  /\ idle' = idle
           /\ \A s \in Sides : /\ peer'[s] = "open" => peer[s] = "open"
                               /\ peer[s] = "reset" => peer'[s] = "reset"
                               /\ peer[s] = "fin" => peer'[s] # "open"
PROOF
  <1>1. ASSUME NEW s \in Sides, PeerEnd(s)
        PROVE  /\ idle' = idle
               /\ \A t \in Sides : /\ peer'[t] = "open" => peer[t] = "open"
                                   /\ peer[t] = "reset" => peer'[t] = "reset"
                                   /\ peer[t] = "fin" => peer'[t] # "open"
    BY <1>1 DEF PeerEnd, TypeOK
  <1>2. CASE UNCHANGED <<idle, peer>>
    BY <1>2
  <1>3. (\E s \in Sides : PeerEnd(s)) \/ UNCHANGED <<idle, peer>>
    BY DEF Next, vars, Step, PeerStep, ReadData, WriteDone, WriteError, ReadEOF,
           ReadError, ReadTimeout, HandleTimeout, PeerSend, PeerStall, PeerResume,
           Finish, Tick, Returned, peerVars
  <1> QED
    BY <1>1, <1>2, <1>3

\* Nothing follows the end of the goroutines.
LEMMA FinishedStep ==
    ASSUME TypeOK, FinishedLast, [Next]_vars
    PROVE  FinishedLast'
PROOF
  <1>1. \A s \in Sides : pc[s] = "done" => pc'[s] = "done"
    BY DEF Next, vars, Step, PeerStep, ReadData, WriteDone, WriteError, ReadEOF,
           ReadError, ReadTimeout, HandleTimeout, PeerSend, PeerEnd, PeerStall,
           PeerResume, Finish, Tick, Returned, TypeOK
  <1>2. CASE Finish
    BY <1>1, <1>2 DEF Finish, FinishedLast
  <1>3. Finish \/ finished' = finished
    BY DEF Next, vars, Step, PeerStep, ReadData, WriteDone, WriteError, ReadEOF,
           ReadError, ReadTimeout, HandleTimeout, PeerSend, PeerEnd, PeerStall,
           PeerResume, Tick, Returned
  <1> QED
    BY <1>1, <1>2, <1>3 DEF FinishedLast

\* Without a timeout only the end of the other direction sets a deadline.
LEMMA PermanentStep ==
    ASSUME TypeOK, PermanentInv, [Next]_vars
    PROVE  PermanentInv'
PROOF
  <1> SUFFICES ASSUME isPermanent', NEW t \in Sides, peer'[Other(t)] = "open"
               PROVE  remaining'[t] = NoDeadline /\ pc'[t] # "expired" /\ t \notin cut'
    BY DEF PermanentInv
  <1>1. /\ isPermanent /\ Other(t) \in Sides /\ Other(t) # t /\ Other(Other(t)) = t
        /\ \A s \in Sides : s = t \/ s = Other(t)
    BY PeersOnlyEnd DEF isPermanent, Sides, Other
  <1>2. /\ peer[Other(t)] = "open"
        /\ remaining[t] = NoDeadline /\ pc[t] # "expired" /\ t \notin cut
    BY <1>1, PeersOnlyEnd DEF PermanentInv
  <1>3. ASSUME NEW s \in Sides, Step(s)
        PROVE  remaining'[t] = NoDeadline /\ pc'[t] # "expired" /\ t \notin cut'
    BY <1>1, <1>2, <1>3
    DEF Step, ReadData, WriteDone, WriteError, ReadEOF, ReadError, ReadTimeout,
        HandleTimeout, updateDeadline, NoDeadline, timeVars, TypeOK
  <1>4. ASSUME NEW s \in Sides, PeerStep(s)
        PROVE  remaining'[t] = NoDeadline /\ pc'[t] # "expired" /\ t \notin cut'
    BY <1>2, <1>4 DEF PeerStep, PeerSend, PeerEnd, PeerStall, PeerResume, timeVars
  <1>5. CASE Tick
    BY <1>2, <1>5 DEF Tick, Sooner, NoDeadline
  <1>6. CASE Finish \/ UNCHANGED vars
    BY <1>2, <1>6 DEF Finish, vars, timeVars
  <1> QED
    BY <1>3, <1>4, <1>5, <1>6 DEF Next, Returned

\* Calm sessions go on as they should.
LEMMA CalmStep ==
    ASSUME TypeOK, TypeOK', PipeInv, FinishedLast, CalmInv, [Next]_vars
    PROVE  CalmInv'
PROOF
  <1> SUFFICES ASSUME Calm'
               PROVE  /\ since' < idle'
                      /\ ~finished' => \A s \in Sides : conn'[s] = "open"
                      /\ \A s \in Sides : pc'[s] = "done" => Delivered(s)'
    BY DEF CalmInv
  <1>1. ~quiet' => ~quiet
    BY Zenon DEF Next, vars, Step, PeerStep, ReadData, WriteDone, WriteError, ReadEOF,
           ReadError, ReadTimeout, HandleTimeout, PeerSend, PeerEnd, PeerStall,
           PeerResume, Finish, Tick, Returned, timeVars
  <1>2. Calm /\ idle' = idle /\ idle \in Nat /\ idle > 0
    BY <1>1, PeersOnlyEnd, IntervalType DEF Calm, isPermanent
  <1>3. /\ since < idle
        /\ ~finished => \A s \in Sides : conn[s] = "open"
        /\ \A s \in Sides : pc[s] = "done" => Delivered(s)
        /\ \A s \in Sides : peer[s] # "reset" /\ peer'[s] # "reset"
    BY <1>2 DEF CalmInv, Calm
  <1>4. \A s \in Sides : /\ Other(s) \in Sides /\ Other(s) # s /\ Other(Other(s)) = s
                        /\ \A t \in Sides : t = s \/ t = Other(s)
    BY DEF Sides, Other
  <1>5. since' < idle'
    <2>1. CASE Tick
      <3>1. ~quiet' /\ quiet' = (quiet \/ since' >= idle)
        BY <2>1, Zenon DEF Tick, Calm
      <3>2. ~(since' >= idle)
        BY <3>1, Zenon
      <3>3. since' \in Nat
        BY <1>2, <2>1, IntervalType DEF Tick, Later, TypeOK
      <3> QED
        BY <1>2, <3>2, <3>3
    <2>2. ASSUME NEW s \in Sides, ReadData(s) PROVE since' = 0
      BY <2>2 DEF ReadData
    <2>3. Tick \/ (\E s \in Sides : ReadData(s)) \/ since' = since
      BY DEF Next, vars, Step, PeerStep, WriteDone, WriteError, ReadEOF, ReadError,
             ReadTimeout, HandleTimeout, PeerSend, PeerEnd, PeerStall, PeerResume,
             Finish, Returned, timeVars
    <2> QED
      BY <1>2, <1>3, <2>1, <2>2, <2>3
  <1>6. ASSUME NEW s \in Sides, WriteError(s) \/ ReadError(s) PROVE FALSE
    BY <1>3, <1>4, <1>6 DEF WriteError, ReadError, FinishedLast
  <1>7. ~finished' => \A s \in Sides : conn'[s] = "open"
    <2>1. (\E s \in Sides : WriteError(s) \/ ReadError(s)) \/ Finish
            \/ UNCHANGED <<conn, finished>>
      BY DEF Next, vars, Step, PeerStep, ReadData, WriteDone, ReadEOF, ReadTimeout,
             HandleTimeout, PeerSend, PeerEnd, PeerStall, PeerResume, Tick, Returned
    <2> QED
      BY <1>3, <1>6, <2>1 DEF Finish
  <1>8. ASSUME NEW t \in Sides, pc'[t] = "done" PROVE Delivered(t)'
    <2>1. finSent \subseteq finSent'
      BY DEF Next, vars, Step, PeerStep, ReadData, WriteDone, WriteError, ReadEOF,
             ReadError, ReadTimeout, HandleTimeout, PeerSend, PeerEnd, PeerStall,
             PeerResume, Finish, Tick, Returned
    <2>2. CASE pc[t] = "done"
      <3>1. peer'[t] = "fin"
        BY <1>3, <2>2, PeersOnlyEnd DEF TypeOK, Delivered
      <3>2. got'[Other(t)] = got[Other(t)] /\ sent'[t] = sent[t]
        BY <1>3, <1>4, <2>2
        DEF Delivered, Next, vars, Step, PeerStep, ReadData, WriteDone, WriteError, ReadEOF,
            ReadError, ReadTimeout, HandleTimeout, PeerSend, PeerEnd, PeerStall,
            PeerResume, Finish, Tick, Returned, TypeOK, peerVars
      <3> QED
        BY <1>3, <2>1, <2>2, <3>1, <3>2 DEF Delivered
    <2>3. CASE ReadEOF(t)
      <3>1. got[Other(t)] = sent[t]
        BY <1>4, <2>3 DEF ReadEOF, PipeInv, Carried, TypeOK
      <3> QED
        BY <2>3, <3>1 DEF ReadEOF, peerVars, Delivered
    <2>4. CASE HandleTimeout(t) /\ pc[t] # "done"
      BY <1>2, <1>3, <1>8, <2>4 DEF HandleTimeout, TypeOK
    <2>5. pc[t] = "done" \/ ReadEOF(t) \/ HandleTimeout(t) \/ WriteError(t) \/ ReadError(t)
      BY <1>8 DEF Next, vars, Step, PeerStep, ReadData, WriteDone, WriteError, ReadEOF,
             ReadError, ReadTimeout, HandleTimeout, PeerSend, PeerEnd, PeerStall,
             PeerResume, Finish, Tick, Returned, TypeOK
    <2> QED
      BY <1>6, <2>2, <2>3, <2>4, <2>5
  <1> QED
    BY <1>5, <1>7, <1>8

\* For every timeout and any amount of data: a relay that returns, no peer having
\* reset its connection and no silence having reached the timeout, has delivered
\* all that was sent and both ends of stream; and in permanent mode no deadline
\* ends a session both of whose peers are still sending.
THEOREM ActiveSessionsGoOn == Spec => []NoActiveSessionIsCut
PROOF
  <1>1. Init => ActiveInv
    <2> SUFFICES ASSUME Init PROVE ActiveInv
      OBVIOUS
    <2>1. /\ FinishedLast /\ PermanentInv
          /\ \A s \in Sides : conn[s] = "open" /\ pc[s] = "read"
      BY DEF Init, FinishedLast, PermanentInv
    <2>2. since = 0 /\ idle \in Nat
      BY TimesAssumption DEF Init
    <2>3. CalmInv
      BY <2>1, <2>2 DEF CalmInv, Calm, isPermanent
    <2> QED BY <2>1, <2>3 DEF ActiveInv
  <1>2. TypeOK /\ TypeOK' /\ PipeInv /\ ActiveInv /\ [Next]_vars => ActiveInv'
    BY CalmStep, FinishedStep, PermanentStep DEF ActiveInv
  <1>3. TypeOK /\ ActiveInv => NoActiveSessionIsCut
    <2> SUFFICES ASSUME TypeOK, ActiveInv PROVE NoActiveSessionIsCut
      OBVIOUS
    <2>1. ASSUME finished, Calm, NEW s \in Sides
          PROVE  peer[s] = "fin" /\ got[Other(s)] = sent[s] /\ s \in finSent
      BY <2>1 DEF ActiveInv, CalmInv, FinishedLast, Delivered, Sides, Other
    <2>2. ASSUME NEW s \in cut, isPermanent PROVE peer[Other(s)] # "open"
      BY <2>2 DEF ActiveInv, PermanentInv, TypeOK
    <2> QED
      BY <2>1, <2>2 DEF NoActiveSessionIsCut, Calm
  <1> QED
    BY <1>1, <1>2, <1>3, RelayTypeCorrect, Carries, PTL DEF Spec

=============================================================================
