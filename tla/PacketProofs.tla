---------------------------- MODULE PacketProofs ----------------------------
(***************************************************************************)
(* Proofs about the packet loop, for any packets, queue and clock: types,  *)
(* at most one copy of a packet, a reason for every loss, and a flow that  *)
(* is logged again only after a silence or an overlap.                     *)
(***************************************************************************)
EXTENDS PacketLoop, TLAPS

-----------------------------------------------------------------------------
(* What is known of a packet by where it is.                               *)

Sum(r) == r.orig + r.nat + r.ans

\* Nothing was sent of a packet the loop holds, but for the copy a sniffing
\* handle let pass; and which classes get where.
InHand(p, r) ==
  /\ r.nat = 0 /\ r.ans = 0 /\ r.lost = "no"
  /\ r.orig = IF sniffMode THEN 1 ELSE 0
  /\ sniffMode => class[p] = "tcp"
  /\ r.st \in {"flow", "verdict"} => class[p] \in {"udp", "dns"}
  /\ r.st \in {"queued", "task", "ask"} => class[p] = "dns"

\* The reasons LossIsExplained admits.
Explained(p, r) ==
  /\ r.lost # "no"
  /\ r.lost = "quic" => class[p] = "quic"
  /\ r.lost = "blocked" => p \in Blocked
  /\ r.lost = "engineOff" => class[p] = "dns" /\ reloads > 0
  /\ r.lost = "closed" => ctxDone

Settled(p, r) ==
  /\ Sum(r) <= 1 \/ (wentLive /\ class[p] = "tcp")
  /\ Sum(r) = 0 => Explained(p, r)

Sound(p, r) ==
  /\ r.st = "new" => r.orig = 0 /\ r.nat = 0 /\ r.ans = 0 /\ r.lost = "no"
  /\ r.st \notin {"new", "done"} => InHand(p, r)
  /\ r.st = "done" => Settled(p, r)

\* What the handle does was settled at Start; a field that has left its first
\* value was set by a reload, and the handle is closed after the cancellation.
HandleInv ==
  /\ sniffMode => handle # "divert" /\ captures \subseteq {"tcp"}
  /\ ~sniffMode => handle # "sniff"
  /\ sniffMode /\ ~dryRun => wentLive
  /\ ~dnsEng => reloads > 0
  /\ handle = "closed" => ctxDone

\* The queue holds each query it was given once, until a worker takes it.
QueueInv ==
  /\ \A i \in 1 .. Len(dnsQueue) : pk[dnsQueue[i]].st = "queued"
  /\ \A i, j \in 1 .. Len(dnsQueue) : dnsQueue[i] = dnsQueue[j] => i = j

PacketInv == HandleInv /\ QueueInv /\ \A p \in Packets : Sound(p, pk[p])

-----------------------------------------------------------------------------
(* The records the actions put in place.                                   *)

\* Ending a packet and changing one of its counters keeps the other fields.
LEMMA EndRecord ==
  ASSUME NEW x \in PacketState
  PROVE  /\ LET r == [x EXCEPT !.st = "done", !.orig = 1] IN
            /\ r \in PacketState /\ r.st = "done" /\ r.orig = 1
            /\ r.nat = x.nat /\ r.ans = x.ans
         /\ LET r == [x EXCEPT !.st = "done", !.nat = 1] IN
            /\ r \in PacketState /\ r.st = "done" /\ r.nat = 1
            /\ r.orig = x.orig /\ r.ans = x.ans
         /\ LET r == [x EXCEPT !.st = "done", !.ans = 1] IN
            /\ r \in PacketState /\ r.st = "done" /\ r.ans = 1
            /\ r.orig = x.orig /\ r.nat = x.nat
PROOF
  <1> DEFINE y == [x EXCEPT !.st = "done"]
  <1>1. y \in PacketState
    BY DEF PacketState
  <1>2. /\ [x EXCEPT !.st = "done", !.orig = 1] = [y EXCEPT !.orig = 1]
        /\ [x EXCEPT !.st = "done", !.nat = 1] = [y EXCEPT !.nat = 1]
        /\ [x EXCEPT !.st = "done", !.ans = 1] = [y EXCEPT !.ans = 1]
    BY DEF PacketState
  <1> HIDE DEF y
  <1>3. [y EXCEPT !.orig = 1] \in PacketState
    BY <1>1 DEF PacketState
  <1>4. [y EXCEPT !.nat = 1] \in PacketState
    BY <1>1 DEF PacketState
  <1>5. [y EXCEPT !.ans = 1] \in PacketState
    BY <1>1 DEF PacketState
  <1> QED
    BY <1>2, <1>3, <1>4, <1>5 DEF PacketState

\* A packet sent on as it was captured is settled, if the handle diverts.
LEMMA ReinjectSound ==
  ASSUME TypeOK, HandleInv, NEW p \in Packets, InHand(p, pk[p]), ~sniffMode
  PROVE  /\ Reinject(p) \in PacketState /\ Reinject(p).st = "done"
         /\ Sound(p, Reinject(p))
PROOF
  <1>1. /\ pk[p] \in PacketState
        /\ pk[p].orig = 0 /\ pk[p].nat = 0 /\ pk[p].ans = 0
    BY DEF InHand, TypeOK
  <1>2. CASE handle = "closed"
    <2> DEFINE r == [pk[p] EXCEPT !.st = "done", !.lost = "closed"]
    <2>1. /\ r \in PacketState /\ r.st = "done" /\ r.lost = "closed"
          /\ r.orig = 0 /\ r.nat = 0 /\ r.ans = 0
      BY <1>1 DEF PacketState
    <2>2. Reinject(p) = r /\ ctxDone
      BY <1>1, <1>2 DEF Reinject, Lost, Done, HandleInv, PacketState
    <2> HIDE DEF r
    <2>3. Sound(p, r)
      BY <2>1, <2>2 DEF Sound, Settled, Explained, Sum
    <2> QED
      BY <2>1, <2>2, <2>3
  <1>3. CASE handle # "closed"
    <2> DEFINE r == [pk[p] EXCEPT !.st = "done", !.orig = 1]
    <2>1. /\ r \in PacketState /\ r.st = "done"
          /\ r.orig = 1 /\ r.nat = 0 /\ r.ans = 0
      BY <1>1, EndRecord
    <2>2. Reinject(p) = r
      <3>1. Done(p).orig + 1 = 1
        BY <1>1 DEF Done, PacketState
      <3>2. Reinject(p) = [Done(p) EXCEPT !.orig = 1]
        BY <1>3, <3>1 DEF Reinject
      <3> QED
        BY <1>1, <3>2 DEF Done, PacketState
    <2> HIDE DEF r
    <2>3. Sound(p, r)
      BY <2>1 DEF Sound, Settled, Sum
    <2> QED
      BY <2>1, <2>2, <2>3
  <1> QED
    BY <1>2, <1>3

\* A packet lost for one of the reasons that are admitted is settled.
LEMMA LostSound ==
  ASSUME TypeOK, NEW p \in Packets, InHand(p, pk[p]),
         NEW why \in {"quic", "blocked", "engineOff", "panic", "engine", "closed"},
         why = "quic" => class[p] = "quic",
         why = "blocked" => p \in Blocked,
         why = "engineOff" => class[p] = "dns" /\ reloads > 0,
         why = "closed" => ctxDone
  PROVE  /\ Lost(p, why) \in PacketState /\ Lost(p, why).st = "done"
         /\ Sound(p, Lost(p, why))
PROOF
  <1>1. /\ pk[p] \in PacketState
        /\ pk[p].orig \in 0 .. 1 /\ pk[p].nat = 0 /\ pk[p].ans = 0
    BY DEF InHand, TypeOK
  <1> DEFINE r == [pk[p] EXCEPT !.st = "done", !.lost = why]
  <1>2. /\ r \in PacketState /\ r.st = "done" /\ r.lost = why
        /\ r.orig \in 0 .. 1 /\ r.nat = 0 /\ r.ans = 0
    BY <1>1 DEF PacketState
  <1>3. Lost(p, why) = r
    BY <1>1 DEF Lost, Done, PacketState
  <1> HIDE DEF r
  <1>4. Sound(p, r)
    BY <1>2 DEF Sound, Settled, Explained, Sum
  <1> QED
    BY <1>2, <1>3, <1>4

\* So is a TCP packet that is translated: it has no other copy, unless the
\* process has left its dry run.
LEMMA TranslatedSound ==
  ASSUME TypeOK, HandleInv, NEW p \in Packets, InHand(p, pk[p]), class[p] = "tcp", ~dryRun
  PROVE  LET r == [Done(p) EXCEPT !.nat = 1] IN
         r \in PacketState /\ r.st = "done" /\ Sound(p, r)
PROOF
  <1>1. /\ pk[p] \in PacketState
        /\ pk[p].orig \in 0 .. 1 /\ pk[p].nat = 0 /\ pk[p].ans = 0
        /\ pk[p].orig = 0 \/ wentLive
    BY DEF InHand, TypeOK, HandleInv
  <1> DEFINE r == [Done(p) EXCEPT !.nat = 1]
  <1>0. r = [pk[p] EXCEPT !.st = "done", !.nat = 1]
    BY <1>1 DEF Done, PacketState
  <1> HIDE DEF r
  <1>2. /\ r \in PacketState /\ r.st = "done"
        /\ r.orig = pk[p].orig /\ r.nat = 1 /\ r.ans = 0
    BY <1>0, <1>1, EndRecord
  <1>3. Sound(p, r)
    BY <1>1, <1>2 DEF Sound, Settled, Sum
  <1> QED
    BY <1>2, <1>3 DEF r

\* Nor does it matter that a TCP packet is sent on as it is: only a process that
\* has left its dry run has let it pass before.
LEMMA ResentSound ==
  ASSUME TypeOK, HandleInv, NEW p \in Packets, InHand(p, pk[p]), class[p] = "tcp", ~dryRun
  PROVE  /\ Reinject(p) \in PacketState /\ Reinject(p).st = "done"
         /\ Sound(p, Reinject(p))
PROOF
  <1>1. /\ pk[p] \in PacketState
        /\ pk[p].orig \in 0 .. 1 /\ pk[p].nat = 0 /\ pk[p].ans = 0
        /\ sniffMode => wentLive
    BY DEF InHand, TypeOK, HandleInv
  <1>2. CASE ~sniffMode
    BY <1>2, ReinjectSound
  <1>3. CASE sniffMode /\ handle = "closed"
    <2>1. ctxDone /\ Reinject(p) = Lost(p, "closed")
      BY <1>3 DEF HandleInv, Reinject
    <2> QED
      BY <2>1, LostSound
  <1>4. CASE sniffMode /\ handle # "closed"
    <2>1. PICK n \in 0 .. 2 : n = pk[p].orig + 1
      BY <1>1
    <2>2. n # 0
      BY <1>1, <2>1
    <2> DEFINE y == [pk[p] EXCEPT !.st = "done"]
               r == [y EXCEPT !.orig = n]
    <2>3. y \in PacketState /\ y.st = "done" /\ y.orig = pk[p].orig /\ y.nat = 0 /\ y.ans = 0
      BY <1>1 DEF PacketState
    <2>4. Reinject(p) = r
      <3>1. Reinject(p) = [Done(p) EXCEPT !.orig = @ + 1] /\ Done(p) = y
        BY <1>4 DEF Reinject, Done
      <3>2. Done(p).orig + 1 = n
        BY <2>1, <2>3, <3>1
      <3> QED
        BY <3>1, <3>2
    <2> HIDE DEF y
    <2>5. r \in PacketState /\ r.st = "done" /\ r.orig = n /\ r.nat = 0 /\ r.ans = 0
      BY <2>1, <2>3 DEF PacketState
    <2> HIDE DEF r
    <2>6. Sound(p, r)
      BY <1>1, <1>4, <2>2, <2>5 DEF Sound, Settled, Sum
    <2> QED
      BY <2>4, <2>5, <2>6
  <1> QED
    BY <1>2, <1>3, <1>4

\* And so is a query that is answered.
LEMMA AnsweredSound ==
  ASSUME TypeOK, NEW p \in Packets, InHand(p, pk[p]), ~sniffMode
  PROVE  LET r == [Done(p) EXCEPT !.ans = 1] IN
         r \in PacketState /\ r.st = "done" /\ Sound(p, r)
PROOF
  <1>1. /\ pk[p] \in PacketState
        /\ pk[p].orig = 0 /\ pk[p].nat = 0 /\ pk[p].ans = 0
    BY DEF InHand, TypeOK
  <1> DEFINE r == [Done(p) EXCEPT !.ans = 1]
  <1>0. r = [pk[p] EXCEPT !.st = "done", !.ans = 1]
    BY <1>1 DEF Done, PacketState
  <1> HIDE DEF r
  <1>2. /\ r \in PacketState /\ r.st = "done"
        /\ r.orig = 0 /\ r.nat = 0 /\ r.ans = 1
    BY <1>0, <1>1, EndRecord
  <1>3. Sound(p, r)
    BY <1>2 DEF Sound, Settled, Sum
  <1> QED
    BY <1>2, <1>3 DEF r

\* A packet that moves on inside the loop stays in hand.
LEMMA MovedSound ==
  ASSUME TypeOK, NEW p \in Packets, InHand(p, pk[p]),
         NEW st \in {"flow", "verdict", "queued", "task", "ask"},
         st \in {"flow", "verdict"} => class[p] \in {"udp", "dns"},
         st \in {"queued", "task", "ask"} => class[p] = "dns",
         NEW r \in PacketState, r.st = st,
         r.orig = pk[p].orig, r.nat = pk[p].nat, r.ans = pk[p].ans, r.lost = pk[p].lost
  PROVE  Sound(p, r)
BY DEF Sound, InHand

-----------------------------------------------------------------------------
(* The steps.                                                              *)

\* Putting a sound record in place keeps what is known of all packets.
LEMMA PutSound ==
  ASSUME TypeOK, PacketInv, NEW p \in Packets, NEW r \in PacketState, Sound(p, r),
         Put(p, r), UNCHANGED <<handle, setup, fields, ctxDone>>
  PROVE  /\ pk' \in [Packets -> PacketState]
         /\ HandleInv'
         /\ \A q \in Packets : Sound(q, pk[q])'
PROOF
  <1>1. /\ pk' \in [Packets -> PacketState] /\ pk'[p] = r
        /\ \A q \in Packets : q # p => pk'[q] = pk[q]
    BY DEF Put, TypeOK
  <1>2. HandleInv'
    BY DEF PacketInv, HandleInv, setup, fields
  <1>3. ASSUME NEW q \in Packets, NEW x, Sound(q, x), pk'[q] = x PROVE Sound(q, pk[q])'
    BY <1>3 DEF Sound, InHand, Settled, Explained, Sum, setup, fields
  <1> QED
    BY <1>1, <1>2, <1>3 DEF PacketInv

\* A packet that is not in the queue, and does not enter it, leaves it alone.
LEMMA LocalStep ==
  ASSUME TypeOK, PacketInv, NEW p \in Packets, NEW r \in PacketState, Sound(p, r),
         Put(p, r), KeepRest, UNCHANGED <<table, dnsQueue>>, pk[p].st # "queued"
  PROVE  TypeOK' /\ PacketInv'
PROOF
  <1>1. /\ pk' \in [Packets -> PacketState] /\ HandleInv'
        /\ \A q \in Packets : Sound(q, pk[q])'
    BY PutSound DEF KeepRest
  <1>2. TypeOK'
    BY <1>1 DEF TypeOK, KeepRest, setup, fields, table
  <1>3. QueueInv'
    BY DEF PacketInv, QueueInv, Put, TypeOK
  <1> QED
    BY <1>1, <1>2, <1>3 DEF PacketInv

\* A packet the loop holds is in hand.
LEMMA HeldInHand ==
  ASSUME PacketInv, NEW p \in Packets, pk[p].st \notin {"new", "done"}
  PROVE  /\ InHand(p, pk[p])
         /\ class[p] # "tcp" => ~sniffMode
BY DEF PacketInv, Sound, InHand

\* A packet arrives: it passes, or the loop has it.
LEMMA ArriveStep ==
  ASSUME TypeOK, PacketInv, NEW p \in Packets, Arrive(p)
  PROVE  TypeOK' /\ PacketInv'
PROOF
  <1>1. /\ pk[p] \in PacketState /\ pk[p].st = "new"
        /\ pk[p].orig = 0 /\ pk[p].nat = 0 /\ pk[p].ans = 0 /\ pk[p].lost = "no"
    BY DEF Arrive, At, TypeOK, PacketInv, Sound
  <1>2. CASE handle = "closed" \/ class[p] \notin captures
    <2> DEFINE r == [pk[p] EXCEPT !.st = "done", !.orig = 1]
    <2>1. r \in PacketState /\ r.st = "done" /\ r.orig = 1 /\ r.nat = 0 /\ r.ans = 0
      BY <1>1, EndRecord
    <2>2. Put(p, r)
      BY <1>2 DEF Arrive
    <2> HIDE DEF r
    <2>3. Sound(p, r)
      BY <2>1 DEF Sound, Settled, Sum
    <2> QED
      BY <1>1, <2>1, <2>2, <2>3, LocalStep DEF Arrive
  <1>3. CASE ~(handle = "closed" \/ class[p] \notin captures)
    <2>1. PICK n \in {0, 1} : n = IF handle = "sniff" THEN 1 ELSE 0
      OBVIOUS
    <2> DEFINE r == [pk[p] EXCEPT !.st = "read", !.orig = n]
    <2>2. Put(p, r)
      BY <1>3, <2>1 DEF Arrive
    <2>3. r \in PacketState
      <3> DEFINE y == [pk[p] EXCEPT !.st = "read"]
      <3>1. y \in PacketState /\ r = [y EXCEPT !.orig = n]
        BY <1>1 DEF PacketState
      <3> HIDE DEF y
      <3>2. n \in 0 .. 2
        OBVIOUS
      <3> QED
        BY <3>1, <3>2 DEF PacketState
    <2>4. r.st = "read" /\ r.orig = n /\ r.nat = 0 /\ r.ans = 0 /\ r.lost = "no"
      BY <1>1 DEF PacketState
    <2> HIDE DEF r
    <2>5. /\ sniffMode => n = 1 /\ class[p] = "tcp"
          /\ ~sniffMode => n = 0
      BY <1>3, <2>1 DEF PacketInv, HandleInv, TypeOK
    <2>6. Sound(p, r)
      BY <2>4, <2>5 DEF Sound, InHand
    <2> QED
      BY <1>1, <2>2, <2>3, <2>6, LocalStep DEF Arrive
  <1> QED
    BY <1>2, <1>3

\* TCP and QUIC packets.
LEMMA DispatchStep ==
  ASSUME TypeOK, PacketInv, NEW p \in Packets, DispatchTCP(p) \/ DispatchQUIC(p)
  PROVE  TypeOK' /\ PacketInv'
PROOF
  <1>1. /\ InHand(p, pk[p]) /\ pk[p].st = "read" /\ HandleInv /\ pk[p] \in PacketState
    BY HeldInHand DEF DispatchTCP, DispatchQUIC, At, PacketInv, TypeOK
  <1>2. CASE DispatchTCP(p)
    <2>1. CASE dryRun /\ sniffMode
      <3> DEFINE r == Done(p)
      <3>1. /\ r \in PacketState /\ r.st = "done" /\ r.orig = 1 /\ r.nat = 0 /\ r.ans = 0
        BY <1>1, <2>1 DEF InHand, Done, PacketState
      <3>2. Put(p, r)
        BY <1>2, <2>1 DEF DispatchTCP
      <3> HIDE DEF r
      <3>3. Sound(p, r)
        BY <3>1 DEF Sound, Settled, Sum
      <3> QED
        BY <1>1, <1>2, <3>1, <3>2, <3>3, LocalStep DEF DispatchTCP
    <2>2. CASE dryRun /\ ~sniffMode
      <3>1. Put(p, Reinject(p))
        BY <1>2, <2>2 DEF DispatchTCP
      <3> QED
        BY <1>1, <1>2, <2>2, <3>1, ReinjectSound, LocalStep DEF DispatchTCP
    <2>3. CASE ~dryRun /\ Put(p, Lost(p, "closed")) /\ handle = "closed"
      <3>1. Put(p, Lost(p, "closed")) /\ ctxDone
        BY <1>1, <2>3 DEF HandleInv
      <3>2. Lost(p, "closed") \in PacketState /\ Sound(p, Lost(p, "closed"))
        BY <1>1, <3>1, LostSound
      <3> QED
        BY <1>1, <1>2, <3>1, <3>2, LocalStep DEF DispatchTCP
    <2>4. CASE ~dryRun /\ Put(p, [Done(p) EXCEPT !.nat = 1])
      <3>1. Put(p, [Done(p) EXCEPT !.nat = 1]) /\ class[p] = "tcp"
        BY <1>2, <2>4 DEF DispatchTCP
      <3> QED
        BY <1>1, <1>2, <2>4, <3>1, TranslatedSound, LocalStep DEF DispatchTCP
    <2>5. CASE ~dryRun /\ Put(p, Reinject(p))
      <3>1. Put(p, Reinject(p)) /\ class[p] = "tcp"
        BY <1>2, <2>5 DEF DispatchTCP
      <3> QED
        BY <1>1, <1>2, <2>5, <3>1, ResentSound, LocalStep DEF DispatchTCP
    <2> QED
      BY <1>2, <2>1, <2>2, <2>3, <2>4, <2>5 DEF DispatchTCP
  <1>3. CASE DispatchQUIC(p)
    <2>1. class[p] = "quic" /\ ~sniffMode
      BY <1>1, <1>3 DEF DispatchQUIC, InHand
    <2>2. CASE dryRun
      <3>1. Put(p, Reinject(p))
        BY <1>3, <2>2 DEF DispatchQUIC
      <3> QED
        BY <1>1, <1>3, <2>1, <3>1, ReinjectSound, LocalStep DEF DispatchQUIC
    <2>3. CASE ~dryRun
      <3>1. Put(p, Lost(p, "quic"))
        BY <1>3, <2>3 DEF DispatchQUIC
      <3>2. Lost(p, "quic") \in PacketState /\ Sound(p, Lost(p, "quic"))
        BY <1>1, <2>1, LostSound
      <3> QED
        BY <1>1, <1>3, <3>1, <3>2, LocalStep DEF DispatchQUIC
    <2> QED
      BY <2>2, <2>3
  <1> QED
    BY <1>2, <1>3

\* A record that differs from the packet's in its label only.
LEMMA Relabelled ==
  ASSUME TypeOK, NEW p \in Packets,
         NEW st \in {"flow", "verdict", "queued", "task", "ask"}
  PROVE  LET r == [pk[p] EXCEPT !.st = st] IN
         /\ r \in PacketState /\ r.st = st
         /\ r.orig = pk[p].orig /\ r.nat = pk[p].nat /\ r.ans = pk[p].ans
         /\ r.lost = pk[p].lost
PROOF
  <1>1. pk[p] \in PacketState
    BY DEF TypeOK
  <1> QED
    BY <1>1 DEF PacketState

\* A query enters the queue, or a goroutine of its own has it.
LEMMA DispatchDNSStep ==
  ASSUME TypeOK, PacketInv, NEW p \in Packets, DispatchDNS(p)
  PROVE  TypeOK' /\ PacketInv'
PROOF
  <1>1. InHand(p, pk[p]) /\ pk[p].st = "read" /\ class[p] = "dns"
    BY HeldInHand DEF DispatchDNS, ToEngine, At
  <1>2. CASE Len(dnsQueue) < QueueCap
    <2> DEFINE r == [pk[p] EXCEPT !.st = "queued"]
    <2>1. r \in PacketState /\ Sound(p, r) /\ r.st = "queued"
      BY <1>1, Relabelled, MovedSound
    <2>2. Put(p, r) /\ dnsQueue' = Append(dnsQueue, p)
      BY <1>2 DEF DispatchDNS
    <2> HIDE DEF r
    <2>3. /\ pk' \in [Packets -> PacketState] /\ HandleInv'
          /\ \A q \in Packets : Sound(q, pk[q])'
      BY <2>1, <2>2, PutSound DEF DispatchDNS, KeepRest
    <2>4. /\ dnsQueue \in Seq(Packets) /\ Len(dnsQueue) \in Nat
          /\ dnsQueue' \in Seq(Packets) /\ Len(dnsQueue') = Len(dnsQueue) + 1
          /\ dnsQueue'[Len(dnsQueue) + 1] = p
          /\ \A i \in 1 .. Len(dnsQueue) : /\ dnsQueue'[i] = dnsQueue[i]
                                           /\ dnsQueue[i] \in Packets
      BY <2>2 DEF TypeOK
    <2>5. TypeOK'
      <3>1. Len(dnsQueue') <= QueueCap
        BY <1>2, <2>4, PacketAssumption
      <3> QED
        BY <2>3, <2>4, <3>1 DEF TypeOK, DispatchDNS, KeepRest, setup, fields, table
    <2>6. QueueInv'
      <3>1. /\ pk'[p].st = "queued"
            /\ \A q \in Packets : q # p => pk'[q] = pk[q]
        BY <2>1, <2>2 DEF Put, TypeOK
      <3>2. \A i \in 1 .. Len(dnsQueue) : dnsQueue[i] # p
        BY <1>1 DEF PacketInv, QueueInv
      <3>3. \A i \in 1 .. Len(dnsQueue') : i = Len(dnsQueue) + 1 \/ i \in 1 .. Len(dnsQueue)
        BY <2>4
      <3>4. \A i \in 1 .. Len(dnsQueue') : pk'[dnsQueue'[i]].st = "queued"
        BY <2>4, <3>1, <3>2, <3>3 DEF PacketInv, QueueInv
      <3>5. \A i, j \in 1 .. Len(dnsQueue') : dnsQueue'[i] = dnsQueue'[j] => i = j
        BY <2>4, <3>2, <3>3 DEF PacketInv, QueueInv
      <3> QED
        BY <3>4, <3>5 DEF QueueInv
    <2> QED
      BY <2>3, <2>5, <2>6 DEF PacketInv
  <1>3. CASE ~(Len(dnsQueue) < QueueCap)
    <2>1. Put(p, [pk[p] EXCEPT !.st = "task"]) /\ UNCHANGED dnsQueue
      BY <1>3 DEF DispatchDNS
    <2>2. LET r == [pk[p] EXCEPT !.st = "task"] IN r \in PacketState /\ Sound(p, r)
      BY <1>1, Relabelled, MovedSound
    <2> QED
      BY <1>1, <2>1, <2>2, LocalStep DEF DispatchDNS
  <1> QED
    BY <1>2, <1>3

\* A worker takes the query at the head of the queue.
LEMMA TakeTaskStep ==
  ASSUME TypeOK, PacketInv, TakeTask
  PROVE  TypeOK' /\ PacketInv'
PROOF
  <1>0. /\ dnsQueue \in Seq(Packets) /\ dnsQueue # <<>> /\ dnsQueue' = Tail(dnsQueue)
    BY DEF TakeTask, TypeOK
  <1>1. /\ Len(dnsQueue) \in Nat /\ Len(dnsQueue) > 0
        /\ Head(dnsQueue) = dnsQueue[1] /\ dnsQueue[1] \in Packets
        /\ dnsQueue' \in Seq(Packets) /\ Len(dnsQueue') = Len(dnsQueue) - 1
        /\ \A i \in 1 .. Len(dnsQueue') : dnsQueue'[i] = dnsQueue[i + 1]
    BY <1>0
  <1>2. PICK p \in Packets : p = dnsQueue[1]
    BY <1>1
  <1>3. InHand(p, pk[p]) /\ pk[p].st = "queued" /\ class[p] = "dns"
    <2>1. pk[p].st = "queued"
      BY <1>1, <1>2 DEF PacketInv, QueueInv
    <2> QED
      BY <2>1, HeldInHand DEF InHand
  <1> DEFINE r == [pk[p] EXCEPT !.st = "task"]
  <1>4. r \in PacketState /\ Sound(p, r) /\ r.st = "task"
    BY <1>3, Relabelled, MovedSound
  <1>5. Put(p, r)
    BY <1>1, <1>2 DEF TakeTask
  <1> HIDE DEF r
  <1>6. /\ pk' \in [Packets -> PacketState] /\ HandleInv'
        /\ \A q \in Packets : Sound(q, pk[q])'
    BY <1>4, <1>5, PutSound DEF TakeTask, KeepRest
  <1>7. TypeOK'
    <2>1. Len(dnsQueue') <= QueueCap
      BY <1>1, PacketAssumption DEF TypeOK
    <2> QED
      BY <1>1, <1>6, <2>1 DEF TypeOK, TakeTask, KeepRest, setup, fields, table
  <1>8. QueueInv'
    <2>1. \A q \in Packets : q # p => pk'[q] = pk[q]
      BY <1>5 DEF Put, TypeOK
    <2>2. \A i \in 1 .. Len(dnsQueue') :
            /\ i + 1 \in 1 .. Len(dnsQueue) /\ i + 1 # 1
            /\ dnsQueue[i + 1] \in Packets
      BY <1>0, <1>1
    <2>3. \A i \in 1 .. Len(dnsQueue') : dnsQueue'[i] # p
      BY <1>1, <1>2, <2>2 DEF PacketInv, QueueInv
    <2>4. \A i \in 1 .. Len(dnsQueue') : pk'[dnsQueue'[i]].st = "queued"
      BY <1>1, <2>1, <2>2, <2>3 DEF PacketInv, QueueInv
    <2>5. \A i, j \in 1 .. Len(dnsQueue') : dnsQueue'[i] = dnsQueue'[j] => i = j
      <3> SUFFICES ASSUME NEW i \in 1 .. Len(dnsQueue'), NEW j \in 1 .. Len(dnsQueue'),
                          dnsQueue'[i] = dnsQueue'[j]
                   PROVE  i = j
        OBVIOUS
      <3>1. i + 1 = j + 1
        BY <1>1, <2>2 DEF PacketInv, QueueInv
      <3> QED
        BY <1>1, <3>1
    <2> QED
      BY <2>4, <2>5 DEF QueueInv
  <1> QED
    BY <1>6, <1>7, <1>8 DEF PacketInv

\* Other UDP goes on its way, or into the flow table.
LEMMA DispatchUDPStep ==
  ASSUME TypeOK, PacketInv, NEW p \in Packets, DispatchUDP(p)
  PROVE  TypeOK' /\ PacketInv'
PROOF
  <1>1. /\ InHand(p, pk[p]) /\ pk[p].st = "read" /\ class[p] \in {"udp", "dns"}
        /\ ~sniffMode /\ HandleInv /\ pk[p] \in PacketState
    BY HeldInHand DEF DispatchUDP, At, PacketInv, TypeOK
  <1>2. CASE ~filterUDP
    <2>1. Put(p, Reinject(p)) /\ UNCHANGED <<table, dnsQueue>> /\ KeepRest
      BY <1>2 DEF DispatchUDP, table
    <2> QED
      BY <1>1, <2>1, ReinjectSound, LocalStep
  <1>3. CASE filterUDP
    <2> DEFINE r == [pk[p] EXCEPT !.st = "flow", !.now = clock, !.seen = flow]
    <2>1. r \in PacketState
      <3>1. clock \in 0 .. MaxClock /\ flow \in -1 .. MaxClock
        BY DEF TypeOK
      <3> QED
        BY <1>1, <3>1 DEF PacketState
    <2>2. /\ r.st = "flow" /\ r.orig = pk[p].orig /\ r.nat = pk[p].nat
          /\ r.ans = pk[p].ans /\ r.lost = pk[p].lost
      BY <1>1 DEF PacketState
    <2>3. Put(p, r) /\ overlap' \in BOOLEAN
      BY <1>3 DEF DispatchUDP
    <2> HIDE DEF r
    <2>4. Sound(p, r)
      BY <1>1, <2>1, <2>2, MovedSound
    <2>5. /\ pk' \in [Packets -> PacketState] /\ HandleInv'
          /\ \A q \in Packets : Sound(q, pk[q])'
      BY <2>1, <2>3, <2>4, PutSound DEF DispatchUDP, KeepRest
    <2>6. TypeOK'
      BY <2>3, <2>5 DEF TypeOK, DispatchUDP, KeepRest, setup, fields
    <2>7. QueueInv'
      BY <1>1, <2>3 DEF PacketInv, QueueInv, Put, TypeOK, DispatchUDP
    <2> QED
      BY <2>5, <2>6, <2>7 DEF PacketInv
  <1> QED
    BY <1>2, <1>3

\* CheckAndRecord stores the flow's time.
LEMMA FlowStoreStep ==
  ASSUME TypeOK, PacketInv, NEW p \in Packets, FlowStore(p)
  PROVE  TypeOK' /\ PacketInv'
PROOF
  <1>1. /\ InHand(p, pk[p]) /\ pk[p].st = "flow" /\ class[p] \in {"udp", "dns"}
        /\ pk[p] \in PacketState
    BY HeldInHand DEF FlowStore, At, InHand, TypeOK
  <1> DEFINE r == [pk[p] EXCEPT !.st = "verdict", !.seen = -1, !.now = 0]
  <1>0. 0 \in 0 .. MaxClock /\ -1 \in -1 .. MaxClock
    BY PacketAssumption
  <1>2. r \in PacketState
    BY <1>0, <1>1 DEF PacketState
  <1>3. /\ r.st = "verdict" /\ r.orig = pk[p].orig /\ r.nat = pk[p].nat
        /\ r.ans = pk[p].ans /\ r.lost = pk[p].lost
    BY <1>1 DEF PacketState
  <1>4. Put(p, r) /\ overlap' \in BOOLEAN /\ reaudit' \in BOOLEAN
    BY DEF FlowStore
  <1> HIDE DEF r
  <1>5. Sound(p, r)
    BY <1>1, <1>2, <1>3, MovedSound
  <1>6. /\ pk' \in [Packets -> PacketState] /\ HandleInv'
        /\ \A q \in Packets : Sound(q, pk[q])'
    BY <1>2, <1>4, <1>5, PutSound DEF FlowStore, KeepRest
  <1>7. /\ flow' \in -1 .. MaxClock /\ lastSeen' \in -1 .. MaxClock
    <2>1. pk[p].now \in 0 .. MaxClock /\ flow \in -1 .. MaxClock
      BY <1>1 DEF PacketState, TypeOK
    <2>2. RefreshedTo(p) \in {pk[p].now, -1}
      BY DEF RefreshedTo
    <2>3. pk[p].now \in -1 .. MaxClock
      BY <2>1, PacketAssumption
    <2> QED
      BY <2>1, <2>2, <2>3 DEF FlowStore
  <1>8. TypeOK'
    BY <1>4, <1>6, <1>7 DEF TypeOK, FlowStore, KeepRest, setup, fields
  <1>9. QueueInv'
    BY <1>1, <1>4 DEF PacketInv, QueueInv, Put, TypeOK, FlowStore
  <1> QED
    BY <1>6, <1>8, <1>9 DEF PacketInv

\* The filter's verdict, a panic, and the two halves of processDNSTask.
LEMMA EndingStep ==
  ASSUME TypeOK, PacketInv, NEW p \in Packets,
         Verdict(p) \/ WorkerPanics(p) \/ CheckEngine(p) \/ AskEngine(p)
  PROVE  TypeOK' /\ PacketInv'
PROOF
  <1>1. /\ InHand(p, pk[p]) /\ pk[p].st \in {"read", "verdict", "task", "ask"} /\ HandleInv
        /\ pk[p].st # "read" => ~sniffMode
    BY HeldInHand DEF Verdict, WorkerPanics, CheckEngine, AskEngine, At, PacketInv, InHand
  <1>2. /\ KeepRest /\ UNCHANGED <<table, dnsQueue>>
    BY DEF Verdict, WorkerPanics, CheckEngine, AskEngine
  <1>3. ASSUME NEW r \in PacketState, Sound(p, r), Put(p, r) PROVE TypeOK' /\ PacketInv'
    BY <1>1, <1>2, <1>3, LocalStep
  <1>4. ASSUME Put(p, Reinject(p)), ~sniffMode PROVE TypeOK' /\ PacketInv'
    BY <1>1, <1>3, <1>4, ReinjectSound
  <1>5. ASSUME NEW why \in {"quic", "blocked", "engineOff", "panic", "engine", "closed"},
               Put(p, Lost(p, why)),
               why # "quic", why = "blocked" => p \in Blocked,
               why = "engineOff" => class[p] = "dns" /\ reloads > 0,
               why = "closed" => ctxDone
        PROVE  TypeOK' /\ PacketInv'
    BY <1>1, <1>3, <1>5, LostSound
  <1>6. CASE Verdict(p)
    BY <1>1, <1>4, <1>5, <1>6 DEF Verdict, At
  <1>7. CASE WorkerPanics(p)
    BY <1>5, <1>7 DEF WorkerPanics
  <1>8. CASE CheckEngine(p)
    <2>1. class[p] = "dns" /\ (~dnsEng => reloads > 0)
      BY <1>1, <1>8 DEF CheckEngine, At, InHand, HandleInv
    <2>2. CASE dnsEng
      <3>1. Put(p, [pk[p] EXCEPT !.st = "ask"])
        BY <1>8, <2>2 DEF CheckEngine
      <3>2. LET r == [pk[p] EXCEPT !.st = "ask"] IN r \in PacketState /\ Sound(p, r)
        BY <1>1, <2>1, Relabelled, MovedSound
      <3> QED
        BY <1>3, <3>1, <3>2
    <2>3. CASE ~dnsEng
      BY <1>5, <1>8, <2>1, <2>3 DEF CheckEngine
    <2> QED
      BY <2>2, <2>3
  <1>9. CASE AskEngine(p)
    <2>1. class[p] = "dns" /\ ~sniffMode /\ (~dnsEng => reloads > 0)
          /\ (handle = "closed" => ctxDone)
      BY <1>1, <1>9 DEF AskEngine, At, InHand, HandleInv
    <2>2. \/ Put(p, Reinject(p)) \/ Put(p, Lost(p, "engine"))
          \/ handle = "closed" /\ Put(p, Lost(p, "closed"))
          \/ Put(p, [Done(p) EXCEPT !.ans = 1])
          \/ ~dnsEng /\ Put(p, Lost(p, "engineOff"))
      BY <1>9 DEF AskEngine
    <2>3. CASE Put(p, [Done(p) EXCEPT !.ans = 1])
      BY <1>1, <1>3, <2>1, <2>3, AnsweredSound
    <2>4. CASE Put(p, Reinject(p))
      BY <1>4, <2>1, <2>4
    <2>5. CASE \/ Put(p, Lost(p, "engine"))
               \/ handle = "closed" /\ Put(p, Lost(p, "closed"))
               \/ ~dnsEng /\ Put(p, Lost(p, "engineOff"))
      BY <1>5, <2>1, <2>5
    <2> QED
      BY <2>2, <2>3, <2>4, <2>5
  <1> QED
    BY <1>6, <1>7, <1>8, <1>9

\* Steps that move no packet: the fields only change by reloads, and what is
\* known of a packet stays true.
LEMMA OtherStep ==
  ASSUME TypeOK, PacketInv,
         \/ CleanFind \/ CleanDelete \/ Cancel \/ Close \/ Tick \/ UNCHANGED vars
         \/ \E b \in BOOLEAN : SetDNSServers(b) \/ SetDryRun(b) \/ SetUDPFilter(b)
  PROVE  TypeOK' /\ PacketInv'
PROOF
  <1> USE DEF setup, fields, table, KeepPackets
  <1>1. /\ UNCHANGED <<class, sniffMode, captures, dnsQueue, pk>>
        /\ wentLive => wentLive'
        /\ ctxDone => ctxDone'
        /\ reloads > 0 => reloads' > 0
    <2>1. CASE \/ CleanFind \/ CleanDelete \/ Cancel \/ Close \/ Tick \/ UNCHANGED vars
      BY <2>1 DEF CleanFind, CleanDelete, Cancel, Close, Tick, vars
    <2>2. ASSUME NEW b \in BOOLEAN, SetDNSServers(b) \/ SetDryRun(b) \/ SetUDPFilter(b)
          PROVE  /\ UNCHANGED <<class, sniffMode, captures, dnsQueue, pk, ctxDone>>
                 /\ wentLive => wentLive'
                 /\ reloads' = reloads + 1
      <3>1. /\ UNCHANGED <<class, sniffMode, captures, dnsQueue, pk, ctxDone>>
            /\ reloads' = reloads + 1
        BY <2>2 DEF SetDNSServers, SetDryRun, SetUDPFilter, Reload
      <3>2. wentLive => wentLive'
        BY <2>2, Zenon DEF SetDNSServers, SetDryRun, SetUDPFilter
      <3> QED
        BY <3>1, <3>2
    <2>3. reloads \in Nat
      BY PacketAssumption DEF TypeOK
    <2> QED
      BY <2>1, <2>2, <2>3
  <1>2. ASSUME NEW p \in Packets PROVE Sound(p, pk[p])'
    <2>1. Sound(p, pk[p])
      BY DEF PacketInv
    <2>2. Explained(p, pk[p]) => Explained(p, pk[p])'
      BY <1>1 DEF Explained
    <2>3. Settled(p, pk[p]) => Settled(p, pk[p])'
      BY <1>1, <2>2 DEF Settled, Sum
    <2>4. InHand(p, pk[p]) => InHand(p, pk[p])'
      BY <1>1 DEF InHand
    <2> QED
      BY <1>1, <2>1, <2>3, <2>4 DEF Sound
  <1>3. QueueInv'
    BY <1>1 DEF PacketInv, QueueInv
  <1>4. HandleInv'
    <2>0. HandleInv
      BY DEF PacketInv
    <2>1. CASE CleanFind \/ CleanDelete \/ Cancel \/ Tick \/ UNCHANGED vars
      BY <2>0, <2>1 DEF HandleInv, CleanFind, CleanDelete, Cancel, Tick, vars
    <2>2. CASE Close
      BY <2>0, <2>2 DEF HandleInv, Close
    <2>3. ASSUME NEW b \in BOOLEAN, SetDNSServers(b) PROVE HandleInv'
      <3>1. reloads' > 0
        BY <2>3, PacketAssumption DEF SetDNSServers, Reload, TypeOK
      <3> QED
        BY <2>0, <2>3, <3>1 DEF HandleInv, SetDNSServers
    <2>4. ASSUME NEW b \in BOOLEAN, SetDryRun(b) PROVE HandleInv'
      <3>1. wentLive => wentLive'
        BY <1>1
      <3>2. sniffMode' /\ ~dryRun' => wentLive'
        BY <2>4, Zenon DEF SetDryRun
      <3> QED
        BY <1>1, <2>0, <2>4, <3>2 DEF HandleInv, SetDryRun
    <2>5. ASSUME NEW b \in BOOLEAN, SetUDPFilter(b) PROVE HandleInv'
      BY <1>1, <2>0, <2>5 DEF HandleInv, SetUDPFilter
    <2> QED
      BY <2>1, <2>2, <2>3, <2>4, <2>5
  <1>5. TypeOK'
    <2>1. ASSUME NEW b \in BOOLEAN, SetDNSServers(b) \/ SetDryRun(b) \/ SetUDPFilter(b)
          PROVE  TypeOK'
      <3>1. reloads' \in 0 .. MaxReloads
        BY <2>1, PacketAssumption
        DEF SetDNSServers, SetDryRun, SetUDPFilter, Reload, TypeOK
      <3>2. dryRun' \in BOOLEAN /\ dnsEng' \in BOOLEAN /\ filterUDP' \in BOOLEAN
            /\ wentLive' \in BOOLEAN
        BY <2>1 DEF SetDNSServers, SetDryRun, SetUDPFilter, TypeOK
      <3> QED
        BY <2>1, <3>1, <3>2 DEF SetDNSServers, SetDryRun, SetUDPFilter, TypeOK
    <2>2. CASE CleanFind
      BY <2>2 DEF CleanFind, TypeOK
    <2>3. CASE CleanDelete
      BY <2>3, PacketAssumption DEF CleanDelete, TypeOK
    <2>4. CASE Cancel \/ Close \/ UNCHANGED vars
      BY <2>4 DEF Cancel, Close, vars, TypeOK
    <2>5. CASE Tick
      BY <2>5, PacketAssumption DEF Tick, TypeOK
    <2> QED
      BY <2>1, <2>2, <2>3, <2>4, <2>5
  <1> QED
    BY <1>2, <1>3, <1>4, <1>5 DEF PacketInv

\* The initial states.
LEMMA PacketInit == Init => TypeOK /\ PacketInv
PROOF
  <1> SUFFICES ASSUME Init PROVE TypeOK /\ PacketInv
    OBVIOUS
  <1>1. /\ Fresh \in PacketState /\ Fresh.st = "new"
        /\ Fresh.orig = 0 /\ Fresh.nat = 0 /\ Fresh.ans = 0 /\ Fresh.lost = "no"
    BY PacketAssumption DEF Fresh, PacketState
  <1>2. pk \in [Packets -> PacketState] /\ \A p \in Packets : pk[p] = Fresh
    BY <1>1 DEF Init
  <1>3. \A p \in Packets : Sound(p, pk[p])
    BY <1>1, <1>2 DEF Sound
  <1>4. /\ captures \subseteq Classes /\ (dryRun => captures \subseteq {"tcp"})
        /\ dryRun \in BOOLEAN /\ filterUDP \in BOOLEAN /\ sniffMode = dryRun
        /\ handle = IF dryRun THEN "sniff" ELSE "divert"
    BY DEF Init, Classes
  <1>5. /\ dnsQueue = <<>> /\ dnsEng = TRUE /\ ctxDone = FALSE /\ wentLive = FALSE
        /\ overlap = FALSE /\ reaudit = FALSE
    BY Zenon DEF Init
  <1>6. HandleInv
    BY <1>4, <1>5 DEF HandleInv
  <1>7. QueueInv /\ Len(dnsQueue) = 0 /\ dnsQueue \in Seq(Packets)
    BY <1>5 DEF QueueInv
  <1>8. TypeOK
    <2>1. /\ clock \in 0 .. MaxClock /\ flow \in -1 .. MaxClock /\ lastSeen \in -1 .. MaxClock
          /\ reloads \in 0 .. MaxReloads /\ 0 <= QueueCap
      BY PacketAssumption DEF Init
    <2>2. class \in Traffic /\ cleaner = "idle"
      BY DEF Init
    <2>3. handle \in {"divert", "sniff", "closed"}
      BY <1>4
    <2>4. {sniffMode, dryRun, dnsEng, filterUDP, ctxDone, wentLive, overlap, reaudit}
            \subseteq BOOLEAN
      BY <1>4, <1>5
    <2> QED
      BY <1>2, <1>4, <1>7, <2>1, <2>2, <2>3, <2>4 DEF TypeOK
  <1> QED
    BY <1>3, <1>6, <1>7, <1>8 DEF PacketInv

\* Every step keeps the types and what is known of the packets.
LEMMA PacketStep ==
  ASSUME TypeOK, PacketInv, [Next]_vars
  PROVE  TypeOK' /\ PacketInv'
BY ArriveStep, DispatchStep, DispatchDNSStep, DispatchUDPStep, FlowStoreStep, EndingStep,
   TakeTaskStep, OtherStep DEF Next, Work

\* Types, and what is known of the packets, in every reachable state.
LEMMA PacketInvariant == Spec => [](TypeOK /\ PacketInv)
BY PacketInit, PacketStep, PTL DEF Spec

\* Whatever reloads, panics and the shutdown do, the variables keep their types;
\* in particular the queue of DNS tasks never holds more than its capacity.
THEOREM PacketTypeCorrect == Spec => []TypeOK
BY PacketInvariant, PTL

\* For any traffic, queue capacity and number of reloads, a packet reaches the
\* network or is answered at most once, except through a handle opened for a
\* dry run that a reload has ended.
THEOREM PacketsAreNotCopied == Spec => []OneCopy
PROOF
  <1>1. TypeOK /\ PacketInv => OneCopy
    <2> SUFFICES ASSUME TypeOK, PacketInv, NEW p \in Packets
                 PROVE  pk[p].orig + pk[p].nat + pk[p].ans <= 1 \/ (wentLive /\ class[p] = "tcp")
      BY DEF OneCopy
    <2>1. pk[p] \in PacketState /\ Sound(p, pk[p])
      BY DEF TypeOK, PacketInv
    <2>2. CASE pk[p].st = "done"
      BY <2>1, <2>2 DEF Sound, Settled, Sum
    <2>3. CASE pk[p].st # "done"
      <3>1. pk[p].orig \in 0 .. 1 /\ pk[p].nat = 0 /\ pk[p].ans = 0
        BY <2>1, <2>3 DEF Sound, InHand
      <3> QED
        BY <3>1
    <2> QED
      BY <2>2, <2>3
  <1> QED
    BY <1>1, PacketInvariant, PTL

\* A packet the loop ends without sending or answering it was dropped on
\* purpose, or met a panic, an engine without an answer, a reload that took the
\* engine away or a closed handle.
THEOREM LossesAreExplained == Spec => []LossIsExplained
PROOF
  <1>1. PacketInv => LossIsExplained
    BY DEF PacketInv, Sound, Settled, Explained, Sum, LossIsExplained, Finished, At
  <1> QED
    BY <1>1, PacketInvariant, PTL

-----------------------------------------------------------------------------
(* The flow table.                                                         *)

\* By time t the flow has been silent for longer than the TTL less the refresh
\* interval, if it was ever seen.
SilentAt(t) == lastSeen = -1 \/ t - lastSeen > TTL - Refresh

\* An entry written at time t lags behind the flow's last packet by less than
\* the refresh interval.
Current(t) == lastSeen >= t /\ (lastSeen = t \/ lastSeen - t < Refresh)

\* What the one worker in CheckAndRecord has loaded is what the table holds, or
\* an entry so old that the packet begins a new flow anyway.
Loaded(p) ==
  /\ pk[p].now <= clock /\ lastSeen <= pk[p].now
  /\ pk[p].seen = -1 => flow = -1 /\ SilentAt(pk[p].now)
  /\ pk[p].seen # -1 => Current(pk[p].seen)
  /\ flow = pk[p].seen \/ pk[p].now - pk[p].seen > TTL
  /\ cleaner = "found" => pk[p].seen = flow /\ pk[p].now - flow > TTL

TableInv ==
  /\ \A p, q \in Packets : At(p, "flow") /\ At(q, "flow") => p = q
  /\ lastSeen <= clock
  /\ flow # -1 => Current(flow)
  /\ flow = -1 => SilentAt(clock)
  /\ cleaner = "found" => flow # -1 /\ clock - flow > TTL
  /\ \A p \in Packets : At(p, "flow") => Loaded(p)

FlowInv == (~overlap => TableInv) /\ ReauditNeedsOverlap

\* A step that neither touches the table nor puts a packet into it.
LEMMA TableKept ==
  ASSUME TableInv, UNCHANGED <<flow, lastSeen, cleaner, clock>>,
         \A q \in Packets : pk'[q].st = "flow" => pk'[q] = pk[q]
  PROVE  TableInv'
BY DEF TableInv, Loaded, SilentAt, Current, At

\* A packet that leaves for anywhere else does not.
LEMMA ElsewhereKept ==
  ASSUME TypeOK, NEW p \in Packets, NEW r, r.st # "flow", Put(p, r)
  PROVE  \A q \in Packets : pk'[q].st = "flow" => pk'[q] = pk[q]
BY DEF Put, TypeOK

\* The labels of the records that end a packet.
LEMMA EndedLabel ==
  ASSUME TypeOK, NEW p \in Packets
  PROVE  /\ Reinject(p).st = "done" /\ Done(p).st = "done"
         /\ \A why : Lost(p, why).st = "done"
         /\ [Done(p) EXCEPT !.nat = 1].st = "done" /\ [Done(p) EXCEPT !.ans = 1].st = "done"
         /\ \A st : [pk[p] EXCEPT !.st = st].st = st
         /\ \A st, n : [pk[p] EXCEPT !.st = st, !.orig = n].st = st
PROOF
  <1>1. pk[p] \in PacketState
    BY DEF TypeOK
  <1>2. Done(p).st = "done" /\ Done(p) \in PacketState
    BY <1>1 DEF Done, PacketState
  <1>3. \A why : Lost(p, why).st = "done"
    BY <1>2 DEF Lost, PacketState
  <1>4. \A n : [Done(p) EXCEPT !.orig = n].st = "done"
    BY <1>2 DEF PacketState
  <1>5. [Done(p) EXCEPT !.nat = 1].st = "done" /\ [Done(p) EXCEPT !.ans = 1].st = "done"
    BY <1>2 DEF PacketState
  <1>6. Reinject(p).st = "done"
    BY <1>3, <1>4 DEF Reinject
  <1>7. \A st : [pk[p] EXCEPT !.st = st].st = st
    BY <1>1 DEF PacketState
  <1>8. \A st, n : [pk[p] EXCEPT !.st = st, !.orig = n].st = st
    BY <1>1 DEF PacketState
  <1> QED
    BY <1>2, <1>3, <1>5, <1>6, <1>7, <1>8

\* A worker loads the entry.
LEMMA LoadStep ==
  ASSUME TypeOK, TableInv, NEW p \in Packets, DispatchUDP(p), filterUDP, ~overlap'
  PROVE  TableInv'
PROOF
  <1>1. /\ UNCHANGED <<flow, lastSeen, cleaner, clock>> /\ pk[p].st = "read"
        /\ pk' = [pk EXCEPT ![p] = [pk[p] EXCEPT !.st = "flow", !.now = clock, !.seen = flow]]
    BY DEF DispatchUDP, KeepRest, Put, At
  <1>2. \A q \in Packets : pk[q].st # "flow"
    BY Zenon DEF DispatchUDP, At
  <1>3. /\ pk'[p].st = "flow" /\ pk'[p].now = clock /\ pk'[p].seen = flow
        /\ \A q \in Packets : q # p => pk'[q].st # "flow"
    BY <1>1, <1>2 DEF TypeOK, PacketState
  <1>4. clock \in Int /\ flow \in Int /\ lastSeen \in Int /\ TTL \in Nat /\ Refresh \in Nat
    BY PacketAssumption DEF TypeOK
  <1>5. Loaded(p)'
    BY <1>1, <1>3, <1>4 DEF Loaded, TableInv, SilentAt, Current
  <1> QED
    BY <1>1, <1>3, <1>5 DEF TableInv, SilentAt, Current, At

\* It stores the time; the flow is logged again only after a silence.
LEMMA StoreStep ==
  ASSUME TypeOK, TableInv, NEW p \in Packets, FlowStore(p), ~overlap'
  PROVE  /\ TableInv'
         /\ ~(IsNewFlow(p) /\ lastSeen # -1 /\ pk[p].now - lastSeen <= TTL - Refresh)
PROOF
  <1>1. /\ pk[p].st = "flow" /\ UNCHANGED <<cleaner, clock>>
        /\ pk' = [pk EXCEPT ![p] = [pk[p] EXCEPT !.st = "verdict", !.seen = -1, !.now = 0]]
        /\ lastSeen' = pk[p].now
    BY DEF FlowStore, KeepRest, Put, At
  <1>2. cleaner = "idle"
    <2>1. cleaner # "found"
      BY Zenon DEF FlowStore
    <2> QED
      BY <2>1 DEF TypeOK
  <1>3. \A q \in Packets : pk'[q].st # "flow"
    BY <1>1 DEF TypeOK, PacketState, TableInv, At
  <1> DEFINE now == pk[p].now
             seen == pk[p].seen
  <1>4. /\ clock \in Int /\ flow \in Int /\ lastSeen \in Int /\ TTL \in Nat /\ Refresh \in Nat
        /\ now \in Nat /\ seen \in Int /\ pk[p] \in PacketState
    BY PacketAssumption DEF TypeOK, PacketState
  <1>5. Loaded(p)
    BY <1>1 DEF TableInv, At
  <1>6. ~(IsNewFlow(p) /\ lastSeen # -1 /\ now - lastSeen <= TTL - Refresh)
    BY <1>4, <1>5 DEF Loaded, SilentAt, Current, IsNewFlow
  <1>7. flow' = now \/ (flow' = flow /\ flow = seen /\ seen # -1 /\ now - seen < Refresh)
    BY <1>4, <1>5 DEF FlowStore, IsNewFlow, RefreshedTo, Loaded
  <1>8. now <= clock /\ (seen # -1 => seen <= now)
    BY <1>4, <1>5 DEF Loaded, Current
  <1>9. flow' # -1 /\ (lastSeen' >= flow' /\ (lastSeen' = flow' \/ lastSeen' - flow' < Refresh))
    BY <1>1, <1>4, <1>7, <1>8
  <1>10. TableInv'
    BY <1>1, <1>2, <1>3, <1>8, <1>9 DEF TableInv, Current, At
  <1> QED
    BY <1>6, <1>10

\* Cleanup, and time.
LEMMA CleanAndTickStep ==
  ASSUME TypeOK, TableInv, CleanFind \/ CleanDelete \/ Tick, ~overlap'
  PROVE  TableInv'
PROOF
  <1>1. clock \in Int /\ flow \in Int /\ lastSeen \in Int /\ TTL \in Nat /\ Refresh \in Nat
        /\ \A p \in Packets : pk[p].now \in Int /\ pk[p].seen \in Int
    BY PacketAssumption DEF TypeOK, PacketState
  <1>2. CASE CleanFind
    <2>1. \A q \in Packets : pk[q].st # "flow"
      BY <1>2, Zenon DEF CleanFind, At
    <2> QED
      BY <1>2, <2>1 DEF CleanFind, TableInv, Current, SilentAt, At
  <1>3. CASE CleanDelete
    <2>1. /\ UNCHANGED <<clock, lastSeen, pk>> /\ flow' = -1 /\ cleaner' = "idle"
          /\ cleaner = "found"
      BY <1>3 DEF CleanDelete
    <2>2. SilentAt(clock)
      BY <1>1, <2>1 DEF TableInv, Current, SilentAt
    <2>3. ASSUME NEW p \in Packets, At(p, "flow") PROVE Loaded(p)'
      <3>1. Loaded(p) /\ clock - flow > TTL /\ flow # -1
        BY <2>1, <2>3 DEF TableInv
      <3>2. pk[p].seen # -1 /\ pk[p].now - pk[p].seen > TTL
        BY <2>1, <3>1 DEF Loaded
      <3> QED
        BY <2>1, <3>1, <3>2 DEF Loaded, Current, SilentAt
    <2> QED
      BY <2>1, <2>2, <2>3 DEF TableInv, SilentAt, At
  <1>4. CASE Tick
    <2>1. /\ UNCHANGED <<flow, lastSeen, cleaner, pk>> /\ clock' = clock + 1
      BY <1>4 DEF Tick, table
    <2>2. ASSUME NEW p \in Packets, At(p, "flow") PROVE Loaded(p)'
      <3>1. Loaded(p)
        BY <2>2 DEF TableInv
      <3> QED
        BY <1>1, <2>1, <3>1 DEF Loaded, Current, SilentAt
    <2> QED
      BY <1>1, <2>1, <2>2 DEF TableInv, Current, SilentAt, At
  <1> QED
    BY <1>2, <1>3, <1>4

\* Every step keeps the table as it should be, until two goroutines overlap.
LEMMA FlowStep ==
  ASSUME TypeOK, FlowInv, [Next]_vars
  PROVE  FlowInv'
PROOF
  <1>1. ASSUME UNCHANGED table, UNCHANGED <<cleaner, clock>>,
               \A q \in Packets : pk'[q].st = "flow" => pk'[q] = pk[q]
        PROVE  FlowInv'
    BY <1>1, TableKept DEF FlowInv, ReauditNeedsOverlap, table
  <1>2. ASSUME NEW p \in Packets, NEW r, r.st # "flow", Put(p, r), UNCHANGED table, KeepRest
        PROVE  FlowInv'
    BY <1>1, <1>2, ElsewhereKept DEF KeepRest
  <1>3. ASSUME NEW p \in Packets, Arrive(p) PROVE FlowInv'
    <2>1. \E r : r.st # "flow" /\ Put(p, r)
      <3>1. PICK n : n = IF handle = "sniff" THEN 1 ELSE 0
        OBVIOUS
      <3>2. \/ Put(p, [pk[p] EXCEPT !.st = "done", !.orig = 1])
            \/ Put(p, [pk[p] EXCEPT !.st = "read", !.orig = n])
        BY <1>3, <3>1 DEF Arrive
      <3>3. /\ [pk[p] EXCEPT !.st = "done", !.orig = 1].st # "flow"
            /\ [pk[p] EXCEPT !.st = "read", !.orig = n].st # "flow"
        BY EndedLabel
      <3> QED
        BY <3>2, <3>3, Zenon
    <2>2. UNCHANGED table /\ KeepRest
      BY <1>3 DEF Arrive
    <2> QED
      BY <1>2, <2>1, <2>2
  <1>4. ASSUME NEW p \in Packets, DispatchTCP(p) PROVE FlowInv'
    <2>1. \E r : r.st # "flow" /\ Put(p, r)
      <3>1. CASE dryRun
        <4>1. Put(p, Done(p)) \/ Put(p, Reinject(p))
          BY <1>4, <3>1 DEF DispatchTCP
        <4> QED
          BY <4>1, EndedLabel, Zenon
      <3>2. CASE ~dryRun
        <4>1. \/ Put(p, Lost(p, "closed"))
              \/ Put(p, [Done(p) EXCEPT !.nat = 1])
              \/ Put(p, Reinject(p))
          BY <1>4, <3>2 DEF DispatchTCP
        <4> QED
          BY <4>1, EndedLabel, Zenon
      <3> QED
        BY <3>1, <3>2
    <2>2. UNCHANGED table /\ KeepRest
      BY <1>4 DEF DispatchTCP
    <2> QED
      BY <1>2, <2>1, <2>2
  <1>5. ASSUME NEW p \in Packets, DispatchQUIC(p) PROVE FlowInv'
    <2>1. \E r : r.st # "flow" /\ Put(p, r)
      BY <1>5, EndedLabel DEF DispatchQUIC
    <2>2. UNCHANGED table /\ KeepRest
      BY <1>5 DEF DispatchQUIC
    <2> QED
      BY <1>2, <2>1, <2>2
  <1>6. ASSUME NEW p \in Packets, DispatchDNS(p) PROVE FlowInv'
    <2>1. \E r : r.st # "flow" /\ Put(p, r)
      <3>1. \/ Put(p, [pk[p] EXCEPT !.st = "queued"])
            \/ Put(p, [pk[p] EXCEPT !.st = "task"])
        BY <1>6 DEF DispatchDNS
      <3>2. [pk[p] EXCEPT !.st = "queued"].st # "flow" /\ [pk[p] EXCEPT !.st = "task"].st # "flow"
        BY EndedLabel
      <3> QED
        BY <3>1, <3>2, Zenon
    <2>2. UNCHANGED table /\ KeepRest
      BY <1>6 DEF DispatchDNS
    <2> QED
      BY <1>2, <2>1, <2>2
  <1>7. ASSUME NEW p \in Packets, Verdict(p) PROVE FlowInv'
    <2>1. \E r : r.st # "flow" /\ Put(p, r)
      <3>1. Put(p, Lost(p, "blocked")) \/ Put(p, Reinject(p))
        BY <1>7 DEF Verdict
      <3> QED
        BY <3>1, EndedLabel, Zenon
    <2>2. UNCHANGED table /\ KeepRest
      BY <1>7 DEF Verdict
    <2> QED
      BY <1>2, <2>1, <2>2
  <1>8. ASSUME NEW p \in Packets, WorkerPanics(p) PROVE FlowInv'
    <2>1. \E r : r.st # "flow" /\ Put(p, r)
      BY <1>8, EndedLabel DEF WorkerPanics
    <2>2. UNCHANGED table /\ KeepRest
      BY <1>8 DEF WorkerPanics
    <2> QED
      BY <1>2, <2>1, <2>2
  <1>9. ASSUME NEW p \in Packets, CheckEngine(p) PROVE FlowInv'
    <2>1. \E r : r.st # "flow" /\ Put(p, r)
      <3>1. Put(p, Lost(p, "engineOff")) \/ Put(p, [pk[p] EXCEPT !.st = "ask"])
        BY <1>9 DEF CheckEngine
      <3>2. Lost(p, "engineOff").st # "flow" /\ [pk[p] EXCEPT !.st = "ask"].st # "flow"
        BY EndedLabel
      <3> QED
        BY <3>1, <3>2, Zenon
    <2>2. UNCHANGED table /\ KeepRest
      BY <1>9 DEF CheckEngine
    <2> QED
      BY <1>2, <2>1, <2>2
  <1>10. ASSUME NEW p \in Packets, AskEngine(p) PROVE FlowInv'
    <2>1. \E r : r.st # "flow" /\ Put(p, r)
      <3>1. \/ Put(p, Reinject(p)) \/ Put(p, Lost(p, "engine")) \/ Put(p, Lost(p, "closed"))
            \/ Put(p, [Done(p) EXCEPT !.ans = 1]) \/ Put(p, Lost(p, "engineOff"))
        BY <1>10 DEF AskEngine
      <3> QED
        BY <3>1, EndedLabel, Zenon
    <2>2. UNCHANGED table /\ KeepRest
      BY <1>10 DEF AskEngine
    <2> QED
      BY <1>2, <2>1, <2>2
  <1>11. CASE TakeTask
    <2>1. PICK p \in Packets : p = Head(dnsQueue)
      BY <1>11 DEF TakeTask, TypeOK
    <2>2. Put(p, [pk[p] EXCEPT !.st = "task"]) /\ UNCHANGED table /\ KeepRest
      BY <1>11, <2>1 DEF TakeTask
    <2>3. \E r : r.st # "flow" /\ Put(p, r)
      <3>1. [pk[p] EXCEPT !.st = "task"].st # "flow"
        BY EndedLabel
      <3> QED
        BY <2>2, <3>1, Zenon
    <2> QED
      BY <1>2, <2>2, <2>3
  <1>12. ASSUME NEW p \in Packets, DispatchUDP(p) PROVE FlowInv'
    <2>1. CASE ~filterUDP
      <3>1. Put(p, Reinject(p)) /\ UNCHANGED table /\ KeepRest
        BY <1>12, <2>1 DEF DispatchUDP, table
      <3> QED
        BY <1>2, <3>1, EndedLabel
    <2>2. CASE filterUDP
      <3>1. (~overlap' => ~overlap) /\ reaudit' = reaudit
        BY <1>12, <2>2, Zenon DEF DispatchUDP
      <3>2. ReauditNeedsOverlap'
        BY <3>1, Zenon DEF FlowInv, ReauditNeedsOverlap
      <3> QED
        BY <1>12, <2>2, <3>1, <3>2, LoadStep DEF FlowInv
    <2> QED
      BY <2>1, <2>2
  <1>13. ASSUME NEW p \in Packets, FlowStore(p) PROVE FlowInv'
    <2>1. ~overlap' => ~overlap
      BY <1>13, Zenon DEF FlowStore
    <2>2. ~overlap' => TableInv' /\ ~reaudit'
      <3> SUFFICES ASSUME ~overlap' PROVE TableInv' /\ ~reaudit'
        OBVIOUS
      <3>1. /\ TableInv'
            /\ ~(IsNewFlow(p) /\ lastSeen # -1 /\ pk[p].now - lastSeen <= TTL - Refresh)
        BY <1>13, <2>1, StoreStep DEF FlowInv
      <3>2. ~reaudit
        BY <2>1, Zenon DEF FlowInv, ReauditNeedsOverlap
      <3> QED
        BY <1>13, <3>1, <3>2, Zenon DEF FlowStore
    <2> QED
      BY <2>2 DEF FlowInv, ReauditNeedsOverlap
  <1>14. CASE CleanFind \/ CleanDelete \/ Tick
    <2>1. (~overlap' => ~overlap) /\ reaudit' = reaudit
      <3>1. CASE CleanFind
        BY <3>1, Zenon DEF CleanFind
      <3>2. CASE CleanDelete \/ Tick
        <4>1. overlap' = overlap /\ reaudit' = reaudit
          BY <3>2 DEF CleanDelete, Tick, table
        <4> QED
          BY <4>1, Zenon
      <3> QED
        BY <1>14, <3>1, <3>2
    <2>2. ReauditNeedsOverlap'
      BY <2>1, Zenon DEF FlowInv, ReauditNeedsOverlap
    <2> QED
      BY <1>14, <2>1, <2>2, CleanAndTickStep DEF FlowInv
  <1>15. CASE \/ Cancel \/ Close \/ UNCHANGED vars
              \/ \E b \in BOOLEAN : SetDNSServers(b) \/ SetDryRun(b) \/ SetUDPFilter(b)
    BY <1>1, <1>15
    DEF Cancel, Close, vars, SetDNSServers, SetDryRun, SetUDPFilter, KeepPackets
  <1> QED
    BY <1>3, <1>4, <1>5, <1>6, <1>7, <1>8, <1>9, <1>10, <1>11, <1>12, <1>13, <1>14, <1>15
    DEF Next, Work

\* For any TTL, refresh interval and traffic, CheckAndRecord reports a flow as
\* new again only after a silence longer than the TTL less the refresh interval,
\* unless two goroutines were in the table at once.
THEOREM ReauditsNeedOverlap == Spec => []ReauditNeedsOverlap
PROOF
  <1>1. Init => FlowInv
    <2> SUFFICES ASSUME Init PROVE FlowInv
      OBVIOUS
    <2>1. \A p \in Packets : pk[p].st # "flow"
      BY DEF Init, Fresh
    <2>2. ReauditNeedsOverlap
      BY Zenon DEF Init, ReauditNeedsOverlap
    <2>3. lastSeen = -1 /\ flow = -1 /\ clock = 0 /\ cleaner = "idle"
      BY DEF Init
    <2> QED
      BY <2>1, <2>2, <2>3 DEF FlowInv, TableInv, At, SilentAt
  <1>2. TypeOK /\ FlowInv /\ [Next]_vars => FlowInv'
    BY FlowStep
  <1>3. FlowInv => ReauditNeedsOverlap
    BY DEF FlowInv
  <1> QED
    BY <1>1, <1>2, <1>3, PacketTypeCorrect, PTL DEF Spec

=============================================================================
