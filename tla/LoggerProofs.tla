---------------------------- MODULE LoggerProofs ----------------------------
(***************************************************************************)
(* Proofs about the asynchronous logger, for any messages, any capacity    *)
(* and any number of switches and flushes: what a queue took is written    *)
(* once and in order, and what is lost has a cause.                        *)
(***************************************************************************)
EXTENDS Logger, SequenceTheorems, TLAPS

-----------------------------------------------------------------------------
(* The invariant.                                                          *)

\* The messages a are those written, those in the buffer and those queued.
Kept(a, wr, b, q) == a = wr \o b \o q

\* The queue of a writer, what it took and what became of it.
QueueInv ==
  \A w \in Writers :
    /\ Kept(accepted[w], written[w], buffer[w], queue[w])
    /\ worker[w] = "done"
         => w \in shut /\ queue[w] = <<>> /\ (buffer[w] = <<>> \/ w \in broken)

\* A drop that was counted is reported with the message queued behind it, unless
\* a Flush took that message or there was none.
DropInv ==
  \A w \in Writers : dropped[w] = 0 \/ w \in drained \/ w \in late \/ queue[w] # <<>>

\* The Write in progress.
CallInv ==
  /\ \A m \in Msgs : msg[m] \in {"write", "dropping"} <=> outMu = m
  /\ outMu # None => output \in Writers

\* Switching from one writer to the next.
SwitchInv ==
  /\ writerMu = None <=> reload = "idle"
  /\ reload # "idle" => setups > 0
  /\ reload \in {"closing", "shutting", "waiting"} => globalWriter # 0
  /\ reload \in {"shutting", "waiting"} => globalWriter \in closed
  /\ reload = "open" => globalWriter = 0
  /\ globalWriter # 0 => output = globalWriter /\ worker[globalWriter] # "none"
  /\ globalWriter \in closed => reload \in {"shutting", "waiting"}
  /\ \A w \in closed : worker[w] # "none"
  /\ \A w \in Writers : w > setups \/ (w = setups /\ reload # "idle") => worker[w] = "none"

\* What main does with the writer it holds.
MainInv ==
  /\ main \in {"flush", "request", "reply", "flushed", "closing", "shutting", "waiting"}
       => held # 0 /\ worker[held] # "none"
  /\ main \in {"closing", "shutting", "waiting"} => held # globalWriter
  /\ main = "shutting" => held \in closed
  /\ main \in {"request", "reply", "flushed"} => before <= Len(accepted[held])
  /\ main = "flushed" => before <= Len(written[held]) \/ held \in broken
  /\ \A w \in Writers : worker[w] = "draining" => main = "reply" /\ held = w

LoggerInv == TypeOK /\ QueueInv /\ DropInv /\ CallInv /\ SwitchInv /\ MainInv

-----------------------------------------------------------------------------
(* Sequences.                                                              *)

\* A message that the queue takes, ...
LEMMA KeptSend ==
  ASSUME NEW a \in Seq(Msgs), NEW wr \in Seq(Msgs), NEW b \in Seq(Msgs), NEW q \in Seq(Msgs),
         Kept(a, wr, b, q), NEW m \in Msgs
  PROVE  Kept(Append(a, m), wr, b, Append(q, m))
PROOF
  <1> DEFINE s == wr \o b
  <1>1. s \in Seq(Msgs)
    BY ConcatProperties
  <1>2. a = s \o q
    BY DEF Kept
  <1> HIDE DEF s
  <1>3. <<m>> \in Seq(Msgs) /\ Append(q, m) = q \o <<m>>
    OBVIOUS
  <1>4. s \o q \in Seq(Msgs)
    BY <1>1, ConcatProperties
  <1>5. Append(s \o q, m) = (s \o q) \o <<m>>
    BY <1>4
  <1>6. (s \o q) \o <<m>> = s \o (q \o <<m>>)
    <2>1. PICK u \in Seq(Msgs) : u = <<m>>
      BY <1>3
    <2>2. PICK v \in Seq(Msgs) : v = s
      BY <1>1
    <2>3. (v \o q) \o u = v \o (q \o u)
      BY ConcatAssociative
    <2> QED
      BY <2>1, <2>2, <2>3, Zenon
  <1> QED
    BY <1>2, <1>3, <1>5, <1>6, Zenon DEF Kept, s

\* Concatenation, as an operator of its own, ...
Cat(s, t) == s \o t

\* ... which is associative, ...
LEMMA CatAssociative ==
  ASSUME NEW s \in Seq(Msgs), NEW t \in Seq(Msgs), NEW u \in Seq(Msgs)
  PROVE  Cat(Cat(s, t), u) = Cat(s, Cat(t, u)) /\ Cat(s, t) \in Seq(Msgs)
BY ConcatAssociative, ConcatProperties DEF Cat

\* ... so that sequences may be regrouped.
LEMMA Regroup ==
  ASSUME NEW r \in Seq(Msgs), NEW s \in Seq(Msgs), NEW v \in Seq(Msgs), NEW t \in Seq(Msgs)
  PROVE  Cat(Cat(r, s), Cat(v, t)) = Cat(Cat(r, Cat(s, v)), t)
BY CatAssociative

\* ... that the worker takes from it, ...
LEMMA KeptTake ==
  ASSUME NEW a \in Seq(Msgs), NEW wr \in Seq(Msgs), NEW b \in Seq(Msgs), NEW q \in Seq(Msgs),
         Kept(a, wr, b, q), q # <<>>
  PROVE  /\ Kept(a, wr, Append(b, Head(q)), Tail(q))
         /\ Append(b, Head(q)) \in Seq(Msgs) /\ Tail(q) \in Seq(Msgs) /\ Len(Tail(q)) <= Len(q)
PROOF
  <1> DEFINE e == Head(q)
             t == Tail(q)
  <1>1. e \in Msgs /\ t \in Seq(Msgs) /\ Len(t) = Len(q) - 1 /\ Len(q) \in Nat
    BY HeadTailProperties, LenProperties
  <1>2. q = <<e>> \o t
    <2>1. e = q[1] /\ \A i \in 1 .. Len(q) - 1 : t[i] = q[i + 1]
      BY <1>1, HeadTailProperties
    <2>2. <<e>> \in Seq(Msgs) /\ Len(<<e>>) = 1 /\ <<e>>[1] = e
      BY <1>1
    <2> DEFINE u == <<e>> \o t
    <2>3. /\ u \in Seq(Msgs) /\ Len(u) = 1 + Len(t)
          /\ \A i \in 1 .. 1 + Len(t) : u[i] = IF i <= 1 THEN <<e>>[i] ELSE t[i - 1]
      BY <1>1, <2>2, ConcatProperties
    <2> HIDE DEF u, e, t
    <2>4. ASSUME NEW i \in 1 .. Len(q) PROVE q[i] = u[i]
      <3>1. CASE i = 1
        BY <1>1, <2>1, <2>2, <2>3, <3>1
      <3>2. CASE i # 1
        BY <1>1, <2>1, <2>3, <3>2
      <3> QED
        BY <3>1, <3>2
    <2>5. Len(q) = Len(u)
      BY <1>1, <2>3
    <2>6. q = u
      BY <2>3, <2>4, <2>5, SeqEqual
    <2> QED
      BY <2>6, Zenon DEF u
  <1> HIDE DEF e, t
  <1>3. <<e>> \in Seq(Msgs) /\ Append(b, e) = b \o <<e>> /\ Append(b, e) \in Seq(Msgs)
    BY <1>1, AppendProperties
  <1>4. Cat(Cat(wr, b), Cat(<<e>>, t)) = Cat(Cat(wr, Cat(b, <<e>>)), t)
    <2>1. PICK v \in Seq(Msgs) : v = <<e>>
      BY <1>3
    <2>2. t \in Seq(Msgs)
      BY <1>1
    <2>3. Cat(Cat(wr, b), Cat(v, t)) = Cat(Cat(wr, Cat(b, v)), t)
      BY <2>2, Regroup
    <2> QED
      BY <2>1, <2>3, Zenon
  <1>5. Kept(a, wr, Append(b, e), t)
    BY <1>2, <1>3, <1>4, Zenon DEF Kept, Cat
  <1> QED
    BY <1>1, <1>3, <1>5 DEF e, t

\* A sequence is its two parts.
LEMMA Parts ==
  ASSUME NEW b \in Seq(Msgs), NEW n \in 0..Len(b)
  PROVE  /\ SubSeq(b, 1, n) \in Seq(Msgs) /\ SubSeq(b, n + 1, Len(b)) \in Seq(Msgs)
         /\ b = SubSeq(b, 1, n) \o SubSeq(b, n + 1, Len(b))
PROOF
  <1> DEFINE c == SubSeq(b, 1, n)
             d == SubSeq(b, n + 1, Len(b))
             u == c \o d
  <1>1. Len(b) \in Nat /\ n \in Int /\ n + 1 \in Int /\ 1 \in Int /\ \A i \in 1..Len(b) : b[i] \in Msgs
    BY LenProperties, ElementOfSeq
  <1>2. /\ c \in Seq(Msgs) /\ Len(c) = n /\ \A i \in 1..n : c[i] = b[i]
    <2>1. \A i \in 1..n : b[i] \in Msgs
      BY <1>1
    <2>2. /\ c \in Seq(Msgs) /\ Len(c) = IF 1 <= n THEN n - 1 + 1 ELSE 0
          /\ \A i \in 1 .. n - 1 + 1 : c[i] = b[1 + i - 1]
      BY <1>1, <2>1, SubSeqProperties
    <2> HIDE DEF c
    <2> QED
      BY <2>2
  <1>3. /\ d \in Seq(Msgs) /\ Len(d) = Len(b) - n /\ \A i \in 1 .. Len(b) - n : d[i] = b[n + i]
    <2>1. \A i \in n + 1 .. Len(b) : b[i] \in Msgs
      BY <1>1
    <2>2. /\ d \in Seq(Msgs) /\ Len(d) = IF n + 1 <= Len(b) THEN Len(b) - (n + 1) + 1 ELSE 0
          /\ \A i \in 1 .. Len(b) - (n + 1) + 1 : d[i] = b[n + 1 + i - 1]
      BY <1>1, <2>1, SubSeqProperties
    <2> HIDE DEF d
    <2> QED
      BY <1>1, <2>2
  <1> HIDE DEF c, d
  <1>4. /\ u \in Seq(Msgs) /\ Len(u) = Len(c) + Len(d)
        /\ \A i \in 1 .. Len(c) + Len(d) : u[i] = IF i <= Len(c) THEN c[i] ELSE d[i - Len(c)]
    BY <1>2, <1>3, ConcatProperties
  <1> HIDE DEF u
  <1>5. Len(u) = Len(b)
    BY <1>1, <1>2, <1>3, <1>4
  <1>6. ASSUME NEW i \in 1..Len(b) PROVE b[i] = u[i]
    <2>1. CASE i <= n
      BY <1>1, <1>2, <1>3, <1>4, <2>1
    <2>2. CASE ~(i <= n)
      <3>1. i - n \in 1 .. Len(b) - n /\ n + (i - n) = i
        BY <1>1, <2>2
      <3>2. d[i - n] = b[i]
        BY <1>3, <3>1
      <3>3. u[i] = d[i - n]
        BY <1>1, <1>2, <1>3, <1>4, <2>2
      <3> QED
        BY <3>2, <3>3
    <2> QED
      BY <2>1, <2>2
  <1>7. b = u
    BY <1>4, <1>5, <1>6, SeqEqual
  <1> QED
    BY <1>2, <1>3, <1>7 DEF c, d, u

\* ... and that leaves the buffer, whole or in part, is still there once.
LEMMA KeptFlush ==
  ASSUME NEW a \in Seq(Msgs), NEW wr \in Seq(Msgs), NEW b \in Seq(Msgs), NEW q \in Seq(Msgs),
         Kept(a, wr, b, q), NEW n \in 0..Len(b)
  PROVE  /\ Kept(a, wr \o SubSeq(b, 1, n), SubSeq(b, n + 1, Len(b)), q)
         /\ wr \o SubSeq(b, 1, n) \in Seq(Msgs) /\ SubSeq(b, n + 1, Len(b)) \in Seq(Msgs)
         /\ Len(wr) <= Len(wr \o SubSeq(b, 1, n))
PROOF
  <1>1. PICK c \in Seq(Msgs) : c = SubSeq(b, 1, n)
    BY Parts
  <1>2. PICK d \in Seq(Msgs) : d = SubSeq(b, n + 1, Len(b))
    BY Parts
  <1>3. b = Cat(c, d)
    BY <1>1, <1>2, Parts, Zenon DEF Cat
  <1>4. /\ wr \o c \in Seq(Msgs) /\ Len(wr \o c) = Len(wr) + Len(c)
        /\ Len(wr) \in Nat /\ Len(c) \in Nat
    BY ConcatProperties, LenProperties
  <1>5. Cat(Cat(wr, c), d) = Cat(wr, Cat(c, d))
    BY CatAssociative
  <1>6. Kept(a, wr \o c, d, q)
    BY <1>3, <1>5, Zenon DEF Kept, Cat
  <1>7. Len(wr) <= Len(wr \o c)
    BY <1>4
  <1> QED
    BY <1>1, <1>2, <1>4, <1>6, <1>7, Zenon

\* With nothing in the queue or the buffer, everything has been written.
LEMMA KeptAll ==
  ASSUME NEW a \in Seq(Msgs), NEW wr \in Seq(Msgs), Kept(a, wr, <<>>, <<>>)
  PROVE  wr = a
PROOF
  <1>1. wr \o <<>> = wr
    BY ConcatEmptySeq
  <1> QED
    BY <1>1, Zenon DEF Kept

-----------------------------------------------------------------------------
(* Steps that leave a part of the state alone.                             *)

\* The queues, when nothing is sent, taken or written and no worker moves, ...
LEMMA QueueFrame ==
  ASSUME QueueInv, UNCHANGED <<accepted, written, buffer, broken, queue, worker>>, shut \subseteq shut'
  PROVE  QueueInv'
BY DEF QueueInv

\* ... the Write in progress, ...
LEMMA CallFrame ==
  ASSUME CallInv, UNCHANGED msgVars
  PROVE  CallInv'
BY DEF CallInv, msgVars

\* ... the switch, when no worker begins, ...
LEMMA SwitchFrame ==
  ASSUME TypeOK, SwitchInv, UNCHANGED <<setupVars, output, closed>>,
         \A w \in Writers : worker'[w] = "none" <=> worker[w] = "none"
  PROVE  SwitchInv'
PROOF
  <1>1. /\ globalWriter' = globalWriter /\ writerMu' = writerMu /\ setups' = setups
        /\ reload' = reload /\ output' = output /\ closed' = closed
    BY DEF setupVars
  <1>2. globalWriter # 0 => globalWriter \in Writers
    BY LoggerAssumption DEF TypeOK, Writers
  <1>3. closed \subseteq Writers
    BY DEF TypeOK
  <1> QED
    BY <1>1, <1>2, <1>3 DEF SwitchInv

\* ... and main, when no worker begins or takes its request.
LEMMA MainFrame ==
  ASSUME TypeOK, MainInv, UNCHANGED <<main, held, before, globalWriter>>,
         closed \subseteq closed', broken \subseteq broken',
         \A w \in Writers : /\ worker'[w] = "none" <=> worker[w] = "none"
                            /\ worker'[w] = "draining" => worker[w] = "draining"
                            /\ Len(accepted'[w]) \in Nat /\ Len(accepted[w]) <= Len(accepted'[w])
                            /\ Len(written'[w]) \in Nat /\ Len(written[w]) <= Len(written'[w])
  PROVE  MainInv'
PROOF
  <1>1. \A w \in Writers : Len(accepted[w]) \in Nat /\ Len(written[w]) \in Nat
    BY DEF TypeOK
  <1>2. held # 0 => held \in Writers
    BY LoggerAssumption DEF TypeOK, Writers
  <1>3. before \in Nat
    BY DEF TypeOK
  <1>4. main \in {"request", "reply", "flushed"} => before <= Len(accepted'[held])
    BY <1>1, <1>2, <1>3 DEF MainInv
  <1>5. main = "flushed" => before <= Len(written'[held]) \/ held \in broken'
    BY <1>1, <1>2, <1>3 DEF MainInv
  <1> QED
    BY <1>2, <1>4, <1>5 DEF MainInv

\* The lengths of what was accepted and written.
LEMMA Lengths ==
  ASSUME TypeOK, NEW w \in Writers
  PROVE  Len(accepted[w]) \in Nat /\ Len(written[w]) \in Nat /\ Len(queue[w]) \in Nat
BY DEF TypeOK

-----------------------------------------------------------------------------
(* Write.                                                                  *)

\* A call of Write begins, or is refused.
LEMMA WriteStep ==
  ASSUME LoggerInv, NEW m \in Msgs, Write(m)
  PROVE  LoggerInv'
PROOF
  <1>1. /\ UNCHANGED <<output, writerVars, setupVars, mainVars, accepted, drained, late>>
        /\ msg[m] = "new" /\ outMu = None
        /\ \/ output \in Writers /\ msg' = [msg EXCEPT ![m] = "write"] /\ outMu' = m
           \/ outMu' = outMu /\ \E s \in {"stderr", "discarded"} : msg' = [msg EXCEPT ![m] = s]
    BY DEF Write
  <1>2. None \notin Msgs
    BY LoggerAssumption
  <1>3. TypeOK'
    BY <1>1 DEF LoggerInv, TypeOK, MsgState, writerVars, setupVars, mainVars
  <1>4. QueueInv'
    BY <1>1 DEF LoggerInv, QueueInv, writerVars
  <1>5. DropInv'
    BY <1>1 DEF LoggerInv, DropInv, writerVars
  <1>6. CallInv'
    <2>1. msg \in [Msgs -> MsgState]
      BY DEF LoggerInv, TypeOK
    <2>2. \A k \in Msgs : msg[k] \notin {"write", "dropping"}
      BY <1>1, <1>2 DEF LoggerInv, CallInv
    <2> QED
      BY <1>1, <1>2, <2>1, <2>2 DEF CallInv
  <1>7. SwitchInv'
    BY <1>1 DEF LoggerInv, SwitchInv, writerVars, setupVars
  <1>8. MainInv'
    BY <1>1 DEF LoggerInv, MainInv, writerVars, setupVars, mainVars
  <1> QED
    BY <1>3, <1>4, <1>5, <1>6, <1>7, <1>8 DEF LoggerInv

\* The message is queued, finds the queue full, or meets a closed channel.
LEMMA SendStep ==
  ASSUME LoggerInv, NEW m \in Msgs, Send(m)
  PROVE  LoggerInv'
PROOF
  <1>0. TypeOK /\ QueueInv /\ DropInv /\ CallInv /\ SwitchInv /\ MainInv
    BY DEF LoggerInv
  <1>1. /\ UNCHANGED <<output, filePath, closed, shut, dropped, buffer, broken, written, worker,
                       setupVars, mainVars, drained, late>>
        /\ msg[m] = "write"
    BY DEF Send
  <1>2. output \in Writers /\ None \notin Msgs /\ outMu = m
    BY <1>0, <1>1, LoggerAssumption DEF CallInv
  <1>3. \/ /\ msg' = [msg EXCEPT ![m] = "panicked"] /\ outMu' = None
           /\ UNCHANGED <<queue, accepted>>
        \/ /\ output \notin shut /\ Len(queue[output]) < Capacity
           /\ msg' = [msg EXCEPT ![m] = "kept"] /\ outMu' = None
           /\ queue' = [queue EXCEPT ![output] = Append(queue[output], m)]
           /\ accepted' = [accepted EXCEPT ![output] = Append(accepted[output], m)]
        \/ /\ msg' = [msg EXCEPT ![m] = "dropping"]
           /\ UNCHANGED <<outMu, queue, accepted>>
    BY DEF Send
  <1>4. \/ /\ outMu' = None
           /\ \E s \in MsgState \ {"write", "dropping"} : msg' = [msg EXCEPT ![m] = s]
        \/ outMu' = outMu /\ msg' = [msg EXCEPT ![m] = "dropping"]
    BY <1>3 DEF MsgState
  <1>5. CallInv'
    BY <1>0, <1>1, <1>2, <1>4 DEF TypeOK, CallInv
  <1>6. msg' \in [Msgs -> MsgState] /\ outMu' \in Msgs \cup {None}
    BY <1>0, <1>1, <1>4 DEF TypeOK, MsgState
  <1>7. SwitchInv'
    BY <1>0, <1>1, SwitchFrame
  <1>8. CASE UNCHANGED <<queue, accepted>>
    <2>1. TypeOK'
      BY <1>0, <1>1, <1>6, <1>8 DEF TypeOK, setupVars, mainVars
    <2>2. QueueInv' /\ DropInv' /\ MainInv'
      BY <1>0, <1>1, <1>8 DEF QueueInv, DropInv, MainInv, setupVars, mainVars
    <2> QED
      BY <1>5, <1>7, <2>1, <2>2 DEF LoggerInv
  <1>9. CASE /\ output \notin shut /\ Len(queue[output]) < Capacity
             /\ queue' = [queue EXCEPT ![output] = Append(queue[output], m)]
             /\ accepted' = [accepted EXCEPT ![output] = Append(accepted[output], m)]
    <2> DEFINE w == output
    <2>1. /\ queue \in [Writers -> Seq(Msgs)] /\ accepted \in [Writers -> Seq(Msgs)]
          /\ written[w] \in Seq(Msgs) /\ buffer[w] \in Seq(Msgs)
          /\ queue[w] \in Seq(Msgs) /\ accepted[w] \in Seq(Msgs)
      BY <1>0, <1>2 DEF TypeOK
    <2>2. /\ Append(queue[w], m) \in Seq(Msgs) /\ Len(Append(queue[w], m)) = Len(queue[w]) + 1
          /\ Append(accepted[w], m) \in Seq(Msgs)
          /\ Len(Append(accepted[w], m)) = Len(accepted[w]) + 1
          /\ Append(queue[w], m) # <<>> /\ Len(queue[w]) \in Nat /\ Len(accepted[w]) \in Nat
      BY <2>1, AppendProperties, LenProperties
    <2>3. \A v \in Writers :
            /\ queue'[v] = IF v = w THEN Append(queue[w], m) ELSE queue[v]
            /\ accepted'[v] = IF v = w THEN Append(accepted[w], m) ELSE accepted[v]
      BY <1>9, <2>1
    <2>4. queue' \in [Writers -> Seq(Msgs)] /\ accepted' \in [Writers -> Seq(Msgs)]
      BY <1>2, <1>9, <2>1, <2>2
    <2>5. \A v \in Writers : Len(queue'[v]) <= Capacity
      BY <1>0, <1>9, <2>2, <2>3, LoggerAssumption DEF TypeOK
    <2>6. TypeOK'
      BY <1>0, <1>1, <1>6, <1>9, <2>4, <2>5 DEF TypeOK, setupVars, mainVars
    <2>7. QueueInv'
      <3>1. ASSUME NEW v \in Writers, v # w
            PROVE  /\ Kept(accepted'[v], written'[v], buffer'[v], queue'[v])
                   /\ worker'[v] = "done"
                        => v \in shut' /\ queue'[v] = <<>> /\ (buffer'[v] = <<>> \/ v \in broken')
        BY <1>0, <1>1, <2>3, <3>1 DEF QueueInv
      <3>2. Kept(Append(accepted[w], m), written[w], buffer[w], Append(queue[w], m))
        BY <1>0, <1>2, <2>1, KeptSend DEF QueueInv
      <3>3. Kept(accepted'[w], written'[w], buffer'[w], queue'[w])
        BY <1>1, <1>2, <2>3, <3>2
      <3>4. worker'[w] # "done"
        BY <1>0, <1>1, <1>2, <1>9 DEF QueueInv
      <3> QED
        BY <3>1, <3>3, <3>4 DEF QueueInv
    <2>8. DropInv'
      BY <1>0, <1>1, <1>9, <2>2, <2>3 DEF DropInv
    <2>9. MainInv'
      <3>1. \A v \in Writers : Len(accepted'[v]) \in Nat /\ Len(accepted[v]) <= Len(accepted'[v])
        <4> SUFFICES ASSUME NEW v \in Writers
                     PROVE  Len(accepted'[v]) \in Nat /\ Len(accepted[v]) <= Len(accepted'[v])
          OBVIOUS
        <4>1. CASE v = w
          <5>1. accepted'[w] = Append(accepted[w], m)
            BY <1>2, <2>3, Zenon
          <5>2. Len(accepted'[w]) = Len(accepted[w]) + 1
            BY <2>2, <5>1, Zenon
          <5>3. Len(accepted[w]) \in Nat
            BY <2>2
          <5>4. Len(accepted'[w]) \in Nat /\ Len(accepted[w]) <= Len(accepted'[w])
            BY <5>2, <5>3
          <5> QED
            BY <4>1, <5>4, Zenon
        <4>2. CASE v # w
          <5>1. accepted'[v] = accepted[v]
            BY <2>3, <4>2
          <5>2. Len(accepted[v]) \in Nat
            BY <1>0, Lengths
          <5> QED
            BY <5>1, <5>2
        <4> QED
          BY <4>1, <4>2
      <3>2. \A v \in Writers : Len(written'[v]) \in Nat /\ Len(written[v]) <= Len(written'[v])
        BY <1>0, <1>1, Lengths
      <3> QED
        BY <1>0, <1>1, <3>1, <3>2, MainFrame DEF setupVars, mainVars
    <2> QED
      BY <1>5, <1>7, <2>6, <2>7, <2>8, <2>9 DEF LoggerInv
  <1> QED
    BY <1>3, <1>8, <1>9

\* The drop is counted: a queued message, if there is one, will report it.
LEMMA CountDropStep ==
  ASSUME LoggerInv, NEW m \in Msgs, CountDrop(m)
  PROVE  LoggerInv'
PROOF
  <1>0. TypeOK /\ QueueInv /\ DropInv /\ CallInv /\ SwitchInv /\ MainInv
    BY DEF LoggerInv
  <1>1. /\ UNCHANGED <<output, filePath, queue, closed, shut, buffer, broken, written, worker,
                       setupVars, mainVars, accepted, drained>>
        /\ msg[m] = "dropping" /\ msg' = [msg EXCEPT ![m] = "dropped"] /\ outMu' = None
        /\ dropped' = [dropped EXCEPT ![output] = dropped[output] + 1]
        /\ late' = IF queue[output] = <<>> THEN late \cup {output} ELSE late
    BY DEF CountDrop
  <1>2. output \in Writers /\ None \notin Msgs /\ outMu = m
    BY <1>0, <1>1, LoggerAssumption DEF CallInv
  <1>3. dropped' \in [Writers -> Nat] /\ \A v \in Writers \ {output} : dropped'[v] = dropped[v]
    BY <1>0, <1>1, <1>2 DEF TypeOK
  <1>4. late' \subseteq Writers
    BY <1>0, <1>1, <1>2 DEF TypeOK
  <1>5. msg' \in [Msgs -> MsgState]
    BY <1>0, <1>1 DEF TypeOK, MsgState
  <1>6. TypeOK'
    BY <1>0, <1>1, <1>3, <1>4, <1>5 DEF TypeOK, setupVars, mainVars
  <1>7. QueueInv'
    BY <1>0, <1>1, QueueFrame
  <1>8. DropInv'
    BY <1>0, <1>1, <1>3 DEF DropInv
  <1>9. CallInv'
    BY <1>0, <1>1, <1>2 DEF TypeOK, CallInv
  <1>10. SwitchInv'
    BY <1>0, <1>1, SwitchFrame
  <1>11. MainInv'
    BY <1>0, <1>1 DEF MainInv, setupVars, mainVars
  <1> QED
    BY <1>6, <1>7, <1>8, <1>9, <1>10, <1>11 DEF LoggerInv

-----------------------------------------------------------------------------
(* The worker.                                                             *)

\* The worker of w takes a message from its queue.
LEMMA TakeKeeps ==
  ASSUME TypeOK, QueueInv, NEW w \in Writers, queue[w] # <<>>, Take(w),
         UNCHANGED <<accepted, written, shut, broken>>,
         \A v \in Writers : worker'[v] = "done" => v # w /\ worker[v] = "done"
  PROVE  /\ queue' \in [Writers -> Seq(Msgs)] /\ buffer' \in [Writers -> Seq(Msgs)]
         /\ \A v \in Writers : Len(queue'[v]) <= Capacity
         /\ \A v \in Writers \ {w} : queue'[v] = queue[v]
         /\ QueueInv'
PROOF
  <1>1. /\ queue \in [Writers -> Seq(Msgs)] /\ buffer \in [Writers -> Seq(Msgs)]
        /\ written[w] \in Seq(Msgs) /\ accepted[w] \in Seq(Msgs)
        /\ queue[w] \in Seq(Msgs) /\ buffer[w] \in Seq(Msgs)
    BY DEF TypeOK
  <1> DEFINE q == Tail(queue[w])
             b == Append(buffer[w], Head(queue[w]))
  <1>2. queue' = [queue EXCEPT ![w] = q] /\ buffer' = [buffer EXCEPT ![w] = b]
    BY DEF Take
  <1>3. Kept(accepted[w], written[w], buffer[w], queue[w])
    BY DEF QueueInv
  <1>4. /\ Kept(accepted[w], written[w], b, q)
        /\ b \in Seq(Msgs) /\ q \in Seq(Msgs) /\ Len(q) <= Len(queue[w])
    BY <1>1, <1>3, KeptTake
  <1>5. Len(q) <= Capacity
    <2>1. Len(q) \in Nat /\ Len(queue[w]) \in Nat /\ Len(queue[w]) <= Capacity /\ Capacity \in Nat
      BY <1>1, <1>4, LoggerAssumption, LenProperties DEF TypeOK
    <2> QED
      BY <1>4, <2>1
  <1> HIDE DEF q, b
  <1>6. queue' \in [Writers -> Seq(Msgs)] /\ buffer' \in [Writers -> Seq(Msgs)]
    BY <1>1, <1>2, <1>4
  <1>7. /\ queue'[w] = q /\ buffer'[w] = b
        /\ \A v \in Writers \ {w} : queue'[v] = queue[v] /\ buffer'[v] = buffer[v]
    BY <1>1, <1>2
  <1>8. \A v \in Writers : Len(queue'[v]) <= Capacity
    BY <1>5, <1>7 DEF TypeOK
  <1>9. ASSUME NEW v \in Writers
        PROVE  /\ Kept(accepted'[v], written'[v], buffer'[v], queue'[v])
               /\ worker'[v] = "done"
                    => v \in shut' /\ queue'[v] = <<>> /\ (buffer'[v] = <<>> \/ v \in broken')
    <2>1. CASE v = w
      BY <1>4, <1>7, <2>1
    <2>2. CASE v # w
      BY <1>7, <2>2 DEF QueueInv
    <2> QED
      BY <2>1, <2>2
  <1> QED
    BY <1>6, <1>7, <1>8, <1>9 DEF QueueInv

\* The worker of w flushes its buffer.
LEMMA FlushKeeps ==
  ASSUME TypeOK, QueueInv, NEW w \in Writers, FlushBuffer(w),
         UNCHANGED <<accepted, queue, shut>>,
         \A v \in Writers : worker'[v] = "done"
            => worker[v] = "done" \/ (v = w /\ w \in shut /\ queue[w] = <<>>)
  PROVE  /\ written' \in [Writers -> Seq(Msgs)] /\ buffer' \in [Writers -> Seq(Msgs)]
         /\ buffer'[w] = <<>> \/ w \in broken'
         /\ broken' \subseteq Writers /\ broken \subseteq broken'
         /\ \A v \in Writers : Len(written'[v]) \in Nat /\ Len(written[v]) <= Len(written'[v])
         /\ QueueInv'
PROOF
  <1>1. /\ written \in [Writers -> Seq(Msgs)] /\ buffer \in [Writers -> Seq(Msgs)]
        /\ written[w] \in Seq(Msgs) /\ accepted[w] \in Seq(Msgs)
        /\ queue[w] \in Seq(Msgs) /\ buffer[w] \in Seq(Msgs) /\ broken \subseteq Writers
    BY DEF TypeOK
  <1>2. PICK n \in 0..Len(buffer[w]) :
          /\ written' = [written EXCEPT ![w] = written[w] \o SubSeq(buffer[w], 1, n)]
          /\ buffer' = [buffer EXCEPT ![w] = SubSeq(buffer[w], n + 1, Len(buffer[w]))]
          /\ broken' = IF n < Len(buffer[w]) THEN broken \cup {w} ELSE broken
    BY DEF FlushBuffer
  <1> DEFINE r == written[w] \o SubSeq(buffer[w], 1, n)
             d == SubSeq(buffer[w], n + 1, Len(buffer[w]))
  <1>3. Kept(accepted[w], written[w], buffer[w], queue[w])
    BY DEF QueueInv
  <1>4. /\ Kept(accepted[w], r, d, queue[w]) /\ r \in Seq(Msgs) /\ d \in Seq(Msgs)
        /\ Len(written[w]) <= Len(r)
    BY <1>1, <1>3, KeptFlush
  <1>5. d = <<>> \/ w \in broken'
    <2>1. n \in Int /\ Len(buffer[w]) \in Nat
      BY <1>1, LenProperties
    <2>2. CASE n < Len(buffer[w])
      BY <1>2, <2>2
    <2>3. CASE ~(n < Len(buffer[w]))
      <3>1. Len(buffer[w]) \in Int /\ n + 1 \in Int /\ Len(buffer[w]) < n + 1
        BY <2>1, <2>3
      <3>2. d = <<>>
        BY <3>1, SubSeqEmpty
      <3> QED
        BY <3>2
    <2> QED
      BY <2>2, <2>3
  <1>6. broken' \subseteq Writers /\ broken \subseteq broken'
    BY <1>1, <1>2
  <1>7. /\ written' = [written EXCEPT ![w] = r] /\ buffer' = [buffer EXCEPT ![w] = d]
    BY <1>2
  <1> HIDE DEF r, d
  <1>8. written' \in [Writers -> Seq(Msgs)] /\ buffer' \in [Writers -> Seq(Msgs)]
    BY <1>1, <1>4, <1>7
  <1>9. /\ written'[w] = r /\ buffer'[w] = d
        /\ \A v \in Writers \ {w} : written'[v] = written[v] /\ buffer'[v] = buffer[v]
    BY <1>1, <1>7
  <1>10. ASSUME NEW v \in Writers
         PROVE  Len(written'[v]) \in Nat /\ Len(written[v]) <= Len(written'[v])
    <2>1. written'[v] \in Seq(Msgs) /\ written[v] \in Seq(Msgs)
      BY <1>1, <1>8
    <2>2. Len(written'[v]) \in Nat /\ Len(written[v]) \in Nat
      BY <2>1, LenProperties
    <2>3. CASE v = w
      BY <1>4, <1>9, <2>2, <2>3
    <2>4. CASE v # w
      BY <1>9, <2>2, <2>4
    <2> QED
      BY <2>3, <2>4
  <1>11. ASSUME NEW v \in Writers
         PROVE  /\ Kept(accepted'[v], written'[v], buffer'[v], queue'[v])
                /\ worker'[v] = "done"
                     => v \in shut' /\ queue'[v] = <<>> /\ (buffer'[v] = <<>> \/ v \in broken')
    <2>1. CASE v = w
      BY <1>4, <1>5, <1>9, <2>1 DEF QueueInv
    <2>2. CASE v # w
      BY <1>6, <1>9, <2>2 DEF QueueInv
    <2> QED
      BY <2>1, <2>2
  <1> QED
    BY <1>5, <1>6, <1>8, <1>9, <1>10, <1>11 DEF QueueInv

\* What an empty buffer leaves of a writer: everything it accepted is written.
LEMMA AllWritten ==
  ASSUME TypeOK, QueueInv, NEW w \in Writers, queue[w] = <<>>, buffer[w] = <<>>
  PROVE  written[w] = accepted[w]
PROOF
  <1>1. written[w] \in Seq(Msgs) /\ accepted[w] \in Seq(Msgs)
    BY DEF TypeOK
  <1>2. Kept(accepted[w], written[w], buffer[w], queue[w])
    BY DEF QueueInv
  <1>3. Kept(accepted[w], written[w], <<>>, <<>>)
    BY <1>2, Zenon
  <1> QED
    BY <1>1, <1>3, KeptAll

\* A message is received, and the messages dropped before it are reported.
LEMMA ReceiveStep ==
  ASSUME LoggerInv, NEW w \in Writers, Receive(w)
  PROVE  LoggerInv'
PROOF
  <1>0. TypeOK /\ QueueInv /\ DropInv /\ CallInv /\ SwitchInv /\ MainInv
    BY DEF LoggerInv
  <1>1. /\ UNCHANGED <<filePath, closed, shut, broken, written, msgVars, setupVars, mainVars,
                       accepted>>
        /\ drained' = drained \ {w} /\ late' = late \ {w}
        /\ worker[w] = "select" /\ queue[w] # <<>> /\ Take(w)
        /\ dropped' = [dropped EXCEPT ![w] = 0]
        /\ worker' = [worker EXCEPT ![w] = "received"]
    BY DEF Receive
  <1>2. /\ worker' \in [Writers -> WorkerState]
        /\ \A v \in Writers : worker'[v] = IF v = w THEN "received" ELSE worker[v]
    BY <1>0, <1>1 DEF TypeOK, WorkerState
  <1>3. /\ dropped' \in [Writers -> Nat]
        /\ \A v \in Writers : dropped'[v] = IF v = w THEN 0 ELSE dropped[v]
    BY <1>0, <1>1 DEF TypeOK
  <1>4. \A v \in Writers : worker'[v] = "done" => v # w /\ worker[v] = "done"
    BY <1>2
  <1>5. /\ queue' \in [Writers -> Seq(Msgs)] /\ buffer' \in [Writers -> Seq(Msgs)]
        /\ \A v \in Writers : Len(queue'[v]) <= Capacity
        /\ \A v \in Writers \ {w} : queue'[v] = queue[v]
        /\ QueueInv'
    BY <1>0, <1>1, <1>4, TakeKeeps
  <1>6. TypeOK'
    BY <1>0, <1>1, <1>2, <1>3, <1>5 DEF TypeOK, msgVars, setupVars, mainVars
  <1>7. DropInv'
    BY <1>0, <1>1, <1>3, <1>5 DEF DropInv
  <1>8. CallInv'
    BY <1>0, <1>1, CallFrame
  <1>9. SwitchInv'
    BY <1>0, <1>1, <1>2, SwitchFrame DEF msgVars
  <1>10. MainInv'
    <2>1. \A v \in Writers : /\ worker'[v] = "none" <=> worker[v] = "none"
                             /\ worker'[v] = "draining" => worker[v] = "draining"
      BY <1>1, <1>2
    <2>2. \A v \in Writers :
            /\ Len(accepted'[v]) \in Nat /\ Len(accepted[v]) <= Len(accepted'[v])
            /\ Len(written'[v]) \in Nat /\ Len(written[v]) <= Len(written'[v])
      BY <1>0, <1>1, Lengths
    <2> QED
      BY <1>0, <1>1, <2>1, <2>2, MainFrame DEF setupVars, mainVars
  <1> QED
    BY <1>5, <1>6, <1>7, <1>8, <1>9, <1>10 DEF LoggerInv

\* The buffer is flushed after a message, by the ticker or before the worker
\* ends, or a message is left for later.
LEMMA FlushingStep ==
  ASSUME LoggerInv, NEW w \in Writers, FlushIfIdle(w) \/ Tick(w) \/ Stop(w)
  PROVE  LoggerInv'
PROOF
  <1>0. TypeOK /\ QueueInv /\ DropInv /\ CallInv /\ SwitchInv /\ MainInv
    BY DEF LoggerInv
  <1>1. /\ UNCHANGED <<filePath, queue, closed, shut, dropped, msgVars, setupVars, mainVars,
                       accepted, drained, late>>
        /\ FlushBuffer(w) \/ UNCHANGED <<written, buffer, broken>>
        /\ worker[w] \in {"select", "received"}
    BY DEF FlushIfIdle, Tick, Stop
  <1>2. \/ worker' = [worker EXCEPT ![w] = "select"]
        \/ worker' = worker
        \/ /\ worker' = [worker EXCEPT ![w] = "done"]
           /\ FlushBuffer(w) /\ w \in shut /\ queue[w] = <<>>
    BY DEF FlushIfIdle, Tick, Stop
  <1>3. worker' \in [Writers -> WorkerState]
    BY <1>0, <1>2 DEF TypeOK, WorkerState
  <1>4. \A v \in Writers :
          /\ worker'[v] = "none" <=> worker[v] = "none"
          /\ worker'[v] = "draining" => worker[v] = "draining"
          /\ worker'[v] = "done"
               => worker[v] = "done" \/ (v = w /\ FlushBuffer(w) /\ w \in shut /\ queue[w] = <<>>)
    <2>1. worker \in [Writers -> WorkerState]
      BY <1>0 DEF TypeOK
    <2>2. \A v \in Writers \ {w} : worker'[v] = worker[v]
      BY <1>2, <2>1
    <2>3. worker'[w] \in {"select", "received"} \/ (worker'[w] = "done" /\ FlushBuffer(w) /\ w \in shut /\ queue[w] = <<>>)
      BY <1>1, <1>2, <2>1
    <2> QED
      BY <1>1, <2>2, <2>3
  <1>5. /\ written' \in [Writers -> Seq(Msgs)] /\ buffer' \in [Writers -> Seq(Msgs)]
        /\ \A v \in Writers : Len(written'[v]) \in Nat /\ Len(written[v]) <= Len(written'[v])
        /\ broken' \subseteq Writers /\ broken \subseteq broken'
        /\ QueueInv'
    <2>1. CASE FlushBuffer(w)
      BY <1>0, <1>1, <1>4, <2>1, FlushKeeps
    <2>2. CASE ~FlushBuffer(w)
      <3>1. UNCHANGED <<written, buffer, broken>> /\ \A v \in Writers : worker'[v] = "done" => worker[v] = "done"
        BY <1>1, <1>4, <2>2
      <3>2. QueueInv'
        BY <1>0, <1>1, <3>1 DEF QueueInv
      <3>3. \A v \in Writers : Len(written'[v]) \in Nat /\ Len(written[v]) <= Len(written'[v])
        BY <1>0, <3>1, Lengths
      <3>4. /\ written' \in [Writers -> Seq(Msgs)] /\ buffer' \in [Writers -> Seq(Msgs)]
            /\ broken' \subseteq Writers /\ broken \subseteq broken'
        BY <1>0, <3>1 DEF TypeOK
      <3> QED
        BY <3>2, <3>3, <3>4
    <2> QED
      BY <2>1, <2>2
  <1>6. TypeOK'
    BY <1>0, <1>1, <1>3, <1>5 DEF TypeOK, msgVars, setupVars, mainVars
  <1>7. DropInv'
    BY <1>0, <1>1 DEF DropInv
  <1>8. CallInv'
    BY <1>0, <1>1, CallFrame
  <1>9. SwitchInv'
    BY <1>0, <1>1, <1>4, SwitchFrame DEF msgVars
  <1>10. MainInv'
    <2>1. \A v \in Writers : Len(accepted'[v]) \in Nat /\ Len(accepted[v]) <= Len(accepted'[v])
      BY <1>0, <1>1, Lengths
    <2>2. UNCHANGED <<main, held, before, globalWriter>> /\ closed \subseteq closed'
      BY <1>1 DEF setupVars, mainVars
    <2> QED
      BY <1>0, <1>4, <1>5, <2>1, <2>2, MainFrame
  <1> QED
    BY <1>5, <1>6, <1>7, <1>8, <1>9, <1>10 DEF LoggerInv

\* The worker takes main's request, ...
LEMMA AcceptFlushStep ==
  ASSUME LoggerInv, NEW w \in Writers, AcceptFlush(w)
  PROVE  LoggerInv'
PROOF
  <1>0. TypeOK /\ QueueInv /\ DropInv /\ CallInv /\ SwitchInv /\ MainInv
    BY DEF LoggerInv
  <1>1. /\ UNCHANGED <<filePath, queue, closed, shut, dropped, buffer, broken, written, msgVars,
                       setupVars, held, flushes, before, accepted, drained, late>>
        /\ worker[w] = "select" /\ main = "request" /\ held = w
        /\ worker' = [worker EXCEPT ![w] = "draining"] /\ main' = "reply"
    BY DEF AcceptFlush
  <1>2. /\ worker' \in [Writers -> WorkerState]
        /\ \A v \in Writers : worker'[v] = IF v = w THEN "draining" ELSE worker[v]
    BY <1>0, <1>1 DEF TypeOK, WorkerState
  <1>3. TypeOK'
    BY <1>0, <1>1, <1>2 DEF TypeOK, MainState, msgVars, setupVars
  <1>4. QueueInv' /\ DropInv'
    BY <1>0, <1>1, <1>2 DEF QueueInv, DropInv
  <1>5. CallInv'
    BY <1>0, <1>1, CallFrame
  <1>6. SwitchInv'
    BY <1>0, <1>1, <1>2, SwitchFrame DEF msgVars
  <1>7. MainInv'
    BY <1>0, <1>1, <1>2 DEF MainInv
  <1> QED
    BY <1>3, <1>4, <1>5, <1>6, <1>7 DEF LoggerInv

\* ... drains its queue for it ...
LEMMA DrainStep ==
  ASSUME LoggerInv, NEW w \in Writers, Drain(w)
  PROVE  LoggerInv'
PROOF
  <1>0. TypeOK /\ QueueInv /\ DropInv /\ CallInv /\ SwitchInv /\ MainInv
    BY DEF LoggerInv
  <1>1. /\ UNCHANGED <<filePath, closed, shut, dropped, broken, written, worker, msgVars,
                       setupVars, mainVars, accepted, late>>
        /\ worker[w] = "draining" /\ queue[w] # <<>> /\ Take(w)
        /\ drained' = IF dropped[w] > 0 THEN drained \cup {w} ELSE drained
    BY DEF Drain
  <1>2. \A v \in Writers : worker'[v] = "done" => v # w /\ worker[v] = "done"
    BY <1>1
  <1>3. /\ queue' \in [Writers -> Seq(Msgs)] /\ buffer' \in [Writers -> Seq(Msgs)]
        /\ \A v \in Writers : Len(queue'[v]) <= Capacity
        /\ \A v \in Writers \ {w} : queue'[v] = queue[v]
        /\ QueueInv'
    BY <1>0, <1>1, <1>2, TakeKeeps
  <1>4. TypeOK'
    BY <1>0, <1>1, <1>3 DEF TypeOK, msgVars, setupVars, mainVars
  <1>5. DropInv'
    <2>1. \A v \in Writers : dropped[v] \in Nat
      BY <1>0 DEF TypeOK
    <2>2. CASE dropped[w] > 0
      BY <1>0, <1>1, <1>3, <2>2 DEF DropInv
    <2>3. CASE ~(dropped[w] > 0)
      <3>1. dropped[w] = 0 /\ UNCHANGED <<dropped, drained, late>>
        BY <1>1, <2>1, <2>3
      <3> QED
        BY <1>0, <1>3, <3>1 DEF DropInv
    <2> QED
      BY <2>2, <2>3
  <1>6. CallInv'
    BY <1>0, <1>1, CallFrame
  <1>7. SwitchInv'
    BY <1>0, <1>1, SwitchFrame DEF msgVars
  <1>8. MainInv'
    BY <1>0, <1>1 DEF MainInv, setupVars, mainVars
  <1> QED
    BY <1>3, <1>4, <1>5, <1>6, <1>7, <1>8 DEF LoggerInv

\* ... and answers, when everything main waits for is written.
LEMMA ReplyStep ==
  ASSUME LoggerInv, NEW w \in Writers, Reply(w)
  PROVE  LoggerInv'
PROOF
  <1>0. TypeOK /\ QueueInv /\ DropInv /\ CallInv /\ SwitchInv /\ MainInv
    BY DEF LoggerInv
  <1>1. /\ UNCHANGED <<filePath, queue, closed, shut, dropped, msgVars, setupVars, held, flushes,
                       before, accepted, drained, late>>
        /\ worker[w] = "draining" /\ queue[w] = <<>> /\ FlushBuffer(w)
        /\ worker' = [worker EXCEPT ![w] = "select"] /\ main' = "flushed"
    BY DEF Reply
  <1>2. /\ worker' \in [Writers -> WorkerState]
        /\ \A v \in Writers : worker'[v] = IF v = w THEN "select" ELSE worker[v]
    BY <1>0, <1>1 DEF TypeOK, WorkerState
  <1>3. \A v \in Writers : worker'[v] = "done"
          => worker[v] = "done" \/ (v = w /\ w \in shut /\ queue[w] = <<>>)
    BY <1>2
  <1>4. /\ written' \in [Writers -> Seq(Msgs)] /\ buffer' \in [Writers -> Seq(Msgs)]
        /\ buffer'[w] = <<>> \/ w \in broken'
        /\ broken' \subseteq Writers /\ broken \subseteq broken'
        /\ QueueInv'
    BY <1>0, <1>1, <1>3, FlushKeeps
  <1>5. TypeOK'
    BY <1>0, <1>1, <1>2, <1>4 DEF TypeOK, MainState, msgVars, setupVars
  <1>6. DropInv'
    BY <1>0, <1>1 DEF DropInv
  <1>7. CallInv'
    BY <1>0, <1>1, CallFrame
  <1>8. SwitchInv'
    BY <1>0, <1>1, <1>2, SwitchFrame DEF msgVars
  <1>9. MainInv'
    <2>1. main = "reply" /\ held = w /\ before <= Len(accepted[w])
      BY <1>0, <1>1 DEF MainInv
    <2>2. PICK a \in Seq(Msgs) : a = accepted[w]
      BY <1>0 DEF TypeOK
    <2>3. PICK r \in Seq(Msgs) : r = written'[w]
      BY <1>4
    <2>4. Kept(accepted'[w], written'[w], buffer'[w], queue'[w])
      BY <1>4 DEF QueueInv
    <2>5. queue'[w] = <<>> /\ accepted'[w] = a
      BY <1>1, <2>2
    <2>6. before' <= Len(accepted'[held'])
      BY <1>1, <2>1, <2>2, <2>5, Zenon
    <2>7. ASSUME w \notin broken'
          PROVE  before' <= Len(written'[held'])
      <3>1. buffer'[w] = <<>>
        BY <1>4, <2>7
      <3>2. Kept(a, r, <<>>, <<>>)
        BY <2>3, <2>4, <2>5, <3>1, Zenon
      <3>3. r = a
        BY <3>2, KeptAll
      <3> QED
        BY <1>1, <2>1, <2>2, <2>3, <3>3, Zenon
    <2>8. held' \in broken' \/ before' <= Len(written'[held'])
      BY <1>1, <2>1, <2>7
    <2>9. \A v \in Writers : worker'[v] # "draining"
      BY <1>0, <1>2, <2>1 DEF MainInv
    <2>10. held' # 0 /\ worker'[held'] # "none"
      BY <1>0, <1>1, <1>2, <2>1 DEF MainInv
    <2> QED
      BY <1>1, <2>6, <2>8, <2>9, <2>10 DEF MainInv
  <1> QED
    BY <1>4, <1>5, <1>6, <1>7, <1>8, <1>9 DEF LoggerInv

-----------------------------------------------------------------------------
(* SetupGlobalLogger.                                                      *)

\* A switch begins, ...
LEMMA SetupStep ==
  ASSUME LoggerInv, NEW p \in Paths, SetupGlobalLogger(p)
  PROVE  LoggerInv'
PROOF
  <1>0. TypeOK /\ QueueInv /\ DropInv /\ CallInv /\ SwitchInv /\ MainInv
    BY DEF LoggerInv
  <1>1. /\ UNCHANGED <<globalWriter, msgVars, writerVars, mainVars, accepted, drained, late>>
        /\ reload = "idle" /\ writerMu = None /\ setups < MaxSetups
        /\ setups' = setups + 1 /\ currentLogPath' = p
        /\ \/ reload' = "open" /\ writerMu' = "reload" /\ globalWriter = 0
           \/ reload' = "idle" /\ writerMu' = None
           \/ reload' = "closing" /\ writerMu' = "reload" /\ globalWriter # 0
    BY DEF SetupGlobalLogger
  <1>2. setups \in Nat /\ MaxSetups \in Nat /\ setups' \in 0..MaxSetups /\ setups' > 0
    BY <1>0, <1>1, LoggerAssumption DEF TypeOK
  <1>3. TypeOK'
    BY <1>0, <1>1, <1>2 DEF TypeOK, ReloadState, msgVars, writerVars, mainVars
  <1>4. QueueInv' /\ DropInv' /\ MainInv'
    BY <1>0, <1>1 DEF QueueInv, DropInv, MainInv, writerVars, mainVars
  <1>5. CallInv'
    BY <1>0, <1>1, CallFrame
  <1>6. SwitchInv'
    <2>1. UNCHANGED <<globalWriter, output, closed, worker>>
      BY <1>1 DEF msgVars, writerVars
    <2>2. ASSUME NEW w \in Writers, w > setups' \/ w = setups'
          PROVE  worker'[w] = "none"
      <3>1. w > setups
        BY <1>1, <1>2, <2>2 DEF Writers
      <3> QED
        BY <1>0, <2>1, <3>1 DEF SwitchInv
    <2>3. None # "reload"
      BY LoggerAssumption
    <2>4. writerMu' = None <=> reload' = "idle"
      BY <1>1, <2>3
    <2>5. globalWriter \notin closed
      BY <1>0, <1>1 DEF SwitchInv
    <2> QED
      BY <1>0, <1>1, <1>2, <2>1, <2>2, <2>4, <2>5 DEF SwitchInv
  <1> QED
    BY <1>3, <1>4, <1>5, <1>6 DEF LoggerInv

\* ... the old writer is closed, ...
LEMMA SetupCloseStep ==
  ASSUME LoggerInv, SetupClose
  PROVE  LoggerInv'
PROOF
  <1>0. TypeOK /\ QueueInv /\ DropInv /\ CallInv /\ SwitchInv /\ MainInv
    BY DEF LoggerInv
  <1>1. UNCHANGED <<filePath, queue, dropped, buffer, broken, written, worker, writerMu,
                    currentLogPath, setups, msgVars, mainVars, accepted, drained, late>>
    BY DEF SetupClose
  <1>2. \/ /\ reload = "closing" /\ reload' = "shutting"
           /\ closed' = closed \cup {globalWriter} /\ UNCHANGED <<shut, globalWriter>>
        \/ /\ reload = "shutting" /\ reload' = "waiting"
           /\ shut' = shut \cup {globalWriter} /\ UNCHANGED <<closed, globalWriter>>
        \/ /\ reload = "waiting" /\ reload' = "open"
           /\ globalWriter' = 0 /\ UNCHANGED <<closed, shut>>
    BY DEF SetupClose
  <1>3. globalWriter \in Writers /\ 0 \notin Writers
    BY <1>0, <1>2, LoggerAssumption DEF TypeOK, SwitchInv, Writers
  <1>4. closed' \subseteq Writers /\ shut' \subseteq closed' /\ closed \subseteq closed' /\ shut \subseteq shut'
    BY <1>0, <1>2, <1>3 DEF TypeOK, SwitchInv
  <1>5. TypeOK'
    BY <1>0, <1>1, <1>2, <1>4, LoggerAssumption DEF TypeOK, ReloadState, msgVars, mainVars
  <1>6. QueueInv'
    BY <1>0, <1>1, <1>4, QueueFrame
  <1>7. DropInv'
    BY <1>0, <1>1 DEF DropInv
  <1>8. CallInv'
    BY <1>0, <1>1, CallFrame
  <1>9. SwitchInv'
    BY <1>0, <1>1, <1>2, <1>3 DEF TypeOK, SwitchInv, msgVars
  <1>10. MainInv'
    BY <1>0, <1>1, <1>2, <1>4 DEF MainInv, mainVars
  <1> QED
    BY <1>5, <1>6, <1>7, <1>8, <1>9, <1>10 DEF LoggerInv

\* ... and the next one is opened ...
LEMMA SetupOpenStep ==
  ASSUME LoggerInv, SetupOpen
  PROVE  LoggerInv'
PROOF
  <1>0. TypeOK /\ QueueInv /\ DropInv /\ CallInv /\ SwitchInv /\ MainInv
    BY DEF LoggerInv
  <1>1. /\ UNCHANGED <<queue, closed, shut, dropped, buffer, broken, written, outMu, msg, currentLogPath,
                       setups, mainVars, accepted, drained, late>>
        /\ reload = "open" /\ outMu = None
        /\ filePath' = [filePath EXCEPT ![setups] = currentLogPath]
        /\ worker' = [worker EXCEPT ![setups] = "select"]
        /\ globalWriter' = setups /\ output' = setups
        /\ reload' = "idle" /\ writerMu' = None
    BY DEF SetupOpen
  <1>2. setups \in Writers /\ 0 \notin Writers
    BY <1>0, <1>1, LoggerAssumption DEF TypeOK, SwitchInv, Writers
  <1>3. worker[setups] = "none" /\ setups \notin closed
    BY <1>0, <1>1, <1>2 DEF SwitchInv
  <1>4. /\ worker' \in [Writers -> WorkerState]
        /\ \A v \in Writers : worker'[v] = IF v = setups THEN "select" ELSE worker[v]
    BY <1>0, <1>1 DEF TypeOK, WorkerState
  <1>5. filePath' \in [Writers -> Paths]
    BY <1>0, <1>1 DEF TypeOK
  <1>6. TypeOK'
    BY <1>0, <1>1, <1>4, <1>5 DEF TypeOK, ReloadState, mainVars
  <1>7. QueueInv' /\ DropInv'
    BY <1>0, <1>1, <1>4 DEF QueueInv, DropInv
  <1>8. CallInv'
    BY <1>0, <1>1 DEF CallInv
  <1>9. SwitchInv'
    <2>1. \A w \in closed : worker'[w] # "none"
      BY <1>0, <1>4 DEF TypeOK, SwitchInv
    <2>2. \A w \in Writers : w > setups => worker'[w] = "none"
      <3>1. \A w \in Writers : w > setups => w # setups
        BY <1>2 DEF Writers
      <3> QED
        BY <1>0, <1>4, <3>1 DEF SwitchInv
    <2> QED
      BY <1>1, <1>2, <1>3, <1>4, <2>1, <2>2 DEF SwitchInv
  <1>10. MainInv'
    <2>1. held \in 0..MaxSetups /\ (held # 0 => held \in Writers)
      BY <1>0, LoggerAssumption DEF TypeOK, Writers
    <2> QED
      BY <1>0, <1>1, <1>3, <1>4, <2>1 DEF MainInv, mainVars
  <1> QED
    BY <1>6, <1>7, <1>8, <1>9, <1>10 DEF LoggerInv

\* ... or cannot be.
LEMMA SetupFailStep ==
  ASSUME LoggerInv, SetupFail
  PROVE  LoggerInv'
PROOF
  <1>0. TypeOK /\ QueueInv /\ DropInv /\ CallInv /\ SwitchInv /\ MainInv
    BY DEF LoggerInv
  <1>1. /\ UNCHANGED <<globalWriter, currentLogPath, setups, msgVars, writerVars, mainVars,
                       accepted, drained, late>>
        /\ reload = "open" /\ reload' = "idle" /\ writerMu' = None
    BY DEF SetupFail
  <1>2. TypeOK'
    BY <1>0, <1>1 DEF TypeOK, ReloadState, msgVars, writerVars, mainVars
  <1>3. QueueInv' /\ DropInv' /\ MainInv'
    BY <1>0, <1>1 DEF QueueInv, DropInv, MainInv, writerVars, mainVars
  <1>4. CallInv'
    BY <1>0, <1>1, CallFrame
  <1>5. SwitchInv'
    <2>1. UNCHANGED <<output, closed, worker>>
      BY <1>1 DEF msgVars, writerVars
    <2>2. globalWriter = 0 /\ 0 \notin closed
      BY <1>0, <1>1, LoggerAssumption DEF SwitchInv, TypeOK, Writers
    <2> QED
      BY <1>0, <1>1, <2>1, <2>2 DEF SwitchInv
  <1> QED
    BY <1>2, <1>3, <1>4, <1>5 DEF LoggerInv

-----------------------------------------------------------------------------
(* main.                                                                   *)

\* The parts of the invariant that only a worker, a Write or a switch changes.
LEMMA MainLeaves ==
  ASSUME LoggerInv, UNCHANGED <<msgVars, writerVars, setupVars, accepted, drained, late>>
  PROVE  QueueInv' /\ DropInv' /\ CallInv' /\ SwitchInv'
PROOF
  <1>0. TypeOK /\ QueueInv /\ DropInv /\ CallInv /\ SwitchInv
    BY DEF LoggerInv
  <1>1. QueueInv' /\ DropInv'
    BY <1>0 DEF QueueInv, DropInv, writerVars
  <1>2. CallInv'
    BY <1>0, CallFrame
  <1>3. SwitchInv'
    BY <1>0, SwitchFrame DEF msgVars, writerVars
  <1> QED
    BY <1>1, <1>2, <1>3

\* FlushGlobal takes the current writer, ...
LEMMA FlushGlobalStep ==
  ASSUME LoggerInv, FlushGlobal
  PROVE  LoggerInv'
PROOF
  <1>0. TypeOK /\ SwitchInv /\ MainInv
    BY DEF LoggerInv
  <1>1. /\ UNCHANGED <<before, msgVars, writerVars, setupVars, accepted, drained, late>>
        /\ main = "run" /\ flushes < MaxFlushes /\ flushes' = flushes + 1
        /\ held' = globalWriter
        /\ main' = "run" \/ (main' = "flush" /\ globalWriter # 0)
    BY DEF FlushGlobal
  <1>2. flushes' \in 0..MaxFlushes
    BY <1>0, <1>1, LoggerAssumption DEF TypeOK
  <1>3. TypeOK'
    BY <1>0, <1>1, <1>2 DEF TypeOK, MainState, msgVars, writerVars, setupVars
  <1>4. MainInv'
    <2>1. globalWriter # 0 => worker[globalWriter] # "none"
      BY <1>0 DEF SwitchInv
    <2>2. \A w \in Writers : worker[w] # "draining"
      BY <1>0, <1>1 DEF MainInv
    <2>3. worker' = worker
      BY <1>1 DEF writerVars
    <2> QED
      BY <1>1, <2>1, <2>2, <2>3 DEF MainInv
  <1> QED
    BY <1>1, <1>3, <1>4, MainLeaves DEF LoggerInv

\* ... Flush looks at its flag, ...
LEMMA FlushStep ==
  ASSUME LoggerInv, Flush
  PROVE  LoggerInv'
PROOF
  <1>0. TypeOK /\ MainInv
    BY DEF LoggerInv
  <1>1. /\ UNCHANGED <<held, flushes, msgVars, writerVars, setupVars, accepted, drained, late>>
        /\ main = "flush" /\ before' = Len(accepted[held])
        /\ main' \in {"run", "request"}
    BY DEF Flush
  <1>2. held \in Writers /\ held # 0 /\ worker[held] # "none"
    BY <1>0, <1>1, LoggerAssumption DEF TypeOK, MainInv, Writers
  <1>3. before' \in Nat
    BY <1>0, <1>1, <1>2, Lengths
  <1>4. TypeOK'
    BY <1>0, <1>1, <1>3 DEF TypeOK, MainState, msgVars, writerVars, setupVars
  <1>5. MainInv'
    <2>1. \A w \in Writers : worker[w] # "draining"
      BY <1>0, <1>1 DEF MainInv
    <2>2. worker' = worker
      BY <1>1 DEF writerVars
    <2>3. before' <= Len(accepted'[held'])
      <3>1. before' = Len(accepted'[held'])
        BY <1>1, Zenon
      <3> QED
        BY <1>3, <3>1
    <2> QED
      BY <1>1, <1>2, <2>1, <2>2, <2>3 DEF MainInv
  <1> QED
    BY <1>1, <1>4, <1>5, MainLeaves DEF LoggerInv

\* ... and returns without the worker's answer if the worker has ended.
LEMMA FlushDoneStep ==
  ASSUME LoggerInv, FlushDone
  PROVE  LoggerInv'
PROOF
  <1>0. TypeOK /\ QueueInv /\ MainInv
    BY DEF LoggerInv
  <1>1. /\ UNCHANGED <<held, flushes, before, msgVars, writerVars, setupVars, accepted, drained, late>>
        /\ main = "request" /\ worker[held] = "done" /\ main' = "flushed"
    BY DEF FlushDone
  <1>2. held \in Writers /\ held # 0 /\ before <= Len(accepted[held])
    BY <1>0, <1>1, LoggerAssumption DEF TypeOK, MainInv, Writers
  <1>3. written[held] = accepted[held] \/ held \in broken
    <2>1. queue[held] = <<>> /\ (buffer[held] = <<>> \/ held \in broken)
      BY <1>0, <1>1, <1>2 DEF QueueInv
    <2> QED
      BY <1>0, <1>2, <2>1, AllWritten
  <1>4. TypeOK'
    BY <1>0, <1>1 DEF TypeOK, MainState, msgVars, writerVars, setupVars
  <1>5. MainInv'
    <2>1. worker' = worker /\ written' = written /\ broken' = broken
      BY <1>1 DEF writerVars
    <2>2. /\ before' <= Len(written'[held']) \/ held' \in broken'
          /\ before' <= Len(accepted'[held'])
      BY <1>1, <1>2, <1>3, <2>1, Zenon
    <2>3. \A w \in Writers : worker[w] # "draining"
      BY <1>0, <1>1 DEF MainInv
    <2> QED
      BY <1>1, <1>2, <2>1, <2>2, <2>3 DEF MainInv
  <1> QED
    BY <1>1, <1>4, <1>5, MainLeaves DEF LoggerInv

\* main goes on after a Flush, or leaves by Fatalf.
LEMMA MainMoves ==
  ASSUME LoggerInv, FlushReturns \/ \E m \in Msgs : Fatalf(m)
  PROVE  LoggerInv'
PROOF
  <1>0. TypeOK /\ MainInv
    BY DEF LoggerInv
  <1>1. /\ UNCHANGED <<held, flushes, before, msgVars, writerVars, setupVars, accepted, drained, late>>
        /\ main # "reply" /\ main' \in {"run", "exited"}
    BY DEF FlushReturns, Fatalf
  <1>2. TypeOK'
    BY <1>0, <1>1 DEF TypeOK, MainState, msgVars, writerVars, setupVars
  <1>3. MainInv'
    <2>1. \A w \in Writers : worker[w] # "draining"
      BY <1>0, <1>1 DEF MainInv
    <2>2. worker' = worker
      BY <1>1 DEF writerVars
    <2> QED
      BY <1>1, <2>1, <2>2 DEF MainInv
  <1> QED
    BY <1>1, <1>2, <1>3, MainLeaves DEF LoggerInv

\* CloseGlobal takes the current writer away.
LEMMA CloseGlobalStep ==
  ASSUME LoggerInv, CloseGlobal
  PROVE  LoggerInv'
PROOF
  <1>0. TypeOK /\ QueueInv /\ DropInv /\ CallInv /\ SwitchInv /\ MainInv
    BY DEF LoggerInv
  <1>1. /\ UNCHANGED <<writerMu, currentLogPath, setups, reload, flushes, before, msgVars,
                       writerVars, accepted, drained, late>>
        /\ main = "run" /\ writerMu = None
        /\ held' = globalWriter /\ globalWriter' = 0
        /\ main' = "returned" \/ (main' = "closing" /\ globalWriter # 0)
    BY DEF CloseGlobal
  <1>2. TypeOK'
    BY <1>0, <1>1, LoggerAssumption DEF TypeOK, MainState, msgVars, writerVars
  <1>3. QueueInv' /\ DropInv'
    BY <1>0, <1>1 DEF QueueInv, DropInv, writerVars
  <1>4. CallInv'
    BY <1>0, <1>1, CallFrame
  <1>5. SwitchInv'
    <2>1. UNCHANGED <<output, closed, worker>>
      BY <1>1 DEF msgVars, writerVars
    <2>2. 0 \notin closed /\ reload = "idle"
      BY <1>0, <1>1, LoggerAssumption DEF SwitchInv, TypeOK, Writers
    <2> QED
      BY <1>0, <1>1, <2>1, <2>2 DEF SwitchInv
  <1>6. MainInv'
    <2>1. globalWriter # 0 => worker[globalWriter] # "none"
      BY <1>0 DEF SwitchInv
    <2>2. \A w \in Writers : worker[w] # "draining"
      BY <1>0, <1>1 DEF MainInv
    <2>3. worker' = worker
      BY <1>1 DEF writerVars
    <2> QED
      BY <1>1, <2>1, <2>2, <2>3 DEF MainInv
  <1> QED
    BY <1>2, <1>3, <1>4, <1>5, <1>6 DEF LoggerInv

\* main closes the writer it took.
LEMMA MainCloseStep ==
  ASSUME LoggerInv, MainClose
  PROVE  LoggerInv'
PROOF
  <1>0. TypeOK /\ QueueInv /\ DropInv /\ CallInv /\ SwitchInv /\ MainInv
    BY DEF LoggerInv
  <1>1. UNCHANGED <<filePath, queue, dropped, buffer, broken, written, worker, held, flushes, before,
                    msgVars, setupVars, accepted, drained, late>>
    BY DEF MainClose
  <1>2. \/ /\ main = "closing" /\ main' = "shutting"
           /\ closed' = closed \cup {held} /\ UNCHANGED shut
        \/ /\ main = "shutting" /\ main' = "waiting"
           /\ shut' = shut \cup {held} /\ UNCHANGED closed
        \/ /\ main = "waiting" /\ main' = "returned"
           /\ UNCHANGED <<closed, shut>>
    BY DEF MainClose
  <1>3. held \in Writers /\ held # 0 /\ worker[held] # "none" /\ held # globalWriter
    BY <1>0, <1>2, LoggerAssumption DEF TypeOK, MainInv, Writers
  <1>4. closed' \subseteq Writers /\ shut' \subseteq closed' /\ closed \subseteq closed' /\ shut \subseteq shut'
    BY <1>0, <1>2, <1>3 DEF TypeOK, MainInv
  <1>5. TypeOK'
    BY <1>0, <1>1, <1>2, <1>4 DEF TypeOK, MainState, msgVars, setupVars
  <1>6. QueueInv'
    BY <1>0, <1>1, <1>4, QueueFrame
  <1>7. DropInv'
    BY <1>0, <1>1 DEF DropInv
  <1>8. CallInv'
    BY <1>0, <1>1, CallFrame
  <1>9. SwitchInv'
    <2>1. UNCHANGED <<globalWriter, writerMu, setups, reload, output, worker>>
      BY <1>1 DEF msgVars, setupVars
    <2>2. \A w \in closed' : w \in closed \/ w = held
      BY <1>2
    <2> QED
      BY <1>0, <1>3, <1>4, <2>1, <2>2 DEF SwitchInv
  <1>10. MainInv'
    <2>1. UNCHANGED <<globalWriter, worker, held>>
      BY <1>1 DEF setupVars
    <2>2. main' = "shutting" => held \in closed'
      BY <1>2
    <2>3. \A w \in Writers : worker[w] # "draining"
      BY <1>0, <1>2 DEF MainInv
    <2> QED
      BY <1>2, <1>3, <2>1, <2>2, <2>3 DEF MainInv
  <1> QED
    BY <1>5, <1>6, <1>7, <1>8, <1>9, <1>10 DEF LoggerInv

-----------------------------------------------------------------------------
(* The theorems.                                                           *)

\* Before anything is logged the invariant holds.
LEMMA LoggerBegins ==
  ASSUME Init
  PROVE  LoggerInv
PROOF
  <1>1. TypeOK
    <2>1. <<>> \in Seq(Msgs) /\ Len(<<>>) = 0
      OBVIOUS
    <2>2. queue \in [Writers -> Seq(Msgs)] /\ \A w \in Writers : Len(queue[w]) <= Capacity
      BY <2>1, LoggerAssumption DEF Init
    <2>3. /\ buffer \in [Writers -> Seq(Msgs)] /\ written \in [Writers -> Seq(Msgs)]
          /\ accepted \in [Writers -> Seq(Msgs)]
      BY <2>1 DEF Init
    <2>4. /\ msg \in [Msgs -> MsgState] /\ worker \in [Writers -> WorkerState]
          /\ filePath \in [Writers -> Paths] /\ dropped \in [Writers -> Nat]
      BY LoggerAssumption DEF Init, MsgState, WorkerState
    <2> QED
      BY <2>2, <2>3, <2>4, LoggerAssumption DEF Init, TypeOK, ReloadState, MainState
  <1>2. QueueInv
    <2>1. <<>> \o <<>> \o <<>> = <<>>
      OBVIOUS
    <2> QED
      BY <2>1 DEF Init, QueueInv, Kept
  <1>3. DropInv
    BY DEF Init, DropInv
  <1>4. CallInv
    BY LoggerAssumption DEF Init, CallInv
  <1>5. SwitchInv
    BY LoggerAssumption DEF Init, SwitchInv
  <1>6. MainInv
    BY DEF Init, MainInv
  <1> QED
    BY <1>1, <1>2, <1>3, <1>4, <1>5, <1>6 DEF LoggerInv

\* The invariant of the logger: each message a queue took is in one place, a
\* loss is still to be reported, and SetupGlobalLogger and main never close a
\* writer that is in use.
THEOREM LoggerInvariant == Spec => []LoggerInv
PROOF
  <1>1. Init => LoggerInv
    BY LoggerBegins
  <1>2. LoggerInv /\ [Next]_vars => LoggerInv'
    <2> SUFFICES ASSUME LoggerInv, [Next]_vars
                 PROVE  LoggerInv'
      OBVIOUS
    <2>1. ASSUME NEW m \in Msgs, Write(m) \/ Send(m) \/ CountDrop(m) \/ Fatalf(m)
          PROVE  LoggerInv'
      BY <2>1, WriteStep, SendStep, CountDropStep, MainMoves
    <2>2. ASSUME NEW w \in Writers, Work(w)
          PROVE  LoggerInv'
      BY <2>2, ReceiveStep, FlushingStep, AcceptFlushStep, DrainStep, ReplyStep DEF Work
    <2>3. ASSUME NEW p \in Paths, SetupGlobalLogger(p)
          PROVE  LoggerInv'
      BY <2>3, SetupStep
    <2>4. CASE Setup
      BY <2>4, SetupCloseStep, SetupOpenStep, SetupFailStep DEF Setup
    <2>5. CASE Main
      BY <2>5, FlushGlobalStep, FlushStep, FlushDoneStep, MainMoves, CloseGlobalStep,
         MainCloseStep DEF Main
    <2>6. CASE UNCHANGED vars
      <3>1. UNCHANGED <<msgVars, writerVars, setupVars, mainVars, accepted, drained, late>>
        BY <2>6 DEF vars
      <3>2. QueueInv' /\ DropInv' /\ CallInv' /\ SwitchInv'
        BY <3>1, MainLeaves
      <3>3. TypeOK'
        BY <3>1 DEF LoggerInv, TypeOK, msgVars, writerVars, setupVars, mainVars
      <3>4. MainInv'
        BY <3>1 DEF LoggerInv, MainInv, writerVars, setupVars, mainVars
      <3> QED
        BY <3>2, <3>3, <3>4 DEF LoggerInv
    <2> QED
      BY <2>1, <2>2, <2>3, <2>4, <2>5, <2>6 DEF Next
  <1> QED
    BY <1>1, <1>2, PTL DEF Spec

\* Every variable of the logger keeps its type, and no queue exceeds its
\* capacity.
THEOREM LoggerTypeCorrect == Spec => []TypeOK
PROOF
  <1>1. LoggerInv => TypeOK
    BY DEF LoggerInv
  <1> QED
    BY <1>1, LoggerInvariant, PTL

\* What the queue of an AsyncWriter took is written once and in order: all of
\* it when the worker has ended, and what was queued before a Flush when the
\* Flush returns.
THEOREM AcceptedAreWritten == Spec => []AcceptedIsWrittenOnce
PROOF
  <1>1. LoggerInv => AcceptedIsWrittenOnce
    <2> SUFFICES ASSUME LoggerInv
                 PROVE  AcceptedIsWrittenOnce
      OBVIOUS
    <2>0. TypeOK /\ QueueInv /\ MainInv
      BY DEF LoggerInv
    <2>1. ASSUME NEW w \in Writers
          PROVE  accepted[w] = written[w] \o buffer[w] \o queue[w]
      BY <2>0 DEF QueueInv, Kept
    <2>2. ASSUME NEW w \in Writers, worker[w] = "done", w \notin broken
          PROVE  written[w] = accepted[w]
      BY <2>0, <2>2, AllWritten DEF QueueInv
    <2>3. ASSUME main = "flushed", held \notin broken
          PROVE  Len(written[held]) >= before
      <3>1. held \in Writers /\ before <= Len(written[held])
        BY <2>0, <2>3, LoggerAssumption DEF TypeOK, MainInv, Writers
      <3>2. Len(written[held]) \in Nat /\ before \in Nat
        BY <2>0, <3>1, Lengths DEF TypeOK
      <3> QED
        BY <3>1, <3>2
    <2> QED
      BY <2>0, <2>1, <2>2, <2>3 DEF AcceptedIsWrittenOnce
  <1> QED
    BY <1>1, LoggerInvariant, PTL

\* Nothing is lost without a cause: a worker that has ended has reported what
\* was dropped, unless a Flush took the messages that would have carried the
\* report, and the output is an open writer whenever nothing is being switched
\* or closed, unless a file could not be opened.
THEOREM LossesHaveCause == Spec => []LossNeedsCause
PROOF
  <1>1. LoggerInv => LossNeedsCause
    <2> SUFFICES ASSUME LoggerInv
                 PROVE  LossNeedsCause
      OBVIOUS
    <2>1. ASSUME NEW w \in Writers, worker[w] = "done"
          PROVE  dropped[w] = 0 \/ w \in drained \/ w \in late
      BY <2>1 DEF LoggerInv, QueueInv, DropInv
    <2>2. ASSUME reload = "idle"
          PROVE  output \notin closed \/ globalWriter = 0
      BY <2>2 DEF LoggerInv, SwitchInv
    <2> QED
      BY <2>1, <2>2 DEF LossNeedsCause
  <1> QED
    BY <1>1, LoggerInvariant, PTL

=============================================================================
