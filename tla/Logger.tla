------------------------------- MODULE Logger -------------------------------
(***************************************************************************)
(* The asynchronous logger of internal/logger/logger.go: AsyncWriter with  *)
(* its bounded queue, its worker, Flush and Close; SetupGlobalLogger, which*)
(* a configuration reload calls to switch to another file; and main, which *)
(* flushes and closes it, or leaves through log.Fatalf.                    *)
(*                                                                         *)
(* Writer w is the w-th AsyncWriter that NewAsyncWriter created.  The      *)
(* standard library's logger is external: it serialises the calls of Write *)
(* with a mutex of its own (outMu) and calls the writer SetOutput gave it. *)
(***************************************************************************)
EXTENDS Naturals, Sequences

CONSTANTS
    Msgs,       \* messages, each logged once by some goroutine
    Paths,      \* values of log_file
    NoFile,     \* log_file is empty: console only
    Capacity,   \* capacity of AsyncWriter.queue (32768)
    MaxSetups,  \* bound: calls of SetupGlobalLogger
    MaxFlushes, \* bound: calls of FlushGlobal
    None

ASSUME LoggerAssumption ==
    /\ NoFile \in Paths
    /\ Capacity \in Nat \ {0}
    /\ MaxSetups \in Nat /\ MaxFlushes \in Nat
    /\ None \notin Msgs \cup {"reload"}

Writers == 1..MaxSetups

VARIABLES
    output,      \* the writer of the standard logger, 0 for os.Stderr
    outMu,       \* the message whose Write the standard logger is in
    msg,         \* what became of each message
    globalWriter,\* the current AsyncWriter, 0 for nil
    filePath,    \* AsyncWriter.filePath
    queue,       \* AsyncWriter.queue
    closed,      \* writers whose flag closed is set
    shut,        \* writers whose queue is closed
    dropped,     \* AsyncWriter.dropped
    buffer,      \* what bufWriter was given and the destination has not received
    broken,      \* writers whose destination refused a write: bufio keeps the error
    written,     \* what the destination has received
    worker,      \* where each worker is
    writerMu,    \* the goroutine that holds writerMu: "reload", "main" or None
    currentLogPath, \* main's currentLogPath
    setups,      \* calls of SetupGlobalLogger so far
    reload,      \* where SetupGlobalLogger is
    main,        \* where main is
    held,        \* the writer main works on
    flushes,     \* calls of FlushGlobal so far
    accepted,    \* messages sent to each queue, in order
    before,      \* how many were sent when the pending Flush was called
    drained,     \* writers whose Flush took messages after drops were counted
    late         \* writers with a drop counted behind the last queued message

msgVars == <<output, outMu, msg>>
writerVars == <<filePath, queue, closed, shut, dropped, buffer, broken, written, worker>>
setupVars == <<globalWriter, writerMu, currentLogPath, setups, reload>>
mainVars == <<main, held, flushes, before>>
vars == <<msgVars, writerVars, setupVars, mainVars, accepted, drained, late>>

-----------------------------------------------------------------------------

\* What becomes of a message: "kept" is queued, "dropping" found the queue full,
\* "dropped" is counted, "discarded" is neither because the writer is closed.
MsgState == {"new", "write", "kept", "dropping", "dropped", "discarded", "panicked",
             "stderr"}

WorkerState == {"none", "select", "received", "draining", "done"}

MainState == {"run", "flush", "request", "reply", "flushed",
              "closing", "shutting", "waiting", "returned", "exited"}

ReloadState == {"idle", "closing", "shutting", "waiting", "open"}

Running == main \notin {"returned", "exited"}

Init ==
    /\ output = 0
    /\ outMu = None
    /\ msg = [m \in Msgs |-> "new"]
    /\ globalWriter = 0
    /\ filePath = [w \in Writers |-> NoFile]
    /\ queue = [w \in Writers |-> <<>>]
    /\ closed = {}
    /\ shut = {}
    /\ dropped = [w \in Writers |-> 0]
    /\ buffer = [w \in Writers |-> <<>>]
    /\ written = [w \in Writers |-> <<>>]
    /\ worker = [w \in Writers |-> "none"]
    /\ writerMu = None
    /\ currentLogPath = NoFile
    /\ setups = 0
    /\ reload = "idle"
    /\ main = "run"
    /\ held = 0
    /\ flushes = 0
    /\ accepted = [w \in Writers |-> <<>>]
    /\ before = 0
    /\ drained = {} /\ late = {} /\ broken = {}

-----------------------------------------------------------------------------
(* Write, called by the standard logger for any goroutine.                 *)

\* log.Printf takes the standard logger's mutex; Write looks at closed first.
Write(m) ==
    /\ Running
    /\ msg[m] = "new"
    /\ outMu = None
    /\ IF output \in Writers \ closed
         THEN msg' = [msg EXCEPT ![m] = "write"] /\ outMu' = m
         ELSE /\ msg' = [msg EXCEPT ![m] = IF output = 0 THEN "stderr" ELSE "discarded"]
              /\ UNCHANGED outMu
    /\ UNCHANGED <<output, writerVars, setupVars, mainVars, accepted, drained, late>>

\* The send to the queue, or the default case of the select.  A send on a
\* closed channel panics.
Send(m) ==
    /\ Running
    /\ msg[m] = "write"
    /\ \/ /\ output \in shut
          /\ msg' = [msg EXCEPT ![m] = "panicked"] /\ outMu' = None
          /\ UNCHANGED <<queue, accepted>>
       \/ /\ output \notin shut /\ Len(queue[output]) < Capacity
          /\ msg' = [msg EXCEPT ![m] = "kept"] /\ outMu' = None
          /\ queue' = [queue EXCEPT ![output] = Append(@, m)]
          /\ accepted' = [accepted EXCEPT ![output] = Append(@, m)]
       \/ /\ output \notin shut /\ Len(queue[output]) = Capacity
          /\ msg' = [msg EXCEPT ![m] = "dropping"]
          /\ UNCHANGED <<outMu, queue, accepted>>
    /\ UNCHANGED <<output, filePath, closed, shut, dropped, buffer, broken, written, worker,
                   setupVars, mainVars, drained, late>>

\* dropped.Add(1): by then the worker may have emptied the queue, and ended.
CountDrop(m) ==
    /\ Running
    /\ msg[m] = "dropping"
    /\ msg' = [msg EXCEPT ![m] = "dropped"] /\ outMu' = None
    /\ dropped' = [dropped EXCEPT ![output] = @ + 1]
    /\ late' = IF queue[output] = <<>> THEN late \cup {output} ELSE late
    /\ UNCHANGED <<output, filePath, queue, closed, shut, buffer, broken, written, worker,
                   setupVars, mainVars, accepted, drained>>

-----------------------------------------------------------------------------
(* The worker.                                                             *)

\* bufWriter.Flush, whose error the worker ignores: the destination takes what
\* the buffer holds, or an initial part of it and nothing more ever after.
FlushBuffer(w) ==
    \E n \in 0..Len(buffer[w]) :
        /\ w \in broken => n = 0
        /\ written' = [written EXCEPT ![w] = @ \o SubSeq(buffer[w], 1, n)]
        /\ buffer' = [buffer EXCEPT ![w] = SubSeq(@, n + 1, Len(@))]
        /\ broken' = IF n < Len(buffer[w]) THEN broken \cup {w} ELSE broken

\* The head of the queue goes to bufWriter.
Take(w) ==
    /\ queue' = [queue EXCEPT ![w] = Tail(@)]
    /\ buffer' = [buffer EXCEPT ![w] = Append(@, Head(queue[w]))]

\* Mutant: the number of dropped messages is not reported.
ReceiveSilently(w) ==
    /\ Running
    /\ worker[w] = "select"
    /\ queue[w] # <<>>
    /\ Take(w)
    /\ worker' = [worker EXCEPT ![w] = "received"]
    /\ UNCHANGED <<filePath, closed, shut, dropped, broken, written, msgVars, setupVars, mainVars,
                   accepted, drained, late>>

\* Receiving a message; the number of dropped messages goes to bufWriter before
\* it and is reset.
Receive(w) ==
    /\ Running
    /\ worker[w] = "select"
    /\ queue[w] # <<>>
    /\ Take(w)
    /\ dropped' = [dropped EXCEPT ![w] = 0]
    /\ worker' = [worker EXCEPT ![w] = "received"]
    /\ drained' = drained \ {w} /\ late' = late \ {w}
    /\ UNCHANGED <<filePath, closed, shut, broken, written, msgVars, setupVars, mainVars,
                   accepted>>

\* Once a message is written the buffer is flushed, if the queue is empty.
FlushIfIdle(w) ==
    /\ Running
    /\ worker[w] = "received"
    /\ IF queue[w] = <<>> THEN FlushBuffer(w) ELSE UNCHANGED <<written, buffer, broken>>
    /\ worker' = [worker EXCEPT ![w] = "select"]
    /\ UNCHANGED <<filePath, queue, closed, shut, dropped, msgVars, setupVars, mainVars,
                   accepted, drained, late>>

\* The ticker flushes every 100 ms.
Tick(w) ==
    /\ Running
    /\ worker[w] = "select"
    /\ buffer[w] # <<>>
    /\ FlushBuffer(w)
    /\ UNCHANGED <<filePath, queue, closed, shut, dropped, worker, msgVars, setupVars,
                   mainVars, accepted, drained, late>>

\* Mutant: the worker looks at the flag and leaves what is queued.
StopAtFlag(w) ==
    /\ Running
    /\ worker[w] = "select"
    /\ w \in closed
    /\ FlushBuffer(w)
    /\ worker' = [worker EXCEPT ![w] = "done"]
    /\ UNCHANGED <<filePath, queue, closed, shut, dropped, msgVars, setupVars, mainVars,
                   accepted, drained, late>>

\* The queue is closed and empty: drainQueue finds nothing, and done is closed.
Stop(w) ==
    /\ Running
    /\ worker[w] = "select"
    /\ w \in shut /\ queue[w] = <<>>
    /\ FlushBuffer(w)
    /\ worker' = [worker EXCEPT ![w] = "done"]
    /\ UNCHANGED <<filePath, queue, closed, shut, dropped, msgVars, setupVars, mainVars,
                   accepted, drained, late>>

\* Receiving main's flush request.
AcceptFlush(w) ==
    /\ worker[w] = "select"
    /\ main = "request" /\ held = w
    /\ worker' = [worker EXCEPT ![w] = "draining"]
    /\ main' = "reply"
    /\ UNCHANGED <<filePath, queue, closed, shut, dropped, buffer, broken, written, msgVars,
                   setupVars, held, flushes, before, accepted, drained, late>>

\* drainQueue writes one message, without reporting what was dropped.
Drain(w) ==
    /\ worker[w] = "draining"
    /\ queue[w] # <<>>
    /\ Take(w)
    /\ drained' = IF dropped[w] > 0 THEN drained \cup {w} ELSE drained
    /\ UNCHANGED <<filePath, closed, shut, dropped, broken, written, worker, msgVars,
                   setupVars, mainVars, accepted, late>>

\* drainQueue found the queue empty: flush, sync and answer the request.
Reply(w) ==
    /\ worker[w] = "draining"
    /\ queue[w] = <<>>
    /\ FlushBuffer(w)
    /\ worker' = [worker EXCEPT ![w] = "select"]
    /\ main' = "flushed"
    /\ UNCHANGED <<filePath, queue, closed, shut, dropped, msgVars, setupVars, held, flushes,
                   before, accepted, drained, late>>

Work(w) ==
    \/ Receive(w) \/ FlushIfIdle(w) \/ Tick(w) \/ Stop(w)
    \/ AcceptFlush(w) \/ Drain(w) \/ Reply(w)

-----------------------------------------------------------------------------
(* SetupGlobalLogger, called by main at start and then by reloads.         *)

\* setLoggerOutput: a path that is not the current one.  SetupGlobalLogger
\* returns at once if the writer has this path already.
SetupGlobalLogger(p) ==
    /\ Running
    /\ reload = "idle" /\ writerMu = None
    /\ setups < MaxSetups
    /\ setups = 0 \/ p # currentLogPath
    /\ setups' = setups + 1
    /\ currentLogPath' = p
    /\ IF globalWriter = 0
         THEN reload' = "open" /\ writerMu' = "reload"
         ELSE IF filePath[globalWriter] = p
           THEN UNCHANGED <<reload, writerMu>>
           ELSE reload' = "closing" /\ writerMu' = "reload"
    /\ UNCHANGED <<globalWriter, msgVars, writerVars, mainVars, accepted, drained, late>>

\* Close: set the flag, close the queue, wait for the worker.
SetupClose ==
    /\ Running
    /\ \/ /\ reload = "closing"
          /\ closed' = closed \cup {globalWriter}
          /\ reload' = "shutting"
          /\ UNCHANGED <<shut, globalWriter>>
       \/ /\ reload = "shutting"
          /\ shut' = shut \cup {globalWriter}
          /\ reload' = "waiting"
          /\ UNCHANGED <<closed, globalWriter>>
       \/ /\ reload = "waiting"
          /\ worker[globalWriter] = "done"
          /\ globalWriter' = 0
          /\ reload' = "open"
          /\ UNCHANGED <<closed, shut>>
    /\ UNCHANGED <<filePath, queue, dropped, buffer, broken, written, worker, writerMu,
                   currentLogPath, setups, msgVars, mainVars, accepted, drained, late>>

\* NewAsyncWriter succeeds: the standard logger, when no Write is in progress,
\* is given the new writer.
SetupOpen ==
    /\ Running
    /\ reload = "open"
    /\ outMu = None
    /\ filePath' = [filePath EXCEPT ![setups] = currentLogPath]
    /\ worker' = [worker EXCEPT ![setups] = "select"]
    /\ globalWriter' = setups
    /\ output' = setups
    /\ reload' = "idle" /\ writerMu' = None
    /\ UNCHANGED <<queue, closed, shut, dropped, buffer, broken, written, outMu, msg, currentLogPath,
                   setups, mainVars, accepted, drained, late>>

\* The file cannot be opened: SetupGlobalLogger returns the error.
SetupFail ==
    /\ Running
    /\ reload = "open"
    /\ currentLogPath # NoFile
    /\ reload' = "idle" /\ writerMu' = None
    /\ UNCHANGED <<globalWriter, currentLogPath, setups, msgVars, writerVars, mainVars,
                   accepted, drained, late>>

-----------------------------------------------------------------------------
(* main.                                                                   *)

\* FlushGlobal takes the writer under writerMu, which main has installed
\* before; Flush is called after the mutex is released.
FlushGlobal ==
    /\ main = "run"
    /\ setups > 0 /\ (setups = 1 => reload = "idle")
    /\ writerMu = None
    /\ flushes < MaxFlushes
    /\ flushes' = flushes + 1
    /\ held' = globalWriter
    /\ main' = IF globalWriter = 0 THEN "run" ELSE "flush"
    /\ UNCHANGED <<before, msgVars, writerVars, setupVars, accepted, drained, late>>

\* Flush returns if the writer is closed.
Flush ==
    /\ main = "flush"
    /\ before' = Len(accepted[held])
    /\ main' = IF held \in closed THEN "run" ELSE "request"
    /\ UNCHANGED <<held, flushes, msgVars, writerVars, setupVars, accepted, drained, late>>

\* Mutant: Flush waits for the worker's answer only.
FlushIgnoresDone ==
    /\ FALSE
    /\ UNCHANGED vars

\* The worker has ended instead of taking the request.
FlushDone ==
    /\ main = "request"
    /\ worker[held] = "done"
    /\ main' = "flushed"
    /\ UNCHANGED <<held, flushes, before, msgVars, writerVars, setupVars, accepted, drained,
                   late>>

FlushReturns ==
    /\ main = "flushed"
    /\ main' = "run"
    /\ UNCHANGED <<held, flushes, before, msgVars, writerVars, setupVars, accepted, drained,
                   late>>

\* CloseGlobal takes the writer out of globalWriter; the rest is Close.
CloseGlobal ==
    /\ main = "run"
    /\ setups > 0 /\ (setups = 1 => reload = "idle")
    /\ writerMu = None
    /\ held' = globalWriter
    /\ globalWriter' = 0
    /\ main' = IF globalWriter = 0 THEN "returned" ELSE "closing"
    /\ UNCHANGED <<writerMu, currentLogPath, setups, reload, flushes, before, msgVars,
                   writerVars, accepted, drained, late>>

MainClose ==
    /\ \/ /\ main = "closing"
          /\ closed' = closed \cup {held}
          /\ main' = "shutting"
          /\ UNCHANGED shut
       \/ /\ main = "shutting"
          /\ shut' = shut \cup {held}
          /\ main' = "waiting"
          /\ UNCHANGED closed
       \/ /\ main = "waiting"
          /\ worker[held] = "done"
          /\ main' = "returned"
          /\ UNCHANGED <<closed, shut>>
    /\ UNCHANGED <<filePath, queue, dropped, buffer, broken, written, worker, held, flushes, before,
                   msgVars, setupVars, accepted, drained, late>>

\* log.Fatalf: the message has been handed to Write, and os.Exit follows.
Fatalf(m) ==
    /\ main = "run"
    /\ setups > 0 /\ (setups = 1 => reload = "idle")
    /\ msg[m] \notin {"new", "write", "dropping", "panicked"}
    /\ main' = "exited"
    /\ UNCHANGED <<held, flushes, before, msgVars, writerVars, setupVars, accepted, drained,
                   late>>

Main == FlushGlobal \/ Flush \/ FlushDone \/ FlushReturns \/ CloseGlobal \/ MainClose

Setup == SetupClose \/ SetupOpen \/ SetupFail

Next ==
    \/ \E m \in Msgs : Write(m) \/ Send(m) \/ CountDrop(m) \/ Fatalf(m)
    \/ \E w \in Writers : Work(w)
    \/ \E p \in Paths : SetupGlobalLogger(p)
    \/ Setup
    \/ Main

Spec == Init /\ [][Next]_vars

\* Workers and callers that are ready are scheduled.  main need not flush or
\* close, and nobody need log.
FairSpec ==
    /\ Spec
    /\ \A w \in Writers : WF_vars(Work(w))
    /\ \A m \in Msgs : WF_vars(Send(m) \/ CountDrop(m))
    /\ WF_vars(Setup)
    /\ WF_vars(Flush \/ FlushDone \/ FlushReturns \/ MainClose)

-----------------------------------------------------------------------------
(* Properties.                                                             *)

TypeOK ==
    /\ output \in 0..MaxSetups /\ globalWriter \in 0..MaxSetups /\ held \in 0..MaxSetups
    /\ outMu \in Msgs \cup {None}
    /\ msg \in [Msgs -> MsgState]
    /\ filePath \in [Writers -> Paths] /\ currentLogPath \in Paths
    /\ queue \in [Writers -> Seq(Msgs)] /\ \A w \in Writers : Len(queue[w]) <= Capacity
    /\ closed \subseteq Writers /\ shut \subseteq closed /\ broken \subseteq Writers
    /\ drained \subseteq Writers /\ late \subseteq Writers
    /\ dropped \in [Writers -> Nat]
    /\ buffer \in [Writers -> Seq(Msgs)]
    /\ written \in [Writers -> Seq(Msgs)]
    /\ accepted \in [Writers -> Seq(Msgs)]
    /\ worker \in [Writers -> WorkerState]
    /\ writerMu \in {"reload", None}
    /\ setups \in 0..MaxSetups /\ flushes \in 0..MaxFlushes
    /\ reload \in ReloadState /\ main \in MainState
    /\ before \in Nat

\* A message the queue of an AsyncWriter took is in exactly one place, in the
\* order in which the queue took it.  Every one of them has reached the
\* destination when the worker has ended, because Close was called; and when
\* Flush returns from its wait, by the worker's answer or because a concurrent
\* Close has ended the worker, those that were queued when it was called.  The
\* two promises fail only for a destination that has refused a write, an error
\* the worker ignores.
AcceptedIsWrittenOnce ==
    /\ TypeOK
    /\ \A w \in Writers :
        /\ accepted[w] = written[w] \o buffer[w] \o queue[w]
        /\ worker[w] = "done" /\ w \notin broken => written[w] = accepted[w]
    /\ main = "flushed" /\ held \notin broken => Len(written[held]) >= before

\* The log loses nothing without a trace or a cause.  The worker reports how
\* many messages were dropped before it ends, with two exceptions: a Flush,
\* whose drainQueue took the messages with which the drops would have been
\* reported, and a drop counted when nothing was queued any more, between the
\* select of Write and dropped.Add.  Output goes to an open writer whenever no
\* switch is in progress and main has not closed the logger, unless the last
\* switch could not open its file.
LossNeedsCause ==
    /\ \A w \in Writers :
        worker[w] = "done" => dropped[w] = 0 \/ w \in drained \/ w \in late
    /\ reload = "idle" /\ main \in {"run", "flush", "request", "reply", "flushed"}
        => output \notin closed \/ globalWriter = 0

\* SetupGlobalLogger, Flush and Close return, although they wait for the
\* worker and for each other.
CallersReturn ==
    /\ reload # "idle" ~> reload = "idle" \/ ~Running
    /\ main \in {"request", "reply"} ~> main \notin {"request", "reply"}
    /\ main = "waiting" ~> main = "returned"

=============================================================================
