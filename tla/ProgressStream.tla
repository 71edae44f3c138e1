---------------------------- MODULE ProgressStream ----------------------------
(***************************************************************************)
(* How progress updates reach a caller: the engine's progress channel      *)
(* (internal/engine/engine.go, queue.go), the ticker goroutine that sends  *)
(* on it, the last update and the close by the goroutine that downloads,   *)
(* and the forwarding goroutine of dl2.DownloadWithProgress                *)
(* (pkg/dl2/dl2.go) between that channel and the caller's.                 *)
(*                                                                         *)
(* A step is one channel operation or one read of the counters.  An update *)
(* is the number of pieces it reports done.  Where the pieces come from is *)
(* in QueueEngine and FixedEngine.                                         *)
(***************************************************************************)
EXTENDS Integers, Sequences, FiniteSets

CONSTANTS
  N,         \* number of pieces
  Capacity,  \* of e.progress; 16 in the code
  LastFlush  \* whether the engine sends a last update: DownloadQueue does and
             \* cancels the ticker first, Download does neither

ASSUME SizesAssumption ==
  /\ N \in Nat \ {0}
  /\ Capacity \in Nat \ {0}
  /\ LastFlush \in BOOLEAN

VARIABLES
  done,      \* the counter of finished pieces
  engine,    \* where the goroutine that downloads is
  result,    \* "none", "ok" or "error"
  cancelled, \* tickerCtx is done
  ticker,    \* where the ticker goroutine is
  reading,   \* the count it read
  progress,  \* e.progress
  closed,    \* it is closed
  forwarder, \* where the goroutine of DownloadWithProgress is
  held,      \* the update it holds
  seen,      \* the last update the caller received, -1 before the first
  ended,     \* the caller's channel is closed
  crash      \* a send on a closed channel ended the process

engineVars  == <<done, engine, result, cancelled>>
tickerVars  == <<ticker, reading>>
channelVars == <<progress, closed>>
callerVars  == <<forwarder, held, seen, ended>>
vars == <<engineVars, tickerVars, channelVars, callerVars, crash>>

Init ==
  /\ done = 0 /\ engine = "working" /\ result = "none" /\ cancelled = FALSE
  /\ ticker = "select" /\ reading = 0
  /\ progress = <<>> /\ closed = FALSE
  /\ forwarder = "receive" /\ held = 0 /\ seen = -1 /\ ended = FALSE
  /\ crash = FALSE
-----------------------------------------------------------------------------
\* A send with a default branch: dropped when the buffer is full.
TrySend(update) ==
  progress' = IF Len(progress) < Capacity THEN Append(progress, update) ELSE progress

\* A piece is finished (queue.go:299, engine.go:155).
FinishPiece ==
  /\ engine = "working"
  /\ done < N
  /\ done' = done + 1
  /\ UNCHANGED <<engine, result, cancelled, tickerVars, channelVars, callerVars, crash>>

\* Mutant of AllDone: one worker is not waited for.
LastNotAwaited == done >= N - 1

\* wg.Wait, without an error.
AllDone == done = N

\* All workers are back (queue.go:304-305, engine.go:160).
Join ==
  /\ engine = "working"
  /\ AllDone
  /\ engine' = "assemble"
  /\ cancelled' = LastFlush
  /\ UNCHANGED <<done, result, tickerVars, channelVars, callerVars, crash>>

\* Any return with an error runs only the deferred calls, and those close
\* nothing (queue.go:167, 305-318; engine.go:114, 160-171).
Fail ==
  /\ engine \in {"working", "assemble"}
  /\ engine' = "returned"
  /\ result' = "error"
  /\ cancelled' = TRUE
  /\ UNCHANGED <<done, tickerVars, channelVars, callerVars, crash>>

\* Mutant of Flush: without a default branch.
BlockingFlush ==
  /\ engine = "assemble"
  /\ LastFlush => Len(progress) < Capacity
  /\ engine' = "close"
  /\ IF LastFlush THEN TrySend(N) ELSE UNCHANGED progress
  /\ UNCHANGED <<done, result, cancelled, tickerVars, closed, callerVars, crash>>

\* The output is written and checked; the last update (queue.go:321-331).
Flush ==
  /\ engine = "assemble"
  /\ engine' = "close"
  /\ IF LastFlush THEN TrySend(N) ELSE UNCHANGED progress
  /\ UNCHANGED <<done, result, cancelled, tickerVars, closed, callerVars, crash>>

\* Mutant of CloseAfter: the channel is left open.
LeftOpen == FALSE

\* queue.go:333, engine.go:174.
CloseAfter == TRUE

\* queue.go:333-334, engine.go:174-175.
Close ==
  /\ engine = "close"
  /\ closed' = CloseAfter
  /\ engine' = "returning"
  /\ UNCHANGED <<done, result, cancelled, tickerVars, progress, callerVars, crash>>

\* The deferred cancelTicker (queue.go:167, engine.go:114).
Return ==
  /\ engine = "returning"
  /\ engine' = "returned"
  /\ result' = "ok"
  /\ cancelled' = TRUE
  /\ UNCHANGED <<done, tickerVars, channelVars, callerVars, crash>>
-----------------------------------------------------------------------------
\* The ticker fires and the counters are read (queue.go:175-188,
\* engine.go:122-135).
Tick ==
  /\ ticker = "select"
  /\ ticker' = "send"
  /\ reading' = done
  /\ UNCHANGED <<engineVars, channelVars, callerVars, crash>>

\* The update is sent (queue.go:182-191, engine.go:129-138).
TickSend ==
  /\ ticker = "send"
  /\ ticker' = "select"
  /\ reading' = 0
  /\ IF closed
       THEN crash' = TRUE /\ UNCHANGED progress
       ELSE TrySend(reading) /\ UNCHANGED crash
  /\ UNCHANGED <<engineVars, closed, callerVars>>

\* queue.go:173-174, engine.go:120-121.
TickStop ==
  /\ ticker = "select"
  /\ cancelled
  /\ ticker' = "stopped"
  /\ UNCHANGED <<engineVars, reading, channelVars, callerVars, crash>>

\* dl2.go:90: the next update.
Receive ==
  /\ forwarder = "receive"
  /\ progress # <<>>
  /\ held' = Head(progress)
  /\ progress' = Tail(progress)
  /\ forwarder' = "send"
  /\ UNCHANGED <<engineVars, tickerVars, closed, seen, ended, crash>>

\* dl2.go:91: the caller takes it.
Forward ==
  /\ forwarder = "send"
  /\ seen' = held
  /\ held' = 0
  /\ forwarder' = "receive"
  /\ UNCHANGED <<engineVars, tickerVars, channelVars, ended, crash>>

\* dl2.go:90-93: the engine's channel is closed and empty.
EndOfStream ==
  /\ forwarder = "receive"
  /\ closed /\ progress = <<>>
  /\ ended' = TRUE
  /\ forwarder' = "done"
  /\ UNCHANGED <<engineVars, tickerVars, channelVars, held, seen, crash>>

EngineAdvance == FinishPiece \/ Join \/ Flush \/ Close \/ Return
EngineStep == EngineAdvance \/ Fail
TickerStep == Tick \/ TickSend \/ TickStop
CallerStep == Receive \/ Forward \/ EndOfStream
Over == crash \/ engine = "returned"

Next ==
  \/ ~crash /\ (EngineStep \/ TickerStep \/ CallerStep)
  \/ Over /\ UNCHANGED vars

Spec == Init /\ [][Next]_vars

\* The engine and the ticker are scheduled, and nothing has to fail; a caller
\* that has had enough is not assumed to receive.
EngineFairSpec ==
  /\ Spec
  /\ WF_vars(~crash /\ EngineAdvance)
  /\ WF_vars(~crash /\ (TickSend \/ TickStop))

\* The caller receives what is sent.
CallerFairness == WF_vars(~crash /\ CallerStep)
FairSpec == EngineFairSpec /\ CallerFairness
-----------------------------------------------------------------------------
(* Properties. *)

Update == 0 .. N

\* Every variable has its type; the buffer is never overrun.
TypeOK ==
  /\ done \in Update
  /\ engine \in {"working", "assemble", "close", "returning", "returned"}
  /\ result \in {"none", "ok", "error"}
  /\ ticker \in {"select", "send", "stopped"} /\ reading \in Update
  /\ progress \in Seq(Update) /\ Len(progress) <= Capacity
  /\ forwarder \in {"receive", "send", "done"} /\ held \in Update
  /\ seen \in Update \cup {-1}
  /\ cancelled \in BOOLEAN /\ closed \in BOOLEAN /\ ended \in BOOLEAN /\ crash \in BOOLEAN

\* All updates on their way to the caller, the oldest first.
InTransit ==
  (IF seen >= 0 THEN <<seen>> ELSE <<>>)
    \o (IF forwarder = "send" THEN <<held>> ELSE <<>>) \o progress

\* Progress goes back at most once: an update read before the last piece was
\* counted may follow the last update, nothing else is out of order
\* (queue.go:176-191, 321-331).
Overtaken == {j \in 1 .. Len(InTransit) : \E i \in 1 .. j - 1 : InTransit[i] > InTransit[j]}
OnlyTheLastOvertakes ==
  /\ Cardinality(Overtaken) <= 1
  /\ \A j \in Overtaken : \A i \in 1 .. j - 1 :
       InTransit[i] > InTransit[j] => InTransit[i] = N /\ engine # "working"

\* The download returns whether anybody reads its updates or not.
NeverBlocksOnCaller == <>Over

\* After a download that succeeded the channel of a caller that receives is
\* closed, and its loop over the updates ends (dl2.go:88-95).
StreamEnds == CallerFairness => (result = "ok" ~> (ended \/ crash))
=============================================================================
