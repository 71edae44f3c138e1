--------------------------- MODULE AdaptiveEngine ---------------------------
(***************************************************************************)
(* Engine.DownloadAdaptive (internal/engine/adaptive.go) from the planned  *)
(* grid to the return value.  A pool of worker goroutines claims batches   *)
(* of grid pieces from a shared cursor, fetches each batch from an origin  *)
(* or a single piece from a swarm peer, and stores the pieces; a monitor   *)
(* goroutine measures the throughput, grows and shrinks the pool and       *)
(* starts an extra worker for a batch that straggles; the calling          *)
(* goroutine waits for the pool, writes the output piece by piece, checks  *)
(* its hash and closes the progress channel.                               *)
(*                                                                         *)
(* A step is one access to shared memory (an atomic, a mutex section, a    *)
(* channel operation) or one call that leaves the process.  Bytes are      *)
(* counted in pieces; what a stored piece contains is the number of the    *)
(* file piece whose bytes it holds.                                        *)
(***************************************************************************)
EXTENDS Integers, FiniteSets

CONSTANTS
  Worker,        \* slots for worker goroutines; one slot holds one goroutine at a time
  N,             \* number of grid pieces
  MinWorkers,    \* opts.MinWorkers after setDefaults
  MaxWorkers,    \* opts.MaxWorkers after setDefaults; nothing makes it >= MinWorkers
  MaxBatch,      \* the most pieces nextBatchGridCount returns
  Options,       \* which of OptionKinds hold
  Faults,        \* which of FaultKinds may happen
  MaxTicks,      \* bound on monitor ticks, to keep the state space finite
  NoData         \* content of a piece that is not stored

\* "swarm": a tracker and a listen address are configured; "ranged": the first
\* source's answer to probeSize's HEAD said Accept-Ranges: bytes; "sha":
\* ExpectedSHA is given.
OptionKinds == {"swarm", "ranged", "sha"}

\* A request that fails or is cut short; a peer that fails or serves other
\* bytes than announced; a write that fails; the caller's context cancelled;
\* a source that answers a range with 200 and the whole body.
FaultKinds == {"request", "peer", "disk", "cancel", "fullbody"}

ASSUME SizesAssumption ==
  /\ N \in Nat \ {0}
  /\ MinWorkers \in Nat \ {0}
  /\ MaxWorkers \in Nat \ {0}
  /\ MaxBatch \in Nat \ {0}
  /\ MaxTicks \in Nat
ASSUME OptionsAssumption ==
  /\ Options \subseteq OptionKinds
  /\ Faults \subseteq FaultKinds
ASSUME NoDataAssumption == NoData \notin Int
-----------------------------------------------------------------------------
Piece == 0 .. N - 1

SwarmEnabled == "swarm" \in Options
Ranged == "ranged" \in Options
HasSHA == "sha" \in Options

\* Lines 128-131: without ranges the pool is pinned to one worker.
PoolMin == IF Ranged THEN MinWorkers ELSE 1
PoolMax == IF Ranged THEN MaxWorkers ELSE 1

Least(a, b) == IF a < b THEN a ELSE b
Most(a, b) == IF a > b THEN a ELSE b

VARIABLES
  \* shared by the goroutines
  cursor,     \* the first piece nobody has claimed
  store,      \* pieceStore: content of each piece, or NoData
  inFlight,   \* the keys of inFlightBatches
  retried,    \* stragglerRetried
  active,     \* activeWorkers
  desired,    \* desiredWorkers
  downloaded, \* the byte counter, in pieces
  raised,     \* what happened for good, see Signals
  \* one worker goroutine per slot
  pc,         \* where the worker is; "idle" is an empty slot
  seen,       \* the activeWorkers it read
  first,      \* first piece of its batch (or the cursor it peeked at)
  next,       \* next piece of the batch to store
  last,       \* last piece of the batch
  viaPeer,    \* the workers whose batch was claimed to be fetched from a peer
  full,       \* the workers that are splitting a whole-file body
  broken,     \* the workers whose batch failed
  \* the monitor goroutine
  mpc,        \* where it is
  mActive,    \* its local active
  mDesired,   \* its local newDesired
  lastBytes,  \* the counter at its last tick
  rate,       \* throughput of this tick, in pieces per interval
  lastRate,   \* lastThroughput
  ticks,      \* how often it ticked
  \* the goroutine that called DownloadAdaptive
  main,       \* where it is
  toSpawn,    \* initial workers it has not spawned yet
  out,        \* pieces written to the output file
  result,     \* "none", "ok" or "error"
  crash       \* "no", or the panic that ended the process

poolVars    == <<active, desired>>
sharedVars  == <<cursor, store, inFlight, retried, downloaded>>
batchVars   == <<first, next, last, viaPeer, full, broken>>
workerVars  == <<pc, seen, batchVars>>
monitorVars == <<mpc, mActive, mDesired, lastBytes, rate, lastRate, ticks>>
mainVars    == <<main, toSpawn, out, result, crash>>
vars == <<poolVars, sharedVars, raised, workerVars, monitorVars, mainVars>>

Init ==
  /\ cursor = 0 /\ store = [p \in Piece |-> NoData]
  /\ inFlight = {} /\ retried = {}
  /\ active = 0 /\ desired = PoolMin /\ downloaded = 0
  /\ raised = {}
  /\ pc = [w \in Worker |-> "idle"] /\ seen = [w \in Worker |-> 0]
  /\ first = [w \in Worker |-> 0]
  /\ next = [w \in Worker |-> 0]
  /\ last = [w \in Worker |-> -1]
  /\ viaPeer = {} /\ full = {} /\ broken = {}
  /\ mpc = "off" /\ mActive = 0 /\ mDesired = 0
  /\ lastBytes = 0 /\ rate = 0 /\ lastRate = 0 /\ ticks = 0
  /\ main = "spawn" /\ toSpawn = PoolMin
  /\ out = [p \in Piece |-> NoData]
  /\ result = "none" /\ crash = "no"
-----------------------------------------------------------------------------
(* What the actions share. *)

\* firstErr is set; stopCh is closed; the caller's context, and the monitor's,
\* is cancelled; e.progress is closed.
Signals == {"firstErr", "stopCh", "ctx", "monitorCtx", "progress"}
failed == "firstErr" \in raised
stopped == "stopCh" \in raised
ctxDone == "ctx" \in raised
cancelled == "monitorCtx" \in raised
closed == "progress" \in raised

\* wg's counter: wg.Add comes with the goroutine, wg.Done is its last step.
Running == {w \in Worker : pc[w] # "idle"}

\* The claimed pieces a worker has not stored.
Pending(w) == next[w] .. last[w]

\* Mutant of Surplus: leaves when the pool has just the wanted size.
SurplusAtEqual(a, d) == a >= d

\* Line 263 as values: more goroutines than wanted.
Surplus(a, d) == a > d

\* Lines 331-334: the last piece of a batch of `count`, clamped to the grid.
BatchEnd(start, count) == Least(start + count - 1, N - 1)

\* Line 335.
CursorAfter(end) == end + 1

\* Mutant of BatchStored: the loop of 531 stops at i < endIdx.
StoredButLast(w) == next[w] + 1 >= last[w]

\* Line 531: that was the batch's last piece.
BatchStored(w) == next[w] = last[w]

\* A full body starts with the file's first piece, not with the one asked for.
Content(w, p) == IF w \in full THEN p - first[w] ELSE p

\* inFlightMu is held by the monitor through its whole straggler scan.
InFlightFree == mpc \notin {"stragglers", "rescue"}

\* Mutant of RoomFor: one worker too many.
RoomAtLimit(a) == a <= PoolMax

\* Lines 391 and 429: there is room for another worker.
RoomFor(a) == a < PoolMax

Goto(w, label) == pc' = [pc EXCEPT ![w] = label]

\* spawnWorker (249-252): the counters and the goroutine.
SpawnWorker == \E w \in Worker :
  /\ pc[w] = "idle"
  /\ Goto(w, "top")
  /\ active' = active + 1
  /\ UNCHANGED <<seen, batchVars>>
-----------------------------------------------------------------------------
(* The worker loop (255-359). *)

\* Lines 256-263: leave when told to stop, else read the active counter.
CheckStop(w) ==
  /\ pc[w] = "top"
  /\ IF stopped \/ ctxDone
       THEN Goto(w, "exit") /\ UNCHANGED seen
       ELSE Goto(w, "surplus") /\ seen' = [seen EXCEPT ![w] = active]
  /\ UNCHANGED <<poolVars, sharedVars, raised, batchVars, monitorVars, mainVars>>

\* Lines 263-267: compare what was read with the wanted size.
RetireIfSurplus(w) ==
  /\ pc[w] = "surplus"
  /\ IF Surplus(seen[w], desired)
       THEN Goto(w, "exit")
       ELSE Goto(w, IF SwarmEnabled THEN "peek" ELSE "claim")
  /\ seen' = [seen EXCEPT ![w] = 0]
  /\ UNCHANGED <<poolVars, sharedVars, raised, batchVars, monitorVars, mainVars>>

\* Lines 270-281: peek at the cursor and look the piece up among the cached
\* peers; whether one is listed for it depends on the tracker.
PeekCursor(w) ==
  /\ pc[w] = "peek"
  /\ IF cursor >= N
       THEN Goto(w, "exit") /\ UNCHANGED first
       ELSE \/ Goto(w, "claim") /\ UNCHANGED first
            \/ Goto(w, "claimPeer") /\ first' = [first EXCEPT ![w] = cursor]
  /\ UNCHANGED <<poolVars, sharedVars, raised, seen, next, last, viaPeer, full,
                 broken, monitorVars, mainVars>>

\* Mutant of StillFirst: the claim trusts the cursor it peeked at.
AlwaysFirst(w) == cursor >= first[w]

\* Line 284: nobody claimed the piece since it was looked up.
StillFirst(w) == cursor = first[w]

\* Lines 282-290 and 320: claim that one piece, or start over.
ClaimForPeer(w) ==
  /\ pc[w] = "claimPeer"
  /\ IF StillFirst(w)
       THEN /\ cursor' = cursor + 1
            /\ next' = [next EXCEPT ![w] = first[w]]
            /\ last' = [last EXCEPT ![w] = first[w]]
            /\ viaPeer' = viaPeer \cup {w}
            /\ Goto(w, "register")
            /\ UNCHANGED first
       ELSE /\ Goto(w, "top")
            /\ first' = [first EXCEPT ![w] = 0]
            /\ UNCHANGED <<cursor, next, last, viaPeer>>
  /\ UNCHANGED <<poolVars, store, inFlight, retried, downloaded, raised, seen, full,
                 broken, monitorVars, mainVars>>

\* Lines 324-336: claim the next batch from the cursor.
ClaimBatch(w) ==
  /\ pc[w] = "claim"
  /\ IF cursor >= N
       THEN Goto(w, "exit") /\ UNCHANGED <<cursor, first, next, last>>
       ELSE \E count \in 1 .. MaxBatch :
              /\ first' = [first EXCEPT ![w] = cursor]
              /\ next' = [next EXCEPT ![w] = cursor]
              /\ last' = [last EXCEPT ![w] = BatchEnd(cursor, count)]
              /\ cursor' = CursorAfter(BatchEnd(cursor, count))
              /\ Goto(w, "register")
  /\ UNCHANGED <<poolVars, store, inFlight, retried, downloaded, raised, seen,
                 viaPeer, full, broken, monitorVars, mainVars>>

\* Lines 291-293 and 338-344.
Register(w) ==
  /\ pc[w] = "register"
  /\ InFlightFree
  /\ inFlight' = inFlight \cup {first[w]}
  /\ Goto(w, IF w \in viaPeer THEN "peer" ELSE "fetch")
  /\ UNCHANGED <<poolVars, cursor, store, retried, downloaded, raised, seen,
                 batchVars, monitorVars, mainVars>>

\* The pieces directory exists until DownloadAdaptive returns (142, 151).
StoreOpen == main # "done"

\* Lines 295-297: the peer's bytes match the announced hash and are stored;
\* FetchFromPeer accepts nothing else.  Peers are on the same grid here; one
\* that cut the file otherwise is the "foreign" fault of QueueEngine.
FetchFromPeer(w) ==
  /\ pc[w] = "peer"
  /\ StoreOpen
  /\ store' = [store EXCEPT ![next[w]] = next[w]]
  /\ next' = [next EXCEPT ![w] = @ + 1]
  /\ Goto(w, "account")
  /\ UNCHANGED <<poolVars, cursor, inFlight, retried, downloaded, raised, seen,
                 first, last, viaPeer, full, broken, monitorVars, mainVars>>

\* Lines 296-307: the peer or the store failed; fall back to the origin.
PeerFails(w) ==
  /\ pc[w] = "peer"
  /\ "peer" \in Faults \/ "disk" \in Faults \/ ~StoreOpen
  /\ Goto(w, "fetch")
  /\ UNCHANGED <<poolVars, sharedVars, raised, seen, batchVars, monitorVars, mainVars>>

\* Lines 514-528: the whole answer is read; a source that ignores Range sends all of it.
Respond(w) ==
  /\ pc[w] = "fetch"
  /\ \/ Ranged /\ full' = full
     \/ (~Ranged \/ "fullbody" \in Faults) /\ full' = full \cup {w}
  /\ Goto(w, "store")
  /\ UNCHANGED <<poolVars, sharedVars, raised, seen, first, next, last, viaPeer,
                 broken, monitorVars, mainVars>>

\* Where a worker goes with an error: after a peer piece fail() comes before
\* the entry is deleted (308-313), after a batch it comes behind (350-357).
BatchBreaks(w) ==
  /\ broken' = broken \cup {w}
  /\ Goto(w, IF w \in viaPeer THEN "fail" ELSE "release")

\* Lines 507-528: no answer, a bad status, or a body that breaks off.
RequestFails(w) ==
  /\ pc[w] = "fetch"
  /\ "request" \in Faults \/ ctxDone
  /\ BatchBreaks(w)
  /\ UNCHANGED <<poolVars, sharedVars, raised, seen, first, next, last, viaPeer,
                 full, monitorVars, mainVars>>

\* Lines 531-545: store the next piece of the batch.
StorePiece(w) ==
  /\ pc[w] = "store"
  /\ StoreOpen
  /\ store' = [store EXCEPT ![next[w]] = Content(w, next[w])]
  /\ next' = [next EXCEPT ![w] = @ + 1]
  /\ Goto(w, IF BatchStored(w) THEN "account" ELSE "store")
  /\ UNCHANGED <<poolVars, cursor, inFlight, retried, downloaded, raised, seen,
                 first, last, viaPeer, full, broken, monitorVars, mainVars>>

\* Lines 533-539: the body is too short for the next piece, or Put fails.
StoreFails(w) ==
  /\ pc[w] = "store"
  /\ ("request" \in Faults /\ w \notin full) \/ "disk" \in Faults \/ ~StoreOpen
  /\ BatchBreaks(w)
  /\ UNCHANGED <<poolVars, sharedVars, raised, seen, first, next, last, viaPeer,
                 full, monitorVars, mainVars>>

\* Lines 298 and 550: count the bytes, the whole body when it was one.
Account(w) ==
  /\ pc[w] = "account"
  /\ downloaded' = downloaded + (IF w \in full THEN N ELSE last[w] - first[w] + 1)
  /\ Goto(w, "release")
  /\ UNCHANGED <<poolVars, cursor, store, inFlight, retried, raised, seen,
                 batchVars, monitorVars, mainVars>>

\* The batch is over: forget it.
ClearBatch(w) ==
  /\ first' = [first EXCEPT ![w] = 0]
  /\ next' = [next EXCEPT ![w] = 0]
  /\ last' = [last EXCEPT ![w] = -1]
  /\ viaPeer' = viaPeer \ {w}
  /\ full' = full \ {w}
  /\ broken' = broken \ {w}

\* Mutant of WithoutEntry: deletes the entry under the batch's last piece.
WithoutLast(w) == inFlight \ {last[w]}

\* Lines 302, 311, 316 and 351: the entry is kept under the first piece.
WithoutEntry(w) == inFlight \ {first[w]}

\* Lines 301-303, 310-317 and 350-352.
Release(w) ==
  /\ pc[w] = "release"
  /\ InFlightFree
  /\ inFlight' = WithoutEntry(w)
  /\ IF w \in broken
       THEN /\ Goto(w, IF w \in viaPeer THEN "exit" ELSE "fail")
            /\ UNCHANGED batchVars
       ELSE Goto(w, "top") /\ ClearBatch(w)
  /\ UNCHANGED <<poolVars, cursor, store, retried, downloaded, raised, seen,
                 monitorVars, mainVars>>

\* Lines 242-246.
FailRaises == {"firstErr", "stopCh"}

\* Lines 240-247: remember the first error and tell everyone to stop.
Fail(w) ==
  /\ pc[w] = "fail"
  /\ raised' = raised \cup FailRaises
  /\ Goto(w, IF w \in viaPeer THEN "release" ELSE "exit")
  /\ UNCHANGED <<poolVars, sharedVars, seen, batchVars, monitorVars, mainVars>>

\* Line 254: the deferred decrement.
Exit(w) ==
  /\ pc[w] = "exit"
  /\ active' = active - 1
  /\ Goto(w, "done")
  /\ ClearBatch(w)
  /\ UNCHANGED <<desired, sharedVars, raised, seen, monitorVars, mainVars>>

\* Mutant of LastToLeave: looks for an empty pool before it left itself.
NobodyLeft(w) == Running = {}

\* wg's counter drops to zero.
LastToLeave(w) == Running = {w}

\* Line 253: wg.Done; the last one wakes the goroutine in wg.Wait.
Done(w) ==
  /\ pc[w] = "done"
  /\ Goto(w, "idle")
  /\ main' = IF main = "waiting" /\ LastToLeave(w) THEN "waking" ELSE main
  /\ UNCHANGED <<poolVars, sharedVars, raised, seen, batchVars, monitorVars,
                 toSpawn, out, result, crash>>
-----------------------------------------------------------------------------
(* The monitor (367-450). *)

\* Lines 377-380.
MonitorStop ==
  /\ mpc = "select"
  /\ cancelled \/ ctxDone \/ stopped
  /\ mpc' = "stopped"
  /\ UNCHANGED <<poolVars, sharedVars, raised, workerVars, mActive, mDesired,
                 lastBytes, rate, lastRate, ticks, mainVars>>

\* Lines 381-389: the ticker fires; select may take it although it was also
\* told to stop.
Tick ==
  /\ mpc = "select"
  /\ ticks < MaxTicks
  /\ ticks' = ticks + 1
  /\ rate' = downloaded - lastBytes
  /\ lastBytes' = downloaded
  /\ mActive' = active
  /\ mpc' = "scale"
  /\ UNCHANGED <<poolVars, sharedVars, raised, workerVars, mDesired, lastRate,
                 mainVars>>

Improved == lastRate > 0 /\ 10 * rate > 11 * lastRate
Worsened == lastRate > 0 /\ 10 * rate < 9 * lastRate

\* Lines 392-399 and 406-413.
GrownTo(a) == Least(a + Most(a \div 2, 1), PoolMax)
ShrunkTo(a) == Most(a - Most(a \div 4, 1), PoolMin)

\* Lines 416-419: what follows the scaling decision.
AfterScale == IF rate > 0 THEN "stragglers" ELSE "send"

\* Lines 391-400.
ScaleUp ==
  /\ mpc = "scale"
  /\ Improved
  /\ RoomFor(mActive)
  /\ mDesired' = GrownTo(mActive)
  /\ desired' = GrownTo(mActive)
  /\ mpc' = "spawn"
  /\ UNCHANGED <<active, sharedVars, raised, workerVars, mActive, lastBytes, rate,
                 lastRate, ticks, mainVars>>

\* Lines 405-414.
ScaleDown ==
  /\ mpc = "scale"
  /\ Worsened
  /\ mActive > PoolMin
  /\ desired' = ShrunkTo(mActive)
  /\ mpc' = AfterScale
  /\ lastRate' = rate
  /\ UNCHANGED <<active, sharedVars, raised, workerVars, mActive, mDesired,
                 lastBytes, rate, ticks, mainVars>>

KeepSize ==
  /\ mpc = "scale"
  /\ ~(Improved /\ RoomFor(mActive))
  /\ ~(Worsened /\ mActive > PoolMin)
  /\ mpc' = AfterScale
  /\ lastRate' = rate
  /\ UNCHANGED <<poolVars, sharedVars, raised, workerVars, mActive, mDesired,
                 lastBytes, rate, ticks, mainVars>>

\* Lines 401-404: one more worker.
SpawnGrown ==
  /\ mpc = "spawn"
  /\ mActive < mDesired
  /\ SpawnWorker
  /\ mActive' = mActive + 1
  /\ UNCHANGED <<desired, sharedVars, raised, mpc, mDesired, lastBytes, rate,
                 lastRate, ticks, mainVars>>

SpawnedAll ==
  /\ mpc = "spawn"
  /\ mActive >= mDesired
  /\ mpc' = AfterScale
  /\ lastRate' = rate
  /\ UNCHANGED <<poolVars, sharedVars, raised, workerVars, mActive, mDesired,
                 lastBytes, rate, ticks, mainVars>>

\* Lines 426-428: a batch took too long (a matter of time) and was not
\* helped before: mark it and count the workers.
FindStraggler ==
  /\ mpc = "stragglers"
  /\ \E p \in inFlight \ retried : retried' = retried \cup {p}
  /\ mActive' = active
  /\ mpc' = "rescue"
  /\ UNCHANGED <<poolVars, cursor, store, inFlight, downloaded, raised, workerVars,
                 mDesired, lastBytes, rate, lastRate, ticks, mainVars>>

\* Lines 429-432: one more worker if there is room.
Rescue ==
  /\ mpc = "rescue"
  /\ mpc' = "stragglers"
  /\ IF RoomFor(mActive)
       THEN SpawnWorker /\ desired' = mActive + 1
       ELSE UNCHANGED <<poolVars, workerVars>>
  /\ UNCHANGED <<sharedVars, raised, mActive, mDesired, lastBytes, rate, lastRate,
                 ticks, mainVars>>

\* Line 435: the scan is over, the mutex released.
ScanOver ==
  /\ mpc = "stragglers"
  /\ mpc' = "send"
  /\ UNCHANGED <<poolVars, sharedVars, raised, workerVars, mActive, mDesired,
                 lastBytes, rate, lastRate, ticks, mainVars>>

\* Lines 438-447: a non-blocking send, which panics once the channel is closed.
SendProgress ==
  /\ mpc = "send"
  /\ crash' = IF closed THEN "send on closed channel" ELSE crash
  /\ mpc' = "select"
  /\ mActive' = 0 /\ mDesired' = 0 /\ rate' = 0
  /\ UNCHANGED <<poolVars, sharedVars, raised, workerVars, lastBytes, lastRate,
                 ticks, main, toSpawn, out, result>>
-----------------------------------------------------------------------------
(* The goroutine that called DownloadAdaptive (363-366, 452-497). *)

\* Lines 363-365.
SpawnInitial ==
  /\ main = "spawn"
  /\ toSpawn > 0
  /\ SpawnWorker
  /\ toSpawn' = toSpawn - 1
  /\ UNCHANGED <<desired, sharedVars, raised, monitorVars, main, out,
                 result, crash>>

\* Lines 367-369.
StartMonitor ==
  /\ main = "spawn"
  /\ toSpawn = 0
  /\ main' = "wait"
  /\ mpc' = "select"
  /\ UNCHANGED <<poolVars, sharedVars, raised, workerVars, mActive, mDesired,
                 lastBytes, rate, lastRate, ticks, toSpawn, out, result,
                 crash>>

\* Line 452: return at once when no goroutine is left, else block.
Wait ==
  /\ main = "wait"
  /\ main' = IF Running = {} THEN "joined" ELSE "waiting"
  /\ UNCHANGED <<poolVars, sharedVars, raised, workerVars, monitorVars,
                 toSpawn, out, result, crash>>

\* wg.Wait returns; it panics when the counter was raised again meanwhile.
Wake ==
  /\ main = "waking"
  /\ IF Running = {}
       THEN main' = "joined" /\ UNCHANGED crash
       ELSE crash' = "WaitGroup is reused" /\ UNCHANGED main
  /\ UNCHANGED <<poolVars, sharedVars, raised, workerVars, monitorVars,
                 toSpawn, out, result>>

\* Returning an error: nothing is closed, the deferred cancel runs.
ReturnError ==
  /\ main' = "done"
  /\ result' = "error"
  /\ raised' = raised \cup {"monitorCtx"}

\* Mutant of Join: the channel is closed with the pool, before the output is
\* written.
JoinAndClose ==
  /\ main = "joined"
  /\ raised' = raised \cup {"monitorCtx", "progress"}
  /\ main' = IF failed THEN "failing" ELSE "assemble"
  /\ UNCHANGED <<poolVars, sharedVars, workerVars, monitorVars, toSpawn,
                 out, result, crash>>

\* Lines 453-459.
Join ==
  /\ main = "joined"
  /\ raised' = raised \cup {"monitorCtx"}
  /\ main' = IF failed THEN "failing" ELSE "assemble"
  /\ UNCHANGED <<poolVars, sharedVars, workerVars, monitorVars, toSpawn,
                 out, result, crash>>

ReturnFirstError ==
  /\ main = "failing"
  /\ ReturnError
  /\ UNCHANGED <<poolVars, sharedVars, workerVars, monitorVars, toSpawn,
                 out, crash>>

\* The pieces that are not in the output yet.
Unwritten == {p \in Piece : out[p] = NoData}

\* Lines 464-472: append the next piece.
WritePiece ==
  /\ main = "assemble"
  /\ \E p \in Unwritten :
       /\ \A q \in Unwritten : p <= q
       /\ store[p] # NoData
       /\ out' = [out EXCEPT ![p] = store[p]]
  /\ UNCHANGED <<poolVars, sharedVars, raised, workerVars, monitorVars,
                 main, toSpawn, result, crash>>

\* Lines 459-470: the file cannot be created or written, or the next piece
\* is missing.
AssembleFails ==
  /\ main = "assemble"
  /\ \/ "disk" \in Faults
     \/ \E p \in Unwritten : /\ \A q \in Unwritten : p <= q
                             /\ store[p] = NoData
  /\ ReturnError
  /\ UNCHANGED <<poolVars, sharedVars, workerVars, monitorVars, toSpawn,
                 out, crash>>

\* The hash of the output is the file's hash only for the file.
HashMatches == out = [p \in Piece |-> p]

\* Mutant of Rejected: the hash is never compared.
NeverRejected == FALSE

\* Lines 474-475.
Rejected == HasSHA /\ ~HashMatches

\* Lines 474-478: everything is written; compare the hashes.
Verify ==
  /\ main = "assemble"
  /\ Unwritten = {}
  /\ IF Rejected
       THEN ReturnError
       ELSE main' = "close" /\ UNCHANGED <<result, raised>>
  /\ UNCHANGED <<poolVars, sharedVars, workerVars, monitorVars, toSpawn,
                 out, crash>>

\* Lines 485-497.
Close ==
  /\ main = "close"
  /\ raised' = raised \cup {"progress"}
  /\ result' = "ok"
  /\ main' = "done"
  /\ UNCHANGED <<poolVars, sharedVars, workerVars, monitorVars,
                 toSpawn, out, crash>>
-----------------------------------------------------------------------------
\* The caller gives up.
Cancel ==
  /\ "cancel" \in Faults
  /\ ~ctxDone
  /\ main # "done"
  /\ raised' = raised \cup {"ctx"}
  /\ UNCHANGED <<poolVars, sharedVars, workerVars, monitorVars, mainVars>>

WorkerStep(w) ==
  \/ CheckStop(w) \/ RetireIfSurplus(w) \/ PeekCursor(w) \/ ClaimForPeer(w)
  \/ ClaimBatch(w) \/ Register(w) \/ FetchFromPeer(w) \/ PeerFails(w)
  \/ Respond(w) \/ RequestFails(w) \/ StorePiece(w) \/ StoreFails(w)
  \/ Account(w) \/ Release(w) \/ Fail(w) \/ Exit(w) \/ Done(w)

MonitorStep ==
  \/ MonitorStop \/ ScaleUp \/ ScaleDown \/ KeepSize \/ SpawnGrown \/ SpawnedAll
  \/ FindStraggler \/ Rescue \/ ScanOver \/ SendProgress

MainStep ==
  \/ SpawnInitial \/ StartMonitor \/ Wait \/ Wake \/ Join \/ ReturnFirstError
  \/ WritePiece \/ AssembleFails \/ Verify \/ Close

\* The call returned, or a panic ended the process.
Ended == main = "done" \/ crash # "no"

Next ==
  \/ /\ crash = "no"
     /\ (\E w \in Worker : WorkerStep(w)) \/ MonitorStep \/ Tick \/ MainStep \/ Cancel
  \/ Ended /\ UNCHANGED vars

Spec == Init /\ [][Next]_vars

\* Goroutines are scheduled, requests are answered or fail, mutexes and
\* wg.Wait wake up; the ticker and the caller's cancel may never come.  That
\* an origin answers is an assumption about the origin: e.client has no
\* timeout (engine.go:55) and no request a deadline.
Fairness == /\ \A w \in Worker : WF_vars(crash = "no" /\ WorkerStep(w))
            /\ WF_vars(crash = "no" /\ MonitorStop)
            /\ WF_vars(crash = "no" /\ MonitorStep)
            /\ WF_vars(crash = "no" /\ MainStep)

FairSpec == Spec /\ Fairness
-----------------------------------------------------------------------------
(* Properties. *)

WorkerLabels == {"idle", "top", "surplus", "peek", "claimPeer", "claim", "register",
                 "peer", "fetch", "store", "account", "release", "fail", "exit", "done"}
MonitorLabels == {"off", "select", "scale", "spawn", "stragglers", "rescue", "send",
                  "stopped"}
MainLabels == {"spawn", "wait", "waiting", "waking", "joined", "failing", "assemble",
               "close", "done"}
Data == Piece \cup {NoData}

SharedType ==
  /\ cursor \in 0 .. N
  /\ store \in [Piece -> Data]
  /\ inFlight \subseteq Piece
  /\ retried \subseteq Piece
  /\ downloaded \in Nat
PoolType == active \in Int /\ desired \in Int /\ raised \subseteq Signals
WorkerType ==
  /\ pc \in [Worker -> WorkerLabels]
  /\ seen \in [Worker -> Int]
  /\ first \in [Worker -> Piece]
  /\ next \in [Worker -> 0 .. N]
  /\ last \in [Worker -> -1 .. N - 1]
  /\ viaPeer \subseteq Worker
  /\ full \subseteq Worker
  /\ broken \subseteq Worker
MonitorType ==
  /\ mpc \in MonitorLabels
  /\ mActive \in Int /\ mDesired \in Int
  /\ lastBytes \in Nat /\ rate \in Int /\ lastRate \in Int
  /\ ticks \in 0 .. MaxTicks
MainType ==
  /\ main \in MainLabels
  /\ toSpawn \in 0 .. PoolMin
  /\ out \in [Piece -> Data]
  /\ result \in {"none", "ok", "error"}
  /\ crash \in {"no", "send on closed channel", "WaitGroup is reused"}

\* Every variable has its type.
TypeOK == /\ SharedType /\ PoolType /\ WorkerType
          /\ MonitorType /\ MainType

\* A piece that was claimed is stored, or still owed by a worker, or the
\* download has failed: claiming, storing, retiring and stopping never drop a
\* piece between them (adaptive.go:256-290, 324-358).
NoPieceLost ==
  \A p \in 0 .. cursor - 1 :
    store[p] # NoData \/ failed \/ \E w \in Worker : p \in Pending(w)

\* No piece is fetched by two workers, and none is fetched that is stored: a
\* worker's claim through the peer path (282-288), made some time after it read
\* the cursor, never overlaps another worker's claim, be it for a peer or of a
\* batch (324-336).
ClaimsExclusive ==
  \A w \in Worker : \A p \in Pending(w) :
    /\ p < cursor
    /\ store[p] = NoData
    /\ \A v \in Worker \ {w} : p \notin Pending(v)

\* The pool never outgrows the larger of the two limits, although the monitor
\* decides on an activeWorkers it read earlier (389-404, 428-432).
WorkerCeiling == active <= Most(PoolMin, PoolMax)

\* Between registering its batch and deleting the entry again.
Busy(w) == \/ pc[w] \in {"peer", "fetch", "store", "account", "release"}
           \/ pc[w] = "fail" /\ w \in viaPeer

\* Every entry of inFlightBatches belongs to a worker still busy with that
\* batch, if only to release it, so a straggler is never a batch that was given
\* back (291-317, 342-352, 420-436).
InFlightHeld ==
  \A p \in inFlight : \E w \in Worker : first[w] = p /\ Busy(w)

\* Nothing ever answers a range with the whole file, or the hash is checked.
BytesTrusted == HasSHA \/ (Ranged /\ "fullbody" \notin Faults)

\* DownloadAdaptive returns nil only after it wrote exactly the file (455-497).
OutputIsFile == result = "ok" /\ BytesTrusted => out = [p \in Piece |-> p]

\* A pool that cannot shrink, on a disk that works, returns an error only when
\* a batch failed, the caller cancelled or the hash is wrong: workers that
\* retire, peers that fail and batches that straggle never leave a hole
\* (adaptive.go:263-320, 459-470).
ErrorHasCause ==
  PoolMin = PoolMax /\ "disk" \notin Faults /\ result = "error"
    => failed \/ ctxDone \/ Unwritten = {}

\* A stored piece keeps its bytes, even after a peer failed, a straggler was
\* helped or a cursor was claimed that was read earlier: no later fetch replaces
\* them with others.
StoredOnce == [][\A p \in Piece : store[p] # NoData => store'[p] = store[p]]_vars

\* Where BytesTrusted holds, the pieces collected, the output and the return
\* value implement what a download promises.
Abstract == INSTANCE Download WITH
  Piece <- Piece,
  got <- {p \in Piece : store[p] = p},
  output <- IF Unwritten = Piece THEN "none"
            ELSE IF HashMatches THEN "whole" ELSE "partial",
  result <- result
ImplementsDownload == Abstract!Spec

\* DownloadAdaptive returns (or the process panics): no goroutine waits
\* forever for another one.
Terminates == <>Ended

\* The pool keeps its minimum while pieces are unclaimed and nobody was told
\* to stop.
PoolFloor ==
  main \in {"wait", "waiting"} /\ cursor < N /\ ~stopped /\ ~ctxDone
    => active >= PoolMin

\* The monitor, which nobody waits for, may send on the closed channel and end
\* the process, but only after the whole output was written, and compared with
\* its hash if one was given: what a crash costs is the return value
\* (adaptive.go:439, 452-497).
CrashLosesNoData ==
  crash = "send on closed channel" => Unwritten = {} /\ ~Rejected
=============================================================================
