# A verification project for dl2

dl2 downloads one file over many connections, from several mirrors and from
other clients that are downloading the same file. This directory holds TLA+
models of its concurrent and arithmetic core, TLC configurations that check them
on small instances, and theorems that TLAPS proves for every instance. Line
numbers refer to the source files named beside them.

    tlc -config AdaptiveScaling.cfg MCAdaptive.tla     one model-checking run
    tlapm AdaptiveEngineProofs.tla                     the proofs of one component

Contents: [inventory](#inventory), [plan](#plan), [modules](#modules-and-the-code),
[runs](#runs), [fairness](#fairness), [proofs](#proofs),
[disagreements](#where-code-and-documents-disagree), [limits](#what-is-not-modelled).

## Inventory

### Chunk planning, `internal/chunk/chunk.go`
State: none; pure functions. `Plan` cuts a file into as many chunks as there are
connections, `PlanQueue` into pieces of a fixed size, `VerifyWholeFile` hashes the
output. Callers: the three engines. Hard: sizes that are no multiple, smaller than
a piece, zero, or unknown (-1). Correct when the chunks cover the file once, and
when a piece's index means the same bytes to every client.

### Adaptive engine, `internal/engine/adaptive.go`
State shared by all goroutines: the cursor over the grid, `activeWorkers` and
`desiredWorkers`, the table of batches in flight, the piece store, the first
error and `stopCh`, `bytesThisWindow` and the other counters. Operations: a worker
claims one piece for a peer or a batch of consecutive pieces for an origin, fetches,
stores, accounts and releases; a monitor ticks, compares throughput, grows or
shrinks the pool and starts a helper for a straggling batch; the caller waits,
assembles, verifies and closes the progress channel. Hard: decisions taken on
values read earlier (the counter of workers, the cursor), failing fetches of claimed
pieces, channels closed by one goroutine and used by another. Correct when no piece
is lost or fetched twice, the pool stays in its limits, and nil is returned only
with the file.

### Queue engine, `internal/engine/queue.go` (with parts of `engine.go`)
State: the channel of pieces, one part file per piece, the piece store, `firstErr`.
Operations: take a piece, race a peer against an origin, write the winner, or
download with retries; assemble the part files; a path of its own for small files.
Hard: the race and its losers, part files left by failed attempts, cancellation in
every one of these steps. Correct when no piece is dropped silently, what is shared
with peers is what is on disk, and the call returns.

### Fixed engine, `internal/engine/engine.go`
State: one part file per chunk, an error group (`errGroup`). Operations: one
goroutine per chunk with retries; reassembly. Hard: which of several errors is
reported, and that the call waits for everyone it has cancelled.

### Progress, `engine.go`, `queue.go`, `pkg/dl2/dl2.go`
State: two counters, the buffered channel `e.progress`, the caller's channel.
Operations: the ticker's lossy send, the final update, the close, the forwarding
goroutine of `DownloadWithProgress`. Hard: order of last updates, close against
send, a caller that does not read.

### Swarm, `internal/swarm/swarm.go` and `cmd/tracker/main.go`
State: the store of pieces and its hashes, the listing of every peer at the tracker
with the time it was last heard of, the adaptive engine's copy of the tracker's
reply. Operations: `Put`, `Get`, `ServeHTTP`, `Announce`, `AnnouncePiece`, `Peers`,
`FetchFromPeer`; at the tracker `announce` and `peersFor`; the engines' announce and
refresh loops. Hard: announcements overtaking each other (one in flight per stored
piece, and the ticker's), announcements after the return, listings of peers that are
gone, a peer server that could not bind, a restarted tracker, two grids under one file
hash (the adaptive engine cuts 1 MB pieces, the queue engine 2 MB by default, and both
use the hash of the URL). Correct when no wrong piece gets in, a running download is
listed with what it has in the end, and one that is gone is not.

### API server, `cmd/server`
State: the job table under a mutex (`main.go`), one token bucket per address
(`ratelimit.go`). Operations: `handleDownload`, `handleStatus`, `handleJobs`, the
background download of each job; `allow` and `cleanupLoop`. `ssrf.go` filters
addresses and keeps no state. Hard: a job encoded while it is written, a list written
to its reader under the lock, job numbers that start again after a restart, forgetting
a bucket without giving tokens away, outputs that callers name. Correct when a job number
denotes its caller's job, what a done job wrote is still there, and every job's end is
recorded. No hash is passed to the download, so "done" does not mean that the bytes are right.

### Browser extension, `browser-extension`
State: the browser's own download, the reply awaited, what the popup shows. Operations:
`onCreated` posts the download to the server and cancels the browser's own once it was
accepted; the popup polls the list of jobs. Hard: refused, lost and late replies, a
job that fails, a server that dies with it. Correct when a download is lost by both
only where the browser's was cancelled for a job that the server had accepted.

### The rest
`pkg/dl2` copies options into the engines'. `cmd/dl2` is flags and printing. `cmd/benchmark`, `compare`, `fulltest` and `swarmbench` measure; `deploy` and
`examples` hold scripts and samples.

### How they interact
An engine plans with chunk, asks origins over HTTP, and, with a tracker configured,
runs a peer server over its store, announces it and asks other peers. The SDK and
the command line call one engine each; the server calls one per job; the extension
calls the server. Inside an engine the goroutines share memory as listed above.

## Plan

Most important first; the first twelve are done.

1. `Download`: the abstract promise of a download.
2. `AdaptiveEngine`, its runs and proofs: the default mode, and the only one with a
   changing pool.
3. `QueueEngine`: races, retries, small files.
4. `FixedEngine`: the error group.
5. `ChunkPlan` and proofs: what lets 2 to 4 count in pieces.
6. `ProgressStream`: delivery and the two closes.
7. `RateLimiter` and proofs.
8. `Swarm`: stores, announcements in flight, the tracker's listings and the engines'
   use of them. It is the other side of what the engines assume: a peer answers with
   the announced bytes or fails.
9. `BatchSizing`: the counters behind `nextBatchGridCount`, at byte level.
10. `JobServer`: jobs, their encoding, restarts, the extension's hand-over, the popup.
11. Proofs of the invariants of `Swarm`, `JobServer`, `BatchSizing` and `ProgressStream`.
12. Proofs: `NothingDropped`, `SharedIsOnDisk`, `SurvivesRetries` and the refinement for
    `QueueEngine`; `ErrorIsTheCause`, `SurvivesRetries` and the refinement for
    `FixedEngine`; `ErrorHasCause` for `AdaptiveEngine`.
13. Next: what of the liveness properties is safety, as `NoRaceIsStuck` is for a race: that
    no worker, monitor or handler waits for somebody who will not come.

## Modules and the code

`Download` states what a call of any engine promises: pieces collected are never
lost or replaced, the output is written from collected pieces only, nil comes only
with the whole file. `AdaptiveEngine`, `QueueEngine` and `FixedEngine` implement it;
each defines the mapping beside `ImplementsDownload`. It applies where
`BytesTrusted`: a hash was given, or no source or peer hands out wrong bytes.

| module | code | a step is |
|---|---|---|
| `AdaptiveEngine` | `adaptive.go` 202-498, 500-552 | one access to shared memory, or one call that leaves the process |
| `QueueEngine` | `queue.go`, `reassemble` | one operation on a channel, file, store or error, or one answer |
| `FixedEngine` | `engine.go` | one answer, file operation or operation of the group |
| `ChunkPlan` | `chunk.go`, `adaptive.go` 500-545 | one turn of a loop, in bytes |
| `ProgressStream` | `queue.go`, `engine.go`, `dl2.go` | one channel operation or read of a counter |
| `RateLimiter` | `ratelimit.go` | one section under the mutex, or a unit of time |
| `Swarm` | `swarm.go`, `cmd/tracker`, `adaptive.go` 147-200, `queue.go` 101-135 | one operation on a store, a request or an answer that arrives, or a unit of time |
| `BatchSizing` | `adaptive.go` 98-112, 324-344, 547-548 | one access to a counter |
| `JobServer` | `cmd/server/main.go` 62-163, `background.js`, `popup.js` | one locked section, one field written or read without the lock, or a message |

**AdaptiveEngine.** `pc[w]` walks the loop of lines 249-357: `CheckStop` (255-262),
`RetireIfSurplus` (263), `PeekCursor` and `ClaimForPeer` (269-289; the cursor is
looked at, let go and claimed again), `ClaimBatch` (324-336), `Register` (338-344),
the fetches, `Release` and `Exit`. A slot of `Worker` holds one goroutine after another;
a spawn takes a free slot. `mpc` walks the monitor's select, the scaling decision on
the `active` and `desired` it read (`mActive`, `mDesired`), the spawns, the straggler scan
under the table's mutex, and the send. `main` is the caller. `raised` gathers what
happens once and stays: the first error, `stopCh`, the two cancellations, the closed
progress channel. Source scores and batch sizes are free choices, so every scoring
is covered. Peers are on the same grid here. The straggler's age is free too: any
batch may be found slow.

**QueueEngine.** A race is the set `racers` of goroutines that have not answered, and
`resultCh`. After the caller's cancellation each may drop its result (235-238, 244-247).
A part file is `absent`, `cut` (not written to its end) or a body: `right`, `short`,
`whole` (the answer of a source that ignores Range) or `foreign` (another grid).

**FixedEngine.** `cause` separates a fault, the caller's cancellation and the group's,
so that the order of `group.Go`'s reports can be asked about.

**ChunkPlan.** Both planners, then the loop that cuts a batch's body: the batch's own (a
206), the whole file's (a 200, which line 521 accepts as well), or either ended early.
`base` is where in the file the body begins, which the loop does not look at. A slice
that would end before it starts is the label `panic`.

**ProgressStream.** `LastFlush` separates `DownloadQueue` (final update, ticker cancelled
before the close) from `Download` (neither). A send on a closed channel sets `crash`.

**RateLimiter.** Fractions become integers by counting parts of a token. An observer
that is not in the code restarts its count at any moment, so that one invariant
bounds every window.

**Swarm.** `phase[d]` is what download `d` does about each piece; the workers that do it
are the engines' and left out. `TakeFromPeer` is the lookup that finds a claim, in
the cached reply (`adaptive.go` 277) or in one asked for now (`queue.go` 219), and the
request to that peer; `asked` keeps the address and the hash it expects. The queue
engine's phase `race` has the origin answer as well. `Stored` is `Put` and the
goroutine of `AnnouncePiece`: `announcer` says which announcements wait to be built
and which are under way, `snapshot` what they carry; `Arrive` replaces the listing.
`Return` runs the deferred calls: the store's directory is removed and the ticker
stopped, while the peer server goes on listening and goroutines of `AnnouncePiece`
still run. The select of the ticker's loop may take one more tick that is ready together
with the cancellation; a late `AnnouncePiece` stands for it. `server` says whose peer server has an address; a second `ListenAndServe` on it
fails unheard. Bytes are told apart by file, grid and index. One unit of time is what
the ticker's loop needs at most for an announcement, its period and the client's ten
seconds; `Cutoff` stands for the tracker's two minutes.

**BatchSizing.** A worker reads `requestCount` and `bytesMoved` in two steps and adds to
them in two. `disturbed` is not in the code: it records that a size was computed from
counters another worker was in the midst of updating, or after a body larger than
what was asked for.

**JobServer.** A locked section is one step, but the last update of a job is written
field by field under the lock, and `handleStatus` reads field by field without it;
`State` is a string of two words and may be read between them, `torn`. `readers` are
the handlers of `/jobs`, which keep the read lock until their reply is written.
Racy reads are taken to see the writes in their order; the Go memory model does not promise
that. The extension's request is `post`, the browser's own download `browser`. The
download's engine is two steps, the output created and the return: a return of nil
leaves at the output `all` that this download wrote, right or not, or `mixed` if somebody
else created the same file meanwhile. Paths are plain: what a caller names may be
another job's default; `named` records who named one.

## Runs

Symmetry is used only in `adaptive_scaling` and `batch_sizing`, which have no liveness
and whose workers are interchangeable.

| run | bounds | shows |
|---|---|---|
| `adaptive_scaling` | 3 slots, 4 pieces, pool 1..2, batches to 2, 3 ticks, failing disk | `NoPieceLost`, `WorkerCeiling`, `InFlightHeld`, `CrashLosesNoData` |
| `adaptive_faults` | 2 slots, 2 pieces, batches to 2, 1 tick; requests, peers, cancel, Range ignored; swarm and hash | `ClaimsExclusive`, `ErrorHasCause`, `StoredOnce`, `Terminates`, refinement of `Download` |
| `queue_faults` | 2 workers, 2 pieces, 1 retry, all faults and options | `RacesAreAnswered`, `NothingDropped`, `SharedIsOnDisk`, `SurvivesRetries`, refinement, `ReturnsUnlessRaceCancelled` |
| `fixed_faults` | 3 connections, 1 retry, all faults and options | types, `ErrorIsTheCause`, `SurvivesRetries`, refinement, `Returns` |
| `chunk_plan` | sizes -1..13, counts and piece sizes -1..6; bodies of a batch and of the file, whole or half | `CoversFile`, `OnGrid`, `CutsAtPieces`, `NoPanic` |
| `progress_delivery` | 3 pieces, buffer of 2, final update | `OnlyTheLastOvertakes`, `StreamEnds`, `NeverBlocksOnCaller` |
| `rate_limiter` | 2 callers, clock to 12 | `WindowBound`, `BucketsExpire` |
| `swarm` | an adaptive and a queue download of a file of one piece, one fault, `Cutoff` 1, address of the first possibly taken | `PiecesAreRight`, `ListingsCatchUp`, `DepartedAreForgotten`, `AskedPiecesCome` |
| `server_jobs` | a browser's download and another client's, same file name; the client may name the first job's default output; one poll under way, one fault | `DoneIsUntouched`, `ListsAreConsistent`, `StatusMixesForward`, `StatusIsOwn`, `LostOnlyAfterHandover`, `PopupCatchesUp` |
| `batch_sizing` | 3 workers, 1 source, 6 pieces of 2 bytes, batches of 2 | `BatchesGrowByAccident` |
| `adaptive_pool_floor`, `queue_unranged` | smaller | the disagreements below |

Every type invariant is proved (`TypeCorrect`, `BatchTypes`), and so are `OutputIsFile` and
`OneChunkPerConnection`; of these the runs repeat the types of `FixedEngine` only.

Why these bounds. Three ticks are the fewest in which the monitor has a rate to
compare with, shrinks and grows again; three slots leave room for a worker spawned
while a surplus one is still leaving; four pieces let two workers hold batches of two
while one is unclaimed or four be claimed one by one. Two workers and two pieces
are the smallest race between a claim for a peer and a claim for an origin. One
retry already separates first, last and middle attempts, and the code treats no
attempt but the last in a special way. Thirteen bytes in pieces of up to six give
each remainder, single pieces and exact multiples. The buffer of two is full before
three pieces are done, as the real one of 16 is before most files are. In
`rate_limiter` a token takes more than one and less than two units of time to come
back, and the clock passes the cutoff and six turns of the ticker. `MaxTicks` and
`MaxTime` only bound the state space; the theorems hold for every value of them.
`queue_faults` switches the deadlock check off because of the hang of a race that is
cancelled, `batch_sizing` because its workers leave.
In `swarm` one piece already has two announcers, so that an old announcement can overtake a new
one, and an address that may belong to another program stands for a second file;
`MaxFaults` is one budget for the lost requests and the tracker's restarts, while peers, origins and
processes may fail at any time. More pieces add nothing that one piece's two announcers, its
lookup and its race do not have, since each piece is looked up and stored on its own.
In `server_jobs` two jobs with the same file name and one restart are enough to give a
number and a default output away twice, and one named output to have two jobs write
the same file at once; one poll at a time leaves out replies that overtake
each other. In `batch_sizing` three workers are what an average above one piece takes
without a body larger than asked for: two that have added bytes and not their
request, and one that reads.

## Fairness

Every goroutine is weakly fair: Go schedules all runnable goroutines. Ticks and the
caller's cancellation may never come, so no property depends on them. A peer
answers because its client gives up after ten seconds (`swarm.go:163`). That an
origin answers or fails is an assumption about the origin: the engines' client has
no timeout (`engine.go:55`), and a source that accepts a request and stays silent
holds a download for ever. `ProgressStream` assumes nothing of the caller in
`EngineFairSpec`, nor that a failure ever comes; `StreamEnds` states the caller's fairness as its premise. Mutexes
are not starved; they are modelled by the guard of the step that needs them.

In `Swarm` tickers fire (adaptive.go:168, 181), goroutines of announcements run, requests
that are not lost are answered, origins serve downloads that go on, and time passes;
announcements are under way for less than a unit of time because the client gives
up after ten seconds (`swarm.go:163`). `Return`, faults, and the start and end of
processes are not fair. In `JobServer` the browser's requests are answered, its own
downloads end, the popup polls (`popup.js:83`) and reads its replies, and jobs go on; a
job is strongly fair, because a waiting `Lock` of `sync.RWMutex` keeps new readers out.

## Proofs

All theorems hold for every value of the constants under the named assumptions
(`SizesAssumption`, `OptionsAssumption`, `NoDataAssumption` and their like), which every
passing run evaluates.

**AdaptiveEngineProofs.** None of the properties is inductive. The strengthening is
built in layers, each preserved with the help of those before it.
- `TypeOK /\ BatchShape`: what `first`, `next` and `last` are at each point of a worker's
  loop, for example that a worker at `exit` has stored all of its batch or the download
  has failed (`TypeCorrect`).
- `Owned`: below the cursor each piece is stored or owed by a worker unless the
  download failed, no two workers owe one piece, and nothing at or above the cursor
  is stored (`NothingLost`, `ClaimsAreExclusive`). The last part is why the re-check in
  line 284 suffices.
- `Budget`: while the monitor acts, the counter it read is at least the counter as it
  is, because only the monitor itself spawns then; that is what makes the stale value
  harmless (`PoolStaysBounded`).
- `InFlightHeld` is inductive with the shapes (`StragglersAreOwned`).
- `Closing`: the channel is closed by the successful return alone (`CrashComesLate`).
- What is stored at an index is the planned piece unless a source ignored Range, the
  output copies the store, and nil follows the check (`ReturnedFileIsRight`,
  `Implementation`; `PiecesStay` for the action property).
- `Steady` and `Complete`, for a pool that cannot shrink: as long as pieces are
  unclaimed and nothing failed or was cancelled, the goroutines counted and those the
  caller has still to start are exactly the pool, nobody reads a surplus and nobody has
  left. So the caller can find the pool empty only when all was claimed, and by `Owned`
  stored (`ErrorsHaveCauses`). Where the pool may shrink this is false;
  `adaptive_pool_floor` shows how.

**QueueEngineProofs.** Five parts, inductive only together.
- `RaceOf`: results received, in the channel and still to come are at most two, and
  outside a race there are none.
- `TaskOf`: what a worker knows of its piece at each label, for example that the part
  file is not complete before `put` and is complete from there on.
- `Exclusive`: no two workers hold a piece.
- `PieceOf`: a piece in the channel is untouched; one that left it is held, fetched, or
  dropped by a worker that saw an error or the cancellation (`NoPieceDropped`); what is
  shared is the part file (`SharedStaysOnDisk`).
- `Caller`: nothing is taken before the pool starts, and an error is one of a piece that
  used up its attempts (`RetriesAreSurvived`).

A step of a worker or of its race changes one worker and the piece it holds
(`StepsAreLocal`), so most of the proof is about one worker, and `Exclusive` carries it
over to the others. For the refinement `Copied` says the output holds only part files,
and `Clean` that everything received is the piece itself where nobody sends anything
else; otherwise `BytesTrusted` leaves the hash to decide (`Implementation`). `Awaited`
counts the results of a race: until the caller cancels, those heard, in the channel and
still to come are two, and the worker that has heard one hears the other
(`NoRaceIsStuck`). It is the half of `ReturnsUnlessRaceCancelled` that is not liveness.

**FixedEngineProofs.** The same shape: `ChunkOf` for one goroutine, `Group` for the
error group and `Caller`. The group's cancellation is the cause of a failure only after
an error was reported, and the first report stays, so the error is never the group's own
(`CauseIsReported`); it is one of a chunk out of attempts (`RetriesAreSurvived`). The
caller assembles only when every chunk has a body (`Implementation`).

**ChunkPlanProofs.** `PlanInv` places chunk k at `(k-1) * size`, from which covering,
grid and count follow by arithmetic; `CutInv` relates the offset in a body, wherever the
body begins and however long it is, to the pieces cut so far (`EveryFileIsCovered`, `PiecesAreOnGrid`, `EveryConnectionHasAChunk`,
`BatchesAreCutAtPieces`, `SlicesNeverPanic`).

**CounterProofs**, for `RateLimiter`. `Account`: what was granted in the window plus
what is in the bucket is at most the burst and what came back; forgetting a bucket keeps
it because the bucket would be full (`RefillsAssumption`: the defaults, ten tokens at
five a second, refill in two seconds, the cutoff is thirty minutes; `-rate-limit` and
`-rate-burst` are free, and a bucket that refills slower than that would let a forgotten
caller have more). `Ticking` bounds how old an entry is when the loop runs
(`WindowsAreBounded`, `BucketsAreForgotten`).

For `BatchSizing`, in the same module, `Undisturbed`: a source has moved at most one
piece for each request that was added or is about to be; the average of complete
counters is at most a piece, and a batch of that size is one piece
(`BatchesStaySingle`). Workers are finitely many (`WorkerAssumption`).

**JobServerProofs.** `Numbers`: the counter is the number of jobs this process has
accepted, whoever was accepted has the number the table has him under, and, if he
named no output, the one made from it; so a new number is free and fits (`NumbersDenote`).
`AllProgressing` lists what a job's fields are before, between and after the writes of
its last update; lists are read while no update is half written (`ListsAreWhole`), and
`StatusReads` says what has been read is what the job has or had (`StatusGoesForward`).
`OwnFiles` follows a file from its creation to the end of the download, because equal
default outputs mean equal numbers, so that only a named output can bring a second
writer (`DoneStaysUntouched`).

**SwarmProofs.** `CopiesAreRight`: where a file has one grid, every copy of a hash is
right, in stores, announcements under way, the tracker's listings, cached replies and
requests. It is inductive because a piece gets into a store only from the origin or with
the hash that was asked for (`StoresAreRight`).

**ProgressStreamProofs.** `Order` and `Pending`: whoever is behind a larger update is
behind the last one, and once somebody is, the next count that is read is the last
count; so it happens once, whatever the buffer drops (`ProgressGoesBackOnce`).

Every safety property of the passing runs is stated by a theorem. Only model-checked:
liveness under fairness, which this prover cannot reason about (`Terminates`,
`ReturnsUnlessRaceCancelled`, `Returns`, `StreamEnds`, `NeverBlocksOnCaller`,
`ListingsCatchUp`, `DepartedAreForgotten`, `AskedPiecesCome`, `LostOnlyAfterHandover`,
`PopupCatchesUp`). The hypotheses of the three `Implementation` theorems are
`BytesTrusted`, which is what it takes for nil to mean the file: a hash, or sources that
send what was asked for; `queue_unranged` shows a download without it.

## Where code and documents disagree

Each is shown by a run whose property quotes a document.

- `adaptive_pool_floor`: workers decide to retire on a counter that each decrements only
  as it leaves (`adaptive.go` 254, 263), so after a shrink several leave on one reading.
  The pool may fall under the documented minimum, in the run to nobody with pieces left.
- `queue_unranged`: a source without ranges gets one worker but still many pieces, and
  each piece gets the whole file.

Observations without a run of their own.

- The monitor may be between its select and its send when the caller closes the channel
  (`adaptive.go` 439, 453, 496), and the process panics; `queue.go` (182-191, 333) and `engine.go`
  (114, 174) have the same pattern. `CrashLosesNoData` says what that can cost.
- Both goroutines of a race may drop their results once the caller cancels (`queue.go`
  235-238, 244-247), and the worker waits for them for ever (254), although the comment in line
  251 says "Wait for first successful result (or both failing)"; hence the exception in
  `ReturnsUnlessRaceCancelled`.
- The error returns of the engines do not close the progress channel, although
  `dl2.go:72` says it is closed on "success or failure"; `StreamEnds` is about successes.
- Batches do not grow with a source's speed, although `adaptive.go:14-17` says so: the
  average request of a source that was asked for single pieces is a single piece, and
  `BatchesGrowByAccident` lists the only ways beyond it.
- A source's score grows with the bytes it has delivered (`adaptive.go:91`, `queue.go:35`),
  so a mirror nobody has tried keeps a score near 1 and is chosen only where
  the penalties of the others outweigh all they delivered.
- The fallback in `adaptive.go:307` asks an origin without counting in its `activeWorkers`.
- The tracker never deletes an entry; stale ones are only left out of replies.
- A peer server is never shut down and `StartPeerServer` returns nil before
  `ListenAndServe` has failed (`swarm.go:285`); the next download in the process with the
  same address has its pieces announced and served by nobody.
- Two downloads of a URL with different piece sizes exchange pieces of different
  ranges under valid hashes; `PiecesAreRight` asks for one grid.
- A 200 to a ranged batch is taken for the batch (`adaptive.go:521`): all pieces but those
  of a batch at the start of the file get the wrong bytes and a valid hash of them;
  `CutsAtPieces` says which, and only a hash of the whole file finds it.
- A job that fails after the server accepted it, and one that dies with the server, loses
  the file for both: the browser's own download was cancelled on acceptance and nothing
  starts another. The comment in `background.js:24-27` says that if dl2 "fails, the user's
  normal browser download still completed separately in most cases since we cancel only
  after confirming dl2 accepted it", and `README.md:339-341` of the repository that the
  extension "never blocks a download the user is trying to make" (of a server that is not
  running). `LostOnlyAfterHandover` says that this is the only way to lose one.
- A caller may name another job's output, its default included (`main.go:94-97`); the two
  downloads then write one file, and both may be "done" (`DoneIsUntouched` excepts them).
- The server passes no hash (`main.go:117-124`), so "done" is no more than a nil return,
  which `queue_unranged` shows to be possible with several copies of the file.
- A status may show "failed" without its error, or "running" with a time of the end;
  `StatusMixesForward` says which mixtures there are.
- After a restart the server's job numbers start at 1 and default outputs of earlier
  jobs may be written over; the popup lists only what `/jobs` knows and never reads what
  `background.js:60-66` stores.
- A size of -1 is planned as the piece [0,-2], and slicing a body for it panics
  (`ChunkPlan` reaches `panic` only there, `NoPanic` excludes it).
- The last update may be dropped or overtaken by one older update
  (`OnlyTheLastOvertakes` says that is the worst), although the comment in `queue.go:321`
  promises a true 100%.
- The comment in `engine.go:55` speaks of timeouts that no request has.

## What is not modelled

- Which source a worker picks: the scores only read counters, so the engines and
  `BatchSizing` take any. That a mirror is ever picked is therefore not claimed.
- Two grids under one file hash beyond what `QueueEngine` does with `foreign` bytes.
- Progress updates of a server's job (`main.go` 104-110); the CORS and token wrappers and
  `ssrf.go`, which only refuse a request; the extension's notifications and stored infos.
- Files at the output path after an error: no document promises anything.
- Backoff delays, message wording, hashing itself (a hash matches only the file).
- The command line, benchmarks, scripts and samples: no protocol of their own.
