----------------------------- MODULE BatchSizing -----------------------------
(***************************************************************************)
(* How DownloadAdaptive (internal/engine/adaptive.go) sizes its batches:   *)
(* adaptiveSource's counters, nextBatchGridCount, the claim that uses it   *)
(* and the end of fetchAndStoreBatch, which updates the counters.  The     *)
(* counters are atomic one by one: a worker reads two and adds to two, and *)
(* other workers act in between.                                           *)
(*                                                                         *)
(* Which source a worker picks is a free choice (pickSource and the scores *)
(* only read).  Who may claim when, errors and the pool are AdaptiveEngine.*)
(* The names of the specification begin with Batch because CounterProofs    *)
(* extends RateLimiter as well.                                            *)
(***************************************************************************)
EXTENDS Integers, FiniteSets

CONSTANTS
  Worker,    \* worker goroutines
  Source,    \* opts.URLs
  N,         \* totalGrid, the pieces of the grid
  Grid,      \* opts.GridPieceSize
  LastSize,  \* the size of the last piece
  MaxBatch,  \* opts.MaxBatchSize
  Whole      \* whether a source may answer a range with the whole file

ASSUME BatchAssumption ==
  /\ N \in Nat \ {0} /\ Grid \in Nat \ {0} /\ LastSize \in 1 .. Grid
  /\ MaxBatch \in Nat \ {0}
  /\ Whole \in BOOLEAN

FileSize == (N - 1) * Grid + LastSize
None == "none"
ASSUME WorkerAssumption == IsFiniteSet(Worker) /\ None \notin Worker

VARIABLES
  bytesMoved, requestCount,  \* the counters of each source
  cursor,   \* the first piece nobody claimed
  mutex,    \* the worker that holds cursorMu, or None
  pc,       \* where a worker is
  src,      \* the source it picked
  rc,       \* requestCount as it read it
  batch,    \* the pieces it claimed and has to fetch
  body,     \* the bytes it received for them
  disturbed \* not in the code: a size was computed from counters that other
            \* workers were updating, or after a source sent more than asked for

counterVars == <<bytesMoved, requestCount>>
claimVars == <<cursor, mutex>>
workerVars == <<pc, src, rc, batch, body>>
batchVars == <<counterVars, claimVars, workerVars, disturbed>>

BatchInit ==
  /\ bytesMoved = [s \in Source |-> 0] /\ requestCount = [s \in Source |-> 0]
  /\ cursor = 0 /\ mutex = None
  /\ pc = [w \in Worker |-> "pick"] /\ src = [w \in Worker |-> None]
  /\ rc = [w \in Worker |-> 0] /\ batch = [w \in Worker |-> {}]
  /\ body = [w \in Worker |-> 0]
  /\ disturbed = FALSE
-----------------------------------------------------------------------------
Goto(w, label) == pc' = [pc EXCEPT ![w] = label]

\* Lines 104-106.
Capped(average) == IF average > MaxBatch THEN MaxBatch ELSE average

\* Mutant of Pieces: one piece more than the average.
OneMore(average) == 1 + Capped(average) \div Grid

\* Lines 107-110: the pieces an average request is worth, at least one.
Pieces(average) ==
  IF Capped(average) >= Grid THEN Capped(average) \div Grid ELSE 1

\* Lines 267 and 324-330: the worker has picked a source and reads its requests
\* under cursorMu; the first two requests are for one piece each.
ReadRequests(w) ==
  /\ pc[w] = "pick" /\ mutex = None
  /\ cursor < N
  /\ mutex' = w
  /\ \E s \in Source : src' = [src EXCEPT ![w] = s] /\ rc' = [rc EXCEPT ![w] = requestCount[s]]
  /\ Goto(w, "sizing")
  /\ UNCHANGED <<counterVars, cursor, batch, body, disturbed>>

\* Lines 331-335: where a batch of n pieces ends.
End(n) == IF cursor + n > N THEN N ELSE cursor + n

Claim(w, n) ==
  /\ batch' = [batch EXCEPT ![w] = cursor .. End(n) - 1]
  /\ cursor' = End(n)
  /\ Goto(w, "fetch")

\* Some worker has added its bytes and not yet its request.
Updating(s) == \E v \in Worker : pc[v] = "addRequest" /\ src[v] = s

\* Lines 99-112 and 329-336: the bytes are read, the batch is claimed.
Size(w) ==
  /\ pc[w] = "sizing"
  /\ LET s == src[w] IN
       /\ Claim(w, IF rc[w] < 2 THEN 1 ELSE Pieces(bytesMoved[s] \div rc[w]))
       /\ disturbed' = (disturbed \/ Updating(s) \/ requestCount[s] # rc[w])
  /\ mutex' = None
  /\ UNCHANGED <<counterVars, src, rc, body>>

\* Lines 270-307: the next piece is claimed for a peer, which sends it, or the
\* picked source has to.
TakeOne(w) ==
  /\ pc[w] = "pick" /\ mutex = None /\ cursor < N
  /\ \/ cursor' = cursor + 1 /\ UNCHANGED <<pc, src, batch>>
     \/ Claim(w, 1) /\ \E s \in Source : src' = [src EXCEPT ![w] = s]
  /\ UNCHANGED <<counterVars, mutex, rc, body, disturbed>>

\* What a batch asks for.
BytesOf(pieces) ==
  Cardinality(pieces) * Grid - (IF N - 1 \in pieces THEN Grid - LastSize ELSE 0)

\* Lines 503-545: the bytes asked for, or the whole file, whose first bytes are
\* stored then.
Fetch(w) ==
  /\ pc[w] = "fetch"
  /\ \/ body' = [body EXCEPT ![w] = BytesOf(batch[w])] /\ UNCHANGED disturbed
     \/ Whole /\ body' = [body EXCEPT ![w] = FileSize] /\ disturbed' = TRUE
  /\ Goto(w, "addBytes")
  /\ UNCHANGED <<counterVars, claimVars, src, rc, batch>>

\* A worker that gets no answer leaves.
FetchFails(w) ==
  /\ pc[w] = "fetch"
  /\ Goto(w, "exited")
  /\ UNCHANGED <<counterVars, claimVars, src, rc, batch, body, disturbed>>

\* Line 547.
AddBytes(w) ==
  /\ pc[w] = "addBytes"
  /\ bytesMoved' = [bytesMoved EXCEPT ![src[w]] = @ + body[w]]
  /\ Goto(w, "addRequest")
  /\ UNCHANGED <<requestCount, claimVars, src, rc, batch, body, disturbed>>

\* Line 548, and the worker is back at the top of its loop.
AddRequest(w) ==
  /\ pc[w] = "addRequest"
  /\ requestCount' = [requestCount EXCEPT ![src[w]] = @ + 1]
  /\ Goto(w, "pick")
  /\ src' = [src EXCEPT ![w] = None] /\ rc' = [rc EXCEPT ![w] = 0]
  /\ batch' = [batch EXCEPT ![w] = {}] /\ body' = [body EXCEPT ![w] = 0]
  /\ UNCHANGED <<bytesMoved, claimVars, disturbed>>

\* Lines 325-328.
Leave(w) ==
  /\ pc[w] = "pick" /\ mutex = None /\ cursor = N
  /\ Goto(w, "exited")
  /\ UNCHANGED <<counterVars, claimVars, src, rc, batch, body, disturbed>>

BatchNext ==
  \E w \in Worker :
    \/ ReadRequests(w) \/ Size(w) \/ TakeOne(w) \/ Fetch(w) \/ FetchFails(w)
    \/ AddBytes(w) \/ AddRequest(w) \/ Leave(w)

BatchSpec == BatchInit /\ [][BatchNext]_batchVars
-----------------------------------------------------------------------------
(* Properties. *)

\* Every variable has its type; cursorMu is held while a batch is sized, and no
\* claim reaches beyond the grid (adaptive.go 324-336).
BatchTypeOK ==
  /\ bytesMoved \in [Source -> Nat] /\ requestCount \in [Source -> Nat]
  /\ cursor \in 0 .. N
  /\ mutex \in Worker \cup {None}
  /\ pc \in [Worker -> {"pick", "sizing", "fetch", "addBytes", "addRequest", "exited"}]
  /\ \A w \in Worker : pc[w] = "sizing" <=> mutex = w
  /\ src \in [Worker -> Source \cup {None}]
  /\ rc \in [Worker -> Nat] /\ body \in [Worker -> Nat]
  /\ batch \in [Worker -> SUBSET (0 .. N - 1)]
  /\ disturbed \in BOOLEAN

\* Batches do not grow on their own: the average of requests for one piece is one
\* piece, so a worker claims several at once only after counters were read in
\* the midst of another worker's update, or a source sent more than it was asked
\* for, whatever the speed of the source (adaptive.go 98-112, 547-548).
BatchesGrowByAccident ==
  \A w \in Worker : Cardinality(batch[w]) > 1 => disturbed
=============================================================================
