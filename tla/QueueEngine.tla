----------------------------- MODULE QueueEngine -----------------------------
(***************************************************************************)
(* Engine.DownloadQueue (internal/engine/queue.go) and the parts of        *)
(* engine.go it calls.  A fixed pool of workers takes pieces from a closed *)
(* channel; for each piece a worker may race a swarm peer against an       *)
(* origin server, and otherwise downloads the piece into its part file     *)
(* with a bounded number of retries; an error is remembered and the worker *)
(* goes on with the next piece.  The calling goroutine waits for all       *)
(* workers, concatenates the part files and checks the hash.  Files below  *)
(* the small-file threshold take a path of their own.                      *)
(*                                                                         *)
(* A step is one operation on a channel, a part file, the piece store, the *)
(* error, or one answer from the network.  The progress ticker is not      *)
(* here: it reads two counters and writes nothing this module has.         *)
(***************************************************************************)
EXTENDS Integers, Sequences, FiniteSets

CONSTANTS
  Worker,      \* the worker goroutines, qo.Workers of them
  N,           \* number of pieces chunk.PlanQueue cuts
  MaxRetries,  \* qo.MaxRetries after the defaults
  Options,     \* which of OptionKinds hold
  Faults       \* which of FaultKinds may happen

\* "swarm": a tracker and a listen address are given; "ranged": the probe saw
\* Accept-Ranges: bytes; "sha": ExpectedSHA is given; "small": the size the
\* probe reports may be below smallFileThreshold.
OptionKinds == {"swarm", "ranged", "sha", "small"}

\* A request that fails or breaks off; a peer that fails; a peer that
\* announced other bytes under the piece's index (another grid); a file that
\* cannot be written; the caller cancels; a source that answers a range with
\* the whole file; a body that ends early without an error.
FaultKinds == {"request", "peer", "foreign", "disk", "cancel", "fullbody", "short"}

ASSUME SizesAssumption ==
  /\ N \in Nat \ {0}
  /\ MaxRetries \in Nat \ {0}
  /\ Worker # {}
ASSUME OptionsAssumption ==
  /\ Options \subseteq OptionKinds
  /\ Faults \subseteq FaultKinds
-----------------------------------------------------------------------------
Piece == 0 .. N - 1

SwarmEnabled == "swarm" \in Options
Ranged == "ranged" \in Options
HasSHA == "sha" \in Options
MayBeSmall == "small" \in Options

\* Lines 77-80: without ranges a single worker.
PoolSize == IF Ranged THEN Cardinality(Worker) ELSE 1

VARIABLES
  head,    \* the first piece still in the channel `work`
  part,    \* what each part file holds: "absent" without one, "cut" when it was
           \* not written to its end, else a body: "right", "short", "whole", "foreign"
  shared,  \* what swarmStore holds of each piece
  tries,   \* the attempts downloadPieceWithRetry has failed for each piece
  raised,  \* what happened for good: "firstErr" is set, "ctx" is cancelled
  \* one worker goroutine each, with the race it may have started
  pc,      \* where the worker is
  piece,   \* p, or -1
  racers,  \* the goroutines of its race that have not answered: "peer", "origin"
  resultCh,\* the channel of its race: bodies, or "error"
  heard,   \* i, the failed results it received
  winner,  \* winner.data
  \* the goroutine that called DownloadQueue
  main,    \* where it is
  out,     \* what the output file holds, piece by piece; "absent" behind its end
  result   \* "none", "ok" or "error"

diskVars   == <<part, shared>>
raceVars   == <<racers, resultCh, heard, winner>>
workerVars == <<pc, piece, raceVars>>
mainVars   == <<main, out, result>>
vars == <<head, diskVars, tries, raised, workerVars, mainVars>>

Init ==
  /\ head = 0
  /\ part = [p \in Piece |-> "absent"] /\ shared = [p \in Piece |-> "absent"]
  /\ tries = [p \in Piece |-> 0]
  /\ raised = {}
  /\ pc = [w \in Worker |-> "idle"] /\ piece = [w \in Worker |-> -1]
  /\ racers = [w \in Worker |-> {}] /\ resultCh = [w \in Worker |-> <<>>]
  /\ heard = [w \in Worker |-> 0] /\ winner = [w \in Worker |-> "absent"]
  /\ main = "probe" /\ out = [p \in Piece |-> "absent"] /\ result = "none"
-----------------------------------------------------------------------------
(* What the actions share. *)

failed == "firstErr" \in raised
ctxDone == "ctx" \in raised

\* A full body is also the only piece's body.
WholeBody == IF N = 1 THEN "right" ELSE "whole"

\* The bodies a source may answer a range with, when it answers.
OriginBodies ==
  (IF Ranged THEN {"right"} ELSE {})
    \cup (IF ~Ranged \/ "fullbody" \in Faults THEN {WholeBody} ELSE {})
    \cup (IF "short" \in Faults THEN {"short"} ELSE {})
PeerBodies == {"right"} \cup (IF "foreign" \in Faults THEN {"foreign"} ELSE {})

\* The results of a race's two goroutines: FetchFromPeer, fetchPieceBytes.
PeerResults == PeerBodies \cup (IF "peer" \in Faults THEN {"error"} ELSE {})
OriginResults ==
  OriginBodies \cup (IF "request" \in Faults \/ ctxDone THEN {"error"} ELSE {})

Goto(w, label) == pc' = [pc EXCEPT ![w] = label]

\* Mutant of BothFailed: waits for one result more than there are racers.
ThreeFailed(w) == heard[w] = 2

\* Line 253: this was the second failure.
BothFailed(w) == heard[w] = 1

\* Mutant of Exhausted: `attempt < maxRetries` in line 427.
OneTryLess(w) == tries[piece[w]] + 1 >= MaxRetries

\* Line 427: this attempt is the last one.
Exhausted(w) == tries[piece[w]] >= MaxRetries

\* Mutant of AfterPut: gotFromPeer stays false.
FetchAgain == "direct"

\* Lines 269 and 278: the race's piece needs no download.
AfterPut == "count"

\* Mutant of FailRaises: the worker goes on without a word.
KeepsNoError == {}

\* Lines 293-295.
FailRaises == {"firstErr"}
-----------------------------------------------------------------------------
(* A worker (200-301). *)

\* Line 204: receive from work, which is closed.
Take(w) ==
  /\ pc[w] = "take"
  /\ IF head < N
       THEN /\ piece' = [piece EXCEPT ![w] = head]
            /\ head' = head + 1
            /\ Goto(w, "check")
       ELSE Goto(w, "exited") /\ UNCHANGED <<head, piece>>
  /\ UNCHANGED <<diskVars, tries, raised, raceVars, mainVars>>

\* Lines 205-213: a worker that finds the context cancelled leaves with the
\* piece it has taken.
CheckCancel(w) ==
  /\ pc[w] = "check"
  /\ IF ctxDone
       THEN Goto(w, "exited") /\ piece' = [piece EXCEPT ![w] = -1]
       ELSE Goto(w, IF SwarmEnabled THEN "lookup" ELSE "direct") /\ UNCHANGED piece
  /\ UNCHANGED <<head, diskVars, tries, raised, raceVars, mainVars>>

\* Lines 219-249: ask the tracker; a listed peer races an origin.
Lookup(w) ==
  /\ pc[w] = "lookup"
  /\ \/ Goto(w, "direct") /\ UNCHANGED racers
     \/ Goto(w, "race") /\ racers' = [racers EXCEPT ![w] = {"peer", "origin"}]
  /\ UNCHANGED <<head, diskVars, tries, raised, piece, resultCh, heard, winner, mainVars>>

\* Lines 235-238 and 244-247: a goroutine of the race has its result; once the
\* race's context is done select may drop it instead of sending it.
Answer(w, racer, results) ==
  /\ racer \in racers[w]
  /\ racers' = [racers EXCEPT ![w] = @ \ {racer}]
  /\ \/ \E r \in results : resultCh' = [resultCh EXCEPT ![w] = Append(@, r)]
     \/ ctxDone /\ UNCHANGED resultCh
  /\ UNCHANGED <<head, diskVars, tries, raised, pc, piece, heard, winner, mainVars>>

PeerAnswers(w) == Answer(w, "peer", PeerResults)
OriginAnswers(w) == Answer(w, "origin", OriginResults)

\* Nothing is left of the race: it is cancelled, and what its goroutines still
\* do reaches nobody.
EndRace(w) == /\ racers' = [racers EXCEPT ![w] = {}]
              /\ resultCh' = [resultCh EXCEPT ![w] = <<>>]
              /\ heard' = [heard EXCEPT ![w] = 0]

\* Lines 253-263: the first result without an error wins.
Win(w) ==
  /\ pc[w] = "race"
  /\ resultCh[w] # <<>> /\ Head(resultCh[w]) # "error"
  /\ winner' = [winner EXCEPT ![w] = Head(resultCh[w])]
  /\ EndRace(w)
  /\ Goto(w, "write")
  /\ UNCHANGED <<head, diskVars, tries, raised, piece, mainVars>>

\* Lines 253-259 and 271-278: an error; after the second one, download directly.
HearError(w) ==
  /\ pc[w] = "race"
  /\ resultCh[w] # <<>> /\ Head(resultCh[w]) = "error"
  /\ IF BothFailed(w)
       THEN EndRace(w) /\ Goto(w, "direct")
       ELSE /\ resultCh' = [resultCh EXCEPT ![w] = Tail(@)]
            /\ heard' = [heard EXCEPT ![w] = @ + 1]
            /\ UNCHANGED <<racers, pc>>
  /\ UNCHANGED <<head, diskVars, tries, raised, piece, winner, mainVars>>

\* Line 264: write the part file; when that fails download directly, and the
\* file may be there, cut off.
WriteWinner(w) ==
  /\ pc[w] = "write"
  /\ \/ part' = [part EXCEPT ![piece[w]] = winner[w]] /\ Goto(w, "put")
     \/ /\ "disk" \in Faults
        /\ part' = [part EXCEPT ![piece[w]] = "cut"] \/ UNCHANGED part
        /\ Goto(w, "direct")
  /\ winner' = [winner EXCEPT ![w] = "absent"]
  /\ UNCHANGED <<head, shared, tries, raised, piece, racers, resultCh, heard, mainVars>>

\* Store.Put of what the part file holds; its error is ignored.
Put(w) == \/ shared' = [shared EXCEPT ![piece[w]] = part[piece[w]]]
          \/ "disk" \in Faults /\ UNCHANGED shared

\* Lines 265-269.
PutWinner(w) ==
  /\ pc[w] = "put"
  /\ Put(w)
  /\ Goto(w, AfterPut)
  /\ UNCHANGED <<head, part, tries, raised, piece, raceVars, mainVars>>

\* Lines 447-460: the source answers, and the part file is created empty.
Request(w) ==
  /\ pc[w] = "direct"
  /\ part' = [part EXCEPT ![piece[w]] = "cut"]
  /\ Goto(w, "copy")
  /\ UNCHANGED <<head, shared, tries, raised, piece, raceVars, mainVars>>

\* Lines 463-482 and 435: the body is copied to its end, whatever its length.
Copy(w) ==
  /\ pc[w] = "copy"
  /\ \E body \in OriginBodies : part' = [part EXCEPT ![piece[w]] = body]
  /\ Goto(w, IF SwarmEnabled THEN "share" ELSE "count")
  /\ UNCHANGED <<head, shared, tries, raised, piece, raceVars, mainVars>>

\* Lines 447-478 and 427-437: no answer, a bad status, no part file, or the
\* copy breaks off; try again, cancelled or not, until the attempts are used up.
AttemptFails(w) ==
  /\ pc[w] \in {"direct", "copy"}
  /\ "request" \in Faults \/ "disk" \in Faults \/ ctxDone
  /\ tries' = [tries EXCEPT ![piece[w]] = @ + 1]
  /\ Goto(w, IF Exhausted(w) THEN "fail" ELSE "direct")
  /\ UNCHANGED <<head, diskVars, raised, piece, raceVars, mainVars>>

\* Lines 282-287.
Share(w) ==
  /\ pc[w] = "share"
  /\ Put(w)
  /\ Goto(w, "count")
  /\ UNCHANGED <<head, part, tries, raised, piece, raceVars, mainVars>>

\* Line 299; then the next piece.
Count(w) ==
  /\ pc[w] = "count"
  /\ piece' = [piece EXCEPT ![w] = -1]
  /\ Goto(w, "take")
  /\ UNCHANGED <<head, diskVars, tries, raised, raceVars, mainVars>>

\* Lines 290-297: remember the first error, go on with the next piece.
Fail(w) ==
  /\ pc[w] = "fail"
  /\ raised' = raised \cup FailRaises
  /\ piece' = [piece EXCEPT ![w] = -1]
  /\ Goto(w, "take")
  /\ UNCHANGED <<head, diskVars, tries, raceVars, mainVars>>
-----------------------------------------------------------------------------
(* The goroutine that called DownloadQueue (73-91, 200-202, 304-334). *)

ReturnError == main' = "done" /\ result' = "error"

\* Lines 73-118: ask the first source for the size, which decides the path;
\* make the directories the path needs.
Probe ==
  /\ main = "probe"
  /\ \/ main' = "pool" /\ UNCHANGED result
     \/ MayBeSmall /\ main' = "get" /\ UNCHANGED result
     \/ ("request" \in Faults \/ "disk" \in Faults \/ ctxDone) /\ ReturnError
  /\ UNCHANGED <<head, diskVars, tries, raised, workerVars, out>>

\* Lines 371-397: the source answers and the output is created.
SmallCreate ==
  /\ main = "get"
  /\ out' = [p \in Piece |-> "cut"]
  /\ main' = "read"
  /\ UNCHANGED <<head, diskVars, tries, raised, workerVars, result>>

\* Lines 396-411: the last of the body is read.
SmallRead ==
  /\ main = "read"
  /\ \E body \in {"right"} \cup (OriginBodies \cap {"short"}) : part' = [p \in Piece |-> body]
  /\ main' = "copy"
  /\ UNCHANGED <<head, shared, tries, raised, workerVars, out, result>>

\* Lines 398-409: it is written.
SmallWrite ==
  /\ main = "copy"
  /\ out' = part
  /\ main' = "verify"
  /\ UNCHANGED <<head, diskVars, tries, raised, workerVars, result>>

\* Lines 376-412: the request, the body or the output file fails.
SmallFails ==
  /\ main \in {"get", "read", "copy"}
  /\ "request" \in Faults \/ "disk" \in Faults \/ ctxDone
  /\ ReturnError
  /\ UNCHANGED <<head, diskVars, tries, raised, workerVars, out>>

\* Lines 200-202.
StartPool ==
  /\ main = "pool"
  /\ \E pool \in SUBSET Worker :
       /\ Cardinality(pool) = PoolSize
       /\ pc' = [w \in Worker |-> IF w \in pool THEN "take" ELSE "idle"]
  /\ main' = "wait"
  /\ UNCHANGED <<head, diskVars, tries, raised, piece, raceVars, out, result>>

\* Line 307.
SawError == failed

\* Lines 304-308.
Wait ==
  /\ main = "wait"
  /\ \A w \in Worker : pc[w] \in {"idle", "exited"}
  /\ IF SawError
       THEN ReturnError
       ELSE main' = "assemble" /\ UNCHANGED result
  /\ UNCHANGED <<head, diskVars, tries, raised, workerVars, out>>

\* The pieces that are not in the output yet, and the next one of them.
Unwritten == {p \in Piece : out[p] = "absent"}
NextToWrite(p) == p \in Unwritten /\ \A q \in Unwritten : p <= q

\* reassemble (engine.go:254-264): append the next part file.
AppendPart ==
  /\ main = "assemble"
  /\ \E p \in Piece :
       /\ NextToWrite(p)
       /\ part[p] # "absent"
       /\ out' = [out EXCEPT ![p] = part[p]]
  /\ UNCHANGED <<head, diskVars, tries, raised, workerVars, main, result>>

\* reassemble (engine.go:245-262) fails: on the output, or on a part file that
\* is not there because nobody downloaded the piece.
AppendFails ==
  /\ main = "assemble"
  /\ "disk" \in Faults \/ \E p \in Piece : NextToWrite(p) /\ part[p] = "absent"
  /\ ReturnError
  /\ UNCHANGED <<head, diskVars, tries, raised, workerVars, out>>

Assembled ==
  /\ main = "assemble"
  /\ Unwritten = {}
  /\ main' = "verify"
  /\ UNCHANGED <<head, diskVars, tries, raised, workerVars, out, result>>

\* The hash of the output is the file's hash only for the file.
HashMatches == \A p \in Piece : out[p] = "right"

\* Mutant of Rejected: the hash is never compared.
NeverRejected == FALSE

\* Lines 315-316 and 415-416.
Rejected == HasSHA /\ ~HashMatches

\* Lines 315-334 and 415-422.
VerifyAndReturn ==
  /\ main = "verify"
  /\ IF Rejected
       THEN ReturnError
       ELSE main' = "done" /\ result' = "ok"
  /\ UNCHANGED <<head, diskVars, tries, raised, workerVars, out>>
-----------------------------------------------------------------------------
\* The caller gives up.
Cancel ==
  /\ "cancel" \in Faults
  /\ ~ctxDone
  /\ main # "done"
  /\ raised' = raised \cup {"ctx"}
  /\ UNCHANGED <<head, diskVars, tries, workerVars, mainVars>>

WorkerStep(w) ==
  \/ Take(w) \/ CheckCancel(w) \/ Lookup(w) \/ Win(w) \/ HearError(w)
  \/ WriteWinner(w) \/ PutWinner(w) \/ Request(w) \/ Copy(w) \/ AttemptFails(w)
  \/ Share(w) \/ Count(w) \/ Fail(w)

MainStep ==
  \/ Probe \/ SmallCreate \/ SmallRead \/ SmallWrite \/ SmallFails \/ StartPool \/ Wait
  \/ AppendPart \/ AppendFails \/ Assembled \/ VerifyAndReturn

Returned == main = "done"

Next ==
  \/ \E w \in Worker : WorkerStep(w) \/ PeerAnswers(w) \/ OriginAnswers(w)
  \/ MainStep
  \/ Cancel
  \/ Returned /\ UNCHANGED vars

Spec == Init /\ [][Next]_vars

\* Goroutines are scheduled; a peer answers or its client times out after ten
\* seconds (swarm.go:163); an origin answers or fails.  The caller's cancel
\* may never come.
FairSpec ==
  /\ Spec
  /\ \A w \in Worker : /\ WF_vars(WorkerStep(w))
                       /\ WF_vars(PeerAnswers(w))
                       /\ WF_vars(OriginAnswers(w))
  /\ WF_vars(MainStep)
-----------------------------------------------------------------------------
(* Properties. *)

Body == {"right", "short", "whole", "foreign"}
WorkerLabels == {"idle", "take", "check", "lookup", "race", "write", "put", "direct",
                 "copy", "share", "count", "fail", "exited"}
MainLabels == {"probe", "get", "read", "copy", "pool", "wait", "assemble", "verify", "done"}

DiskType ==
  /\ head \in 0 .. N
  /\ part \in [Piece -> Body \cup {"absent", "cut"}]
  /\ shared \in [Piece -> Body \cup {"absent"}]
  /\ tries \in [Piece -> 0 .. MaxRetries + 1]
  /\ raised \subseteq {"firstErr", "ctx"}
WorkerType ==
  /\ pc \in [Worker -> WorkerLabels]
  /\ piece \in [Worker -> -1 .. N - 1]
  /\ racers \in [Worker -> SUBSET {"peer", "origin"}]
  /\ resultCh \in [Worker -> Seq(Body \cup {"error"})]
  /\ \A w \in Worker : Len(resultCh[w]) <= 2
  /\ heard \in [Worker -> 0 .. 1]
  /\ winner \in [Worker -> Body \cup {"absent"}]
MainType ==
  /\ main \in MainLabels
  /\ out \in [Piece -> Body \cup {"absent", "cut"}]
  /\ result \in {"none", "ok", "error"}

\* Every variable has its type; resultCh never holds more than its buffer.
TypeOK == DiskType /\ WorkerType /\ MainType

\* The part file was written to the end of some body.
Fetched(p) == part[p] \notin {"absent", "cut"}

\* A piece that left the channel is on disk in full, in the hands of exactly
\* one worker, or covered by a remembered error or the caller's cancel: racing,
\* retrying and giving up never drop a piece between them (queue.go:204-300).
NothingDropped ==
  \A p \in 0 .. head - 1 :
    LET owners == {w \in Worker : piece[w] = p} IN
    /\ Cardinality(owners) <= 1
    /\ owners # {} \/ Fetched(p) \/ failed \/ ctxDone

\* What the piece server hands to other peers is what this download has on
\* disk: a piece is shared only after its last write, and no loser of a race
\* and no retry rewrites it (queue.go:263-288).
SharedIsOnDisk ==
  \A p \in Piece : shared[p] # "absent" => part[p] = shared[p]

\* A request that fails MaxRetries times, a peer that fails, a race that is
\* lost and a winner that cannot be written never fail the download: the error
\* that ends it is one of a piece that failed MaxRetries + 1 times in a row
\* (queue.go:263-297, 425-438).
SurvivesRetries == failed => \E p \in Piece : tries[p] = MaxRetries + 1

\* No source and no peer hands out other bytes, or the hash is checked.
BytesTrusted ==
  HasSHA \/ (Ranged /\ Faults \cap {"foreign", "fullbody", "short"} = {})

\* Where BytesTrusted holds the queue engine implements what a download
\* promises: it returns nil only after it wrote exactly the file, and part
\* files cut off by failed attempts or missing because a cancelled worker
\* dropped its piece never end up in a download that succeeds.
Abstract == INSTANCE Download WITH
  Piece <- Piece,
  got <- {p \in Piece : part[p] = "right"},
  output <- IF Unwritten = Piece THEN "none"
            ELSE IF HashMatches THEN "whole" ELSE "partial",
  result <- result
ImplementsDownload == Abstract!Spec

\* A worker that waits for a race's next result gets one: it lies in the channel
\* or one of the two goroutines has still to send it, however many errors the
\* worker has read and whoever was first; only a cancelled caller can leave
\* the worker waiting for nobody (queue.go:231-259).
RacesAreAnswered ==
  \A w \in Worker :
    pc[w] = "race" => resultCh[w] # <<>> \/ racers[w] # {} \/ ctxDone

\* DownloadQueue returns, unless the caller cancels while a race is on.
ReturnsUnlessRaceCancelled ==
  <>(Returned \/ \E w \in Worker : ctxDone /\ pc[w] = "race")

\* A source without ranges falls back to a single full-file piece: what is
\* written is the file.
UnrangedIsWhole == result = "ok" /\ ~Ranged => HashMatches
=============================================================================
