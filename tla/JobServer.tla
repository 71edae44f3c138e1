------------------------------ MODULE JobServer ------------------------------
(***************************************************************************)
(* The API server (cmd/server/main.go) with the callers it was written     *)
(* for: the browser extension, which hands downloads over to it and then   *)
(* cancels the browser's own (background.js), its popup, which polls the   *)
(* list of jobs (popup.js), and a client that asks for one job's status.   *)
(*                                                                         *)
(* The handlers' locked sections are one step each.  The last update of a  *)
(* job is not: handleStatus encodes the job without the lock, field by     *)
(* field, so its writes and reads are steps, and a string that is read     *)
(* between the two words it is made of is torn.  Such racy reads are taken *)
(* to see the writes in their order, which the Go memory model does not    *)
(* promise.  What a download does is in QueueEngine; here it writes its    *)
(* output and returns, and whether the bytes are right is not asked: the   *)
(* server passes no hash.                                                  *)
(***************************************************************************)
EXTENDS Integers, FiniteSets

CONSTANTS
  Request,      \* POST /download requests, one job each if accepted
  Item,         \* those the extension sends for a browser's download
  Name,         \* filepath.Base of a request's URL
  Output,       \* the paths its "output" may name, NoOutput for none
  NoOutput,
  Watched,      \* the request whose job the popup and the client look at
  Poll,         \* the popup's requests that may be under way at once
  MaxFaults     \* bound on the replies lost and the server's restarts

None == "none"

ASSUME RequestsAssumption ==
  /\ IsFiniteSet(Request) /\ Item \subseteq Request /\ Watched \in Request
  /\ \A r \in Item : Output[r] = {NoOutput}
  /\ None \notin Request /\ MaxFaults \in Nat

JobID == 1 .. Cardinality(Request)

\* Defaults, and what callers name, which may be another job's default.
Path == {<<i, Name[r]>> : i \in JobID, r \in Request}
          \cup ((UNION {Output[r] : r \in Request}) \ {NoOutput})

VARIABLES
  \* the browser and background.js
  browser,  \* an item's own download: "none", "loading", "complete", "cancelled"
  post,     \* the request: "none", "sent", "refused", "accepted", "lost", "heard"
  \* the server
  nextID,   \* s.nextID
  jobs,     \* s.jobs: the request a job id is for, or None
  lock,     \* the request whose last update holds s.mu, or None
  readers,  \* the polls whose handler holds its read lock
  id, out,  \* the job of a request: its ID, 0 without one; its Output
  named,    \* the requests whose caller named the output
  state,    \* its State: "running", "done", "failed", or "torn"
  error,    \* its Error is set
  finished, \* its Finished is set
  pc,       \* the goroutine that downloads it
  result,   \* what DownloadWithProgress returned: "none", "ok", "error"
  files,    \* what is at a path: <<>>, or who wrote it and "part", "all", "mixed"
  \* the clients that read
  status,   \* the GET /status for Watched's number: the job found, what was read
  polls,    \* replies to GET /jobs on their way: Watched's row, or no job of his
  shown,    \* what the popup shows of it
  faults    \* faults that may still happen

browserVars == <<browser, post>>
tableVars == <<nextID, jobs, id, out, named>>
jobVars == <<state, error, finished>>
clientVars == <<readers, status, polls, shown>>
vars == <<browserVars, tableVars, lock, jobVars, pc, result, files, clientVars, faults>>

\* What a list without the job shows of it; a client that asks nothing.
NoRow == [state |-> "none", error |-> FALSE, finished |-> FALSE]
Idle == [at |-> "idle", about |-> None, state |-> "running", error |-> FALSE]

Init ==
  /\ browser = [r \in Request |-> "none"] /\ post = [r \in Request |-> "none"]
  /\ nextID = 0 /\ jobs = [i \in JobID |-> None] /\ lock = None
  /\ id = [r \in Request |-> 0] /\ out = [r \in Request |-> <<>>] /\ named = {}
  /\ state = [r \in Request |-> "running"] /\ error = [r \in Request |-> FALSE]
  /\ finished = [r \in Request |-> FALSE]
  /\ pc = [r \in Request |-> "none"] /\ result = [r \in Request |-> "none"]
  /\ files = [p \in Path |-> <<>>]
  /\ readers = {} /\ status = Idle /\ polls = [k \in Poll |-> {}] /\ shown = NoRow
  /\ faults = MaxFaults
-----------------------------------------------------------------------------
(* POST /download. *)

\* onCreated, or another client: the request is sent; a browser's download goes
\* on meanwhile.
Send(r) ==
  /\ post[r] = "none"
  /\ post' = [post EXCEPT ![r] = "sent"]
  /\ browser' = [browser EXCEPT ![r] = IF r \in Item THEN "loading" ELSE @]
  /\ UNCHANGED <<tableVars, lock, jobVars, pc, result, files, clientVars, faults>>

\* s.mu.Lock returns.
MayLock == lock = None /\ readers = {}

\* Mutant of NextID: the counter is read and not incremented.
SameID == IF nextID = 0 THEN 1 ELSE nextID

\* Line 92.
NextID == nextID + 1

\* Mutant of DefaultOutput: the name alone.
NameOnly(i, r) == <<1, Name[r]>>

\* Line 96.
DefaultOutput(i, r) == <<i, Name[r]>>

\* Lines 91-138: the job is in the table when the reply is sent.
Accept(r) ==
  /\ post[r] = "sent" /\ MayLock
  /\ nextID' = NextID
  /\ jobs' = [jobs EXCEPT ![NextID] = r]
  /\ id' = [id EXCEPT ![r] = NextID]
  /\ \E o \in Output[r] :
       IF o = NoOutput
         THEN out' = [out EXCEPT ![r] = DefaultOutput(NextID, r)] /\ UNCHANGED named
         ELSE out' = [out EXCEPT ![r] = o] /\ named' = named \cup {r}
  /\ pc' = [pc EXCEPT ![r] = "download"]
  /\ post' = [post EXCEPT ![r] = "accepted"]
  /\ UNCHANGED <<browser, lock, jobVars, result, files, clientVars, faults>>

\* Lines 67-89, the limiter and the token: any status but 200.
Refuse(r) ==
  /\ post[r] = "sent"
  /\ post' = [post EXCEPT ![r] = "refused"]
  /\ UNCHANGED <<browser, tableVars, lock, jobVars, pc, result, files, clientVars, faults>>

\* The request or its reply does not get through: the fetch throws.
Lose(r) ==
  /\ r \in Item /\ post[r] \in {"sent", "refused", "accepted"}
  /\ faults > 0 /\ faults' = faults - 1
  /\ post' = [post EXCEPT ![r] = "lost"]
  /\ UNCHANGED <<browser, tableVars, lock, jobVars, pc, result, files, clientVars>>

\* Mutant of TakesOver: resp.ok is not looked at.
TakesAnyReply(r) == post[r] \in {"accepted", "refused"}

\* background.js 38-53.
TakesOver(r) == post[r] = "accepted"

\* background.js 38-73: a download that was taken over is cancelled, if it is
\* still going on.
Hear(r) ==
  /\ r \in Item /\ post[r] \in {"accepted", "refused", "lost"}
  /\ browser' = [browser EXCEPT ![r] = IF TakesOver(r) /\ @ = "loading" THEN "cancelled" ELSE @]
  /\ post' = [post EXCEPT ![r] = "heard"]
  /\ UNCHANGED <<tableVars, lock, jobVars, pc, result, files, clientVars, faults>>

BrowserCompletes(r) ==
  /\ browser[r] = "loading"
  /\ browser' = [browser EXCEPT ![r] = "complete"]
  /\ UNCHANGED <<post, tableVars, lock, jobVars, pc, result, files, clientVars, faults>>
-----------------------------------------------------------------------------
(* A job's goroutines. *)

\* Nobody else is writing to r's output.
SoleWriter(r) == \A q \in Request \ {r} : pc[q] = "writing" => out[q] # out[r]

\* The output file is created, which empties what is there (engine.go:248,
\* queue.go:387); two writers at once spoil it.
CreateOutput(r) ==
  /\ pc[r] = "download"
  /\ pc' = [pc EXCEPT ![r] = "writing"]
  /\ files' = [files EXCEPT ![out[r]] = <<r, IF SoleWriter(r) THEN "part" ELSE "mixed">>]
  /\ UNCHANGED <<browserVars, tableVars, lock, jobVars, result, clientVars, faults>>

\* Lines 117-124: the download returns nil, all that it meant to write written;
\* whoever created the same file meanwhile spoilt it.
Succeed(r) ==
  /\ pc[r] = "writing"
  /\ pc' = [pc EXCEPT ![r] = "returned"]
  /\ result' = [result EXCEPT ![r] = "ok"]
  /\ files' = [files EXCEPT ![out[r]] = IF @ = <<r, "part">> THEN <<r, "all">> ELSE <<r, "mixed">>]
  /\ UNCHANGED <<browserVars, tableVars, lock, jobVars, clientVars, faults>>

\* It returns an error, before or after it created the output.
Fail(r) ==
  /\ pc[r] \in {"download", "writing"}
  /\ pc' = [pc EXCEPT ![r] = "returned"]
  /\ result' = [result EXCEPT ![r] = "error"]
  /\ UNCHANGED <<browserVars, tableVars, lock, jobVars, files, clientVars, faults>>

\* Lines 126-134: Finished, then the two words of State, then Error, under the
\* lock.
Stamp(r) ==
  /\ pc[r] = "returned" /\ MayLock
  /\ lock' = r
  /\ finished' = [finished EXCEPT ![r] = TRUE]
  /\ pc' = [pc EXCEPT ![r] = "state"]
  /\ UNCHANGED <<browserVars, tableVars, state, error, result, files, clientVars, faults>>

\* Mutant of FinalState: the error is not looked at.
AlwaysDone(r) == "done"

\* Lines 128-133.
FinalState(r) == IF result[r] = "ok" THEN "done" ELSE "failed"

WriteState(r) ==
  /\ pc[r] = "state"
  /\ IF state[r] = "running"
       THEN state' = [state EXCEPT ![r] = "torn"] /\ UNCHANGED <<pc, lock>>
       ELSE /\ state' = [state EXCEPT ![r] = FinalState(r)]
            /\ pc' = [pc EXCEPT ![r] = IF result[r] = "ok" THEN "over" ELSE "error"]
            /\ lock' = IF result[r] = "ok" THEN None ELSE lock
  /\ UNCHANGED <<browserVars, tableVars, error, finished, result, files, clientVars, faults>>

WriteError(r) ==
  /\ pc[r] = "error"
  /\ error' = [error EXCEPT ![r] = TRUE]
  /\ pc' = [pc EXCEPT ![r] = "over"]
  /\ lock' = None
  /\ UNCHANGED <<browserVars, tableVars, state, finished, result, files, clientVars, faults>>

\* The process dies and is started again: jobs, their numbers and their
\* goroutines are gone, the files are not, and requests and replies under way
\* fail.
Restart ==
  /\ faults > 0 /\ faults' = faults - 1
  /\ nextID' = 0 /\ jobs' = [i \in JobID |-> None] /\ lock' = None
  /\ state' = [r \in Request |-> "running"] /\ error' = [r \in Request |-> FALSE]
  /\ finished' = [r \in Request |-> FALSE]
  /\ result' = [r \in Request |-> "none"]
  /\ pc' = [r \in Request |-> IF pc[r] = "none" THEN "none" ELSE "killed"]
  /\ post' = [r \in Request |->
               IF post[r] \in {"sent", "refused", "accepted"} THEN "lost" ELSE post[r]]
  /\ readers' = {} /\ status' = Idle /\ polls' = [k \in Poll |-> {}]
  /\ UNCHANGED <<browser, id, out, named, files, shown>>
-----------------------------------------------------------------------------
(* The clients that read. *)

\* Lines 142-149: a client asks for the number he was told, and the server has a
\* job of that number; the lock is given back before the job is encoded.
AskStatus ==
  /\ status = Idle /\ id[Watched] # 0 /\ lock = None
  /\ jobs[id[Watched]] # None
  /\ status' = [Idle EXCEPT !.at = "state", !.about = jobs[id[Watched]]]
  /\ UNCHANGED <<browserVars, tableVars, lock, jobVars, pc, result, files, readers, polls, shown, faults>>

\* Line 151: the encoder reads State, Error and Finished in this order, then the
\* reply is sent.  An error with one word written is read as an empty one or ends
\* the request; the first is the same as one that is not written yet.
ReadField ==
  LET j == status.about IN
    /\ \/ status.at = "state"
          /\ status' = [at |-> "error", about |-> j, state |-> state[j], error |-> FALSE]
       \/ status.at = "error"
          /\ status' = [at |-> "finished", about |-> j, state |-> status.state,
                         error |-> error[j]]
       \/ status.at = "finished" /\ status' = Idle
    /\ UNCHANGED <<browserVars, tableVars, lock, jobVars, pc, result, files, readers, polls, shown, faults>>

\* Mutant of MayList: handleJobs reads without the lock.
Unlocked == TRUE

\* Line 155.
MayList == lock = None

\* Mutant of Listed: jobs that are over are not listed.
StillRunning == {r \in {jobs[i] : i \in JobID} \ {None} : state[r] = "running"}

\* Lines 158-160.
Listed == {jobs[i] : i \in JobID} \ {None}

\* Lines 154-162: the list is encoded under the read lock.
List(k) ==
  /\ polls[k] = {} /\ MayList
  /\ readers' = readers \cup {k}
  /\ polls' = [polls EXCEPT ![k] =
      {IF Watched \in Listed
         THEN [state |-> state[Watched], error |-> error[Watched], finished |-> finished[Watched]]
         ELSE NoRow}]
  /\ UNCHANGED <<browserVars, tableVars, lock, jobVars, pc, result, files, status, shown, faults>>

\* Lines 162-163: the lock is given back when the reply is written, which takes
\* as long as its reader does.
Written(k) ==
  /\ k \in readers
  /\ readers' = readers \ {k}
  /\ UNCHANGED <<browserVars, tableVars, lock, jobVars, pc, result, files, status, polls,
                 shown, faults>>

\* popup.js 38-79: a reply is shown when it comes, in whatever order.
Show(k) ==
  /\ k \notin readers
  /\ \E row \in polls[k] : shown' = row
  /\ polls' = [polls EXCEPT ![k] = {}]
  /\ UNCHANGED <<browserVars, tableVars, lock, jobVars, pc, result, files, readers, status, faults>>

\* popup.js 41-46: a poll fails and the list is emptied.
ShowNothing(k) ==
  /\ faults > 0 /\ faults' = faults - 1
  /\ shown' = NoRow
  /\ polls' = [polls EXCEPT ![k] = {}]
  /\ readers' = readers \ {k}
  /\ UNCHANGED <<browserVars, tableVars, lock, jobVars, pc, result, files, status>>
-----------------------------------------------------------------------------
JobStep(r) ==
  CreateOutput(r) \/ Succeed(r) \/ Fail(r) \/ Stamp(r) \/ WriteState(r) \/ WriteError(r)

Next ==
  \/ \E r \in Request :
       \/ Send(r) \/ Accept(r) \/ Refuse(r) \/ Lose(r) \/ Hear(r) \/ BrowserCompletes(r)
       \/ CreateOutput(r) \/ Succeed(r) \/ Fail(r)
       \/ Stamp(r) \/ WriteState(r) \/ WriteError(r)
  \/ AskStatus \/ ReadField \/ Restart
  \/ \E k \in Poll : List(k) \/ Written(k) \/ Show(k) \/ ShowNothing(k)

Spec == Init /\ [][Next]_vars

\* A browser's requests are handled and answered, its own downloads end, and so
\* do jobs, as they do in QueueEngine if their sources answer, and the popup polls
\* and reads its replies, which nothing makes it do in time: the server writes
\* with no deadline.  A writer that waits for s.mu keeps new readers out
\* (sync.RWMutex).
Fairness ==
  /\ \A r \in Item :
       WF_vars(Accept(r) \/ Refuse(r) \/ Hear(r)) /\ WF_vars(BrowserCompletes(r))
  /\ \A r \in Request : SF_vars(JobStep(r))
  /\ \A k \in Poll : WF_vars(List(k) \/ Written(k) \/ Show(k))

FairSpec == Spec /\ Fairness
-----------------------------------------------------------------------------
(* Properties. *)

State == {"running", "done", "failed", "torn"}
Row == [state : State \cup {"none"}, error : BOOLEAN, finished : BOOLEAN]

BrowserType ==
  /\ browser \in [Request -> {"none", "loading", "complete", "cancelled"}]
  /\ post \in [Request -> {"none", "sent", "refused", "accepted", "lost", "heard"}]
TableType ==
  /\ nextID \in {0} \cup JobID /\ jobs \in [JobID -> Request \cup {None}]
  /\ id \in [Request -> {0} \cup JobID] /\ out \in [Request -> {<<>>} \cup Path]
  /\ named \subseteq Request
  /\ \A i \in JobID : jobs[i] # None => i <= nextID /\ id[jobs[i]] = i
JobType ==
  /\ lock \in Request \cup {None}
  /\ pc \in [Request -> {"none", "download", "writing", "returned", "state", "error",
                         "over", "killed"}]
  /\ \A r \in Request : pc[r] \in {"state", "error"} <=> lock = r
  /\ state \in [Request -> State] /\ error \in [Request -> BOOLEAN]
  /\ finished \in [Request -> BOOLEAN]
  /\ result \in [Request -> {"none", "ok", "error"}]
  /\ files \in [Path -> {<<>>} \cup (Request \X {"part", "all", "mixed"})]
ClientType ==
  /\ readers \subseteq Poll /\ (readers # {} => lock = None)
  /\ status \in [at : {"idle", "state", "error", "finished"}, about : Request \cup {None},
                 state : State, error : BOOLEAN]
  /\ polls \in [Poll -> SUBSET Row]
  /\ shown \in Row /\ faults \in 0 .. MaxFaults

\* Every variable has its type; a job in the table has its number, and what is
\* between two writes of a last update is locked (main.go 91-100, 126-134).
TypeOK == BrowserType /\ TableType /\ JobType /\ ClientType

\* No other job of this server writes to r's output, unless both outputs are
\* defaults.
OwnPath(r) ==
  \A q \in Listed \ {r} : out[q] = out[r] => q \notin named /\ r \notin named

\* What a job that is done has at its output is all that its own download wrote
\* and nothing else, for as long as the server lists the job: no later job, and
\* none of a server that was killed, has touched it, unless a caller named a
\* path that is another job's output, named or default.  "done" comes after the
\* file (main.go 91-100, 117-134).  It says nothing of the bytes being right.
DoneIsUntouched ==
  \A r \in Listed :
    state[r] = "done" /\ OwnPath(r) => files[out[r]] = <<r, "all">>

\* The list never shows a job between two states (main.go 154-163).
ListsAreConsistent ==
  \A k \in Poll : \A row \in polls[k] :
    /\ row.state # "torn"
    /\ row.finished <=> row.state \in {"done", "failed"}
    /\ row.error <=> row.state = "failed"

\* The status of one job may mix two states, because it is read without the
\* lock, but, as long as reads see the writes in their order, not in any way:
\* done means finished and without an error, failed means finished, an error
\* comes with "failed" or with an older state (main.go 126-134, 141-152).
StatusMixesForward ==
  status.at = "finished" =>
    /\ status.state = "done" => finished[status.about] /\ ~status.error
    /\ status.state = "failed" => finished[status.about]
    /\ status.error => finished[status.about]

\* The number a caller was given denotes his own job until the server dies with
\* it; after a restart it may denote none or a later one (main.go 91-100,
\* 141-149).
StatusIsOwn ==
  \A r \in Request : id[r] # 0 /\ pc[r] # "killed" => jobs[id[r]] = r

\* A download the browser starts completes in the browser or is done by the
\* server, with one exception: it was cancelled for a job that the server had
\* accepted, and that job failed, or died with the server.  Then the file is
\* lost by both.  No other interleaving loses one: not a refused request, not a
\* lost reply, not a failed job of a download that was not cancelled, nor a
\* reader of the list who holds the lock a job's last update needs
\* (background.js 24-73, main.go 126-134, 155-162).
LostOnlyAfterHandover ==
  \A r \in Item :
    browser[r] = "loading" ~>
      \/ browser[r] = "complete" \/ state[r] = "done"
      \/ browser[r] = "cancelled" /\ (state[r] = "failed" \/ pc[r] = "killed")

\* The popup shows the last state of a job in the end, although every reply is
\* older than the table by the time it is shown and some polls fail (main.go
\* 154-163, popup.js 9-83).
PopupCatchesUp ==
  <>[](pc[Watched] = "over") => <>[](shown.state = FinalState(Watched))
=============================================================================
