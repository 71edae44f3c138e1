----------------------------- MODULE FixedEngine -----------------------------
(***************************************************************************)
(* Engine.Download (internal/engine/engine.go): one goroutine per chunk,   *)
(* started by an error group whose first error cancels the others, each    *)
(* chunk tried a bounded number of times; then the chunks are concatenated *)
(* and the hash is checked.                                                *)
(*                                                                         *)
(* A step is an answer from the network, an operation on a part file, or   *)
(* an operation of the group.  The progress ticker is in ProgressStream.   *)
(***************************************************************************)
EXTENDS Integers, FiniteSets

CONSTANTS
  Connections,  \* opts.Connections after New
  MaxRetries,   \* opts.MaxRetries after New
  Options,      \* which of OptionKinds hold
  Faults        \* which of FaultKinds may happen

\* "ranged": the probe saw Accept-Ranges: bytes and a size; "sha": ExpectedSHA
\* is given.
OptionKinds == {"ranged", "sha"}

\* A request that fails or breaks off; a file that cannot be written; the
\* caller cancels; a source that answers a range with the whole file; a body
\* that ends early without an error.
FaultKinds == {"request", "disk", "cancel", "fullbody", "short"}

ASSUME SizesAssumption ==
  /\ Connections \in Nat \ {0}
  /\ MaxRetries \in Nat \ {0}
ASSUME OptionsAssumption ==
  /\ Options \subseteq OptionKinds
  /\ Faults \subseteq FaultKinds
-----------------------------------------------------------------------------
Ranged == "ranged" \in Options
HasSHA == "sha" \in Options

\* Lines 94-98: without ranges a single connection; Plan makes a chunk for
\* each connection (ChunkPlan).
numConns == IF Ranged THEN Connections ELSE 1
Piece == 0 .. numConns - 1

VARIABLES
  pc,      \* where each chunk's goroutine is
  tries,   \* its failed attempts
  part,    \* its part file: "absent", "right", "short", "whole"
  cause,   \* what its last attempt failed of: "none", "fault", "caller", "group"
  raised,  \* the contexts that are cancelled: "caller", and "group" for gctx
  err,     \* g.err: the cause of the chunk that set it, or "none"
  main,    \* where the goroutine that called Download is
  next,    \* the next chunk to start
  out,     \* what the output holds of each chunk; "absent" behind its end
  result   \* "none", "ok" or "error"

chunkVars == <<pc, tries, part, cause>>
groupVars == <<raised, err>>
mainVars  == <<main, next, out, result>>
vars == <<chunkVars, groupVars, mainVars>>

Init ==
  /\ pc = [c \in Piece |-> "idle"] /\ tries = [c \in Piece |-> 0]
  /\ part = [c \in Piece |-> "absent"] /\ cause = [c \in Piece |-> "none"]
  /\ raised = {} /\ err = "none"
  /\ main = "probe" /\ next = 0
  /\ out = [c \in Piece |-> "absent"] /\ result = "none"
-----------------------------------------------------------------------------
WholeBody == IF numConns = 1 THEN "right" ELSE "whole"

\* The bodies a source may answer with; without ranges it sends the file,
\* which is the only chunk.
Bodies == {"right"}
  \cup (IF "fullbody" \in Faults THEN {WholeBody} ELSE {})
  \cup (IF "short" \in Faults THEN {"short"} ELSE {})

\* What an attempt may fail of.
Causes == raised \cup (IF Faults \cap {"request", "disk"} # {} THEN {"fault"} ELSE {})

\* Mutant of Exhausted: `attempt < MaxRetries` in line 180.
OneTryLess(c) == tries[c] + 1 >= MaxRetries

\* Mutant of Exhausted: one attempt more than MaxRetries + 1.
OneTryMore(c) == tries[c] > MaxRetries

\* Line 180: this attempt is the last one.
Exhausted(c) == tries[c] >= MaxRetries

\* The goroutines that hold a slot of sem.
Running == {c \in Piece : pc[c] \in {"request", "copy"}}

\* Lines 194-215: the source answers, and the part file is created empty.
Request(c) ==
  /\ pc[c] = "request"
  /\ part' = [part EXCEPT ![c] = "short"]
  /\ pc' = [pc EXCEPT ![c] = "copy"]
  /\ UNCHANGED <<tries, cause, groupVars, mainVars>>

\* Lines 218-240 and 155-156: the body is copied to its end; no chunk has a
\* hash of its own to check.
Copy(c) ==
  /\ pc[c] = "copy"
  /\ \E body \in Bodies : part' = [part EXCEPT ![c] = body]
  /\ pc' = [pc EXCEPT ![c] = "done"]
  /\ UNCHANGED <<tries, cause, groupVars, mainVars>>

\* Lines 180-190 and 202-232: an attempt fails; the next one follows even when
\* the group is cancelled.
AttemptFails(c) ==
  /\ c \in Running
  /\ \E why \in Causes : cause' = [cause EXCEPT ![c] = why]
  /\ tries' = [tries EXCEPT ![c] = @ + 1]
  /\ pc' = [pc EXCEPT ![c] = IF Exhausted(c) THEN "failed" ELSE "request"]
  /\ UNCHANGED <<part, groupVars, mainVars>>

\* Mutant of ErrAfter: the last error wins.
LastError(c) == cause[c]

\* Line 288: errOnce.
ErrAfter(c) == IF err = "none" THEN cause[c] ELSE err

\* Lines 287-292: the first error is kept and cancels the group.
Report(c) ==
  /\ pc[c] = "failed"
  /\ err' = ErrAfter(c)
  /\ raised' = raised \cup {"group"}
  /\ pc' = [pc EXCEPT ![c] = "done"]
  /\ UNCHANGED <<tries, part, cause, mainVars>>
-----------------------------------------------------------------------------
(* The goroutine that called Download. *)

ReturnError == main' = "done" /\ result' = "error"

\* Lines 89-106: ask for the size, make the directory.
Probe ==
  /\ main = "probe"
  /\ \/ main' = "start" /\ UNCHANGED result
     \/ Causes # {} /\ ReturnError
  /\ UNCHANGED <<chunkVars, groupVars, next, out>>

\* Lines 146-157: take a slot and start the next chunk, failed or not.
Start ==
  /\ main = "start"
  /\ next < numConns
  /\ Cardinality(Running) < numConns
  /\ pc' = [pc EXCEPT ![next] = "request"]
  /\ next' = next + 1
  /\ UNCHANGED <<tries, part, cause, groupVars, main, out, result>>

\* Mutants of AllDone: looks only at the chunk started last; waits for every
\* chunk to succeed.
LastDone == pc[numConns - 1] = "done"
AllSucceeded == \A c \in Piece : pc[c] = "done" /\ tries[c] <= MaxRetries

\* Line 297: wg.Wait.
AllDone == \A c \in Piece : pc[c] = "done"

\* Lines 160-162 and 296-300.
Wait ==
  /\ main = "start"
  /\ next = numConns
  /\ AllDone
  /\ raised' = raised \cup {"group"}
  /\ IF err # "none" THEN ReturnError ELSE main' = "assemble" /\ UNCHANGED result
  /\ UNCHANGED <<chunkVars, err, next, out>>

Unwritten == {c \in Piece : out[c] = "absent"}
NextToWrite(c) == c \in Unwritten /\ \A d \in Unwritten : c <= d

\* reassemble (254-264): append the next part file.
AppendPart ==
  /\ main = "assemble"
  /\ \E c \in Piece :
       /\ NextToWrite(c)
       /\ part[c] # "absent"
       /\ out' = [out EXCEPT ![c] = part[c]]
  /\ UNCHANGED <<chunkVars, groupVars, main, next, result>>

\* reassemble (245-262) fails.
AppendFails ==
  /\ main = "assemble"
  /\ "disk" \in Faults
  /\ ReturnError
  /\ UNCHANGED <<chunkVars, groupVars, next, out>>

\* The hash of the output is the file's hash only for the file.
HashMatches == \A c \in Piece : out[c] = "right"

\* Mutant of Rejected: the hash is never compared.
NeverRejected == FALSE

\* Lines 168-169.
Rejected == HasSHA /\ ~HashMatches

\* Lines 168-175.
VerifyAndReturn ==
  /\ main = "assemble"
  /\ Unwritten = {}
  /\ IF Rejected THEN ReturnError ELSE main' = "done" /\ result' = "ok"
  /\ UNCHANGED <<chunkVars, groupVars, next, out>>

\* The caller gives up, which cancels the group too.
Cancel ==
  /\ "cancel" \in Faults
  /\ "caller" \notin raised
  /\ main # "done"
  /\ raised' = raised \cup {"caller"}
  /\ UNCHANGED <<chunkVars, err, mainVars>>

ChunkStep(c) == Request(c) \/ Copy(c) \/ AttemptFails(c) \/ Report(c)
MainStep == Probe \/ Start \/ Wait \/ AppendPart \/ AppendFails \/ VerifyAndReturn
Returned == main = "done"

Next ==
  \/ \E c \in Piece : ChunkStep(c)
  \/ MainStep
  \/ Cancel
  \/ Returned /\ UNCHANGED vars

Spec == Init /\ [][Next]_vars

\* Goroutines are scheduled and requests are answered or fail.
FairSpec ==
  /\ Spec
  /\ \A c \in Piece : WF_vars(ChunkStep(c))
  /\ WF_vars(MainStep)
-----------------------------------------------------------------------------
(* Properties. *)

Content == {"absent", "right", "short", "whole"}

\* Every variable has its type.
TypeOK ==
  /\ pc \in [Piece -> {"idle", "request", "copy", "failed", "done"}]
  /\ tries \in [Piece -> 0 .. MaxRetries + 1]
  /\ part \in [Piece -> Content]
  /\ cause \in [Piece -> {"none", "fault", "caller", "group"}]
  /\ raised \subseteq {"caller", "group"}
  /\ err \in {"none", "fault", "caller", "group"}
  /\ main \in {"probe", "start", "assemble", "done"}
  /\ next \in 0 .. numConns
  /\ out \in [Piece -> Content]
  /\ result \in {"none", "ok", "error"}

\* The error the caller gets is one that failed a chunk by itself: never the
\* "context canceled" with which the group stopped the other chunks, whichever
\* goroutine reports first (engine.go:283-294).
ErrorIsTheCause == err # "group"

\* Where every body is as long as it should be and belongs to the range asked
\* for, or the hash is checked.
BytesTrusted == HasSHA \/ (Faults \cap {"fullbody", "short"} = {})

\* Where BytesTrusted holds Download implements what a download promises: it
\* returns nil only after it wrote exactly the file.
Abstract == INSTANCE Download WITH
  Piece <- Piece,
  got <- {c \in Piece : part[c] = "right"},
  output <- IF Unwritten = Piece THEN "none"
            ELSE IF HashMatches THEN "whole" ELSE "partial",
  result <- result
ImplementsDownload == Abstract!Spec

\* What ends a download is a chunk that failed MaxRetries + 1 times, not one
\* that was retried with success (engine.go:178-191).
SurvivesRetries == err # "none" => \E c \in Piece : tries[c] = MaxRetries + 1

\* Download returns, although a cancelled group keeps retrying.
Returns == <>Returned
=============================================================================
