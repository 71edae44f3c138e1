-------------------------- MODULE FixedEngineProofs --------------------------
(***************************************************************************)
(* Theorems about FixedEngine, for every number of connections and         *)
(* attempts and all faults.  The invariant says what each chunk's          *)
(* goroutine has done at each point, when the group can have been          *)
(* cancelled, and what the caller knows when it goes on.                   *)
(***************************************************************************)
EXTENDS FixedEngine, TLAPS

\* A chunk's goroutine: not started, trying, out of attempts, or done with a
\* body or an error that is remembered.  The group's cancel can only be the
\* cause of a failure that comes after the first.
ChunkOf(c) ==
  /\ pc[c] = "idle" <=> c >= next
  /\ pc[c] = "idle" => tries[c] = 0
  /\ pc[c] \in {"idle", "request", "copy"}
       => part[c] \in {"absent", "short"} /\ tries[c] <= MaxRetries
  /\ pc[c] = "failed" => tries[c] = MaxRetries + 1 /\ cause[c] # "none"
  /\ pc[c] = "done" => \/ tries[c] <= MaxRetries /\ part[c] \in Bodies
                       \/ tries[c] = MaxRetries + 1 /\ err # "none"
  /\ cause[c] = "group" => err # "none"

\* The group is cancelled by a chunk's error, or when no chunk is left; its
\* error is a chunk's.
Group ==
  /\ "group" \in raised => err # "none" \/ AllDone
  /\ err # "group"
  /\ err # "none" => \E c \in Piece : tries[c] = MaxRetries + 1

\* The caller starts every chunk or none, goes on to the output when all are
\* done without an error, and copies part files in order.
Caller ==
  /\ main = "probe" => next = 0
  /\ main = "assemble" => AllDone /\ err = "none"
  /\ main = "done" => AllDone \/ next = 0
  /\ main # "done" => result = "none"
  /\ main \in {"probe", "start"} => Unwritten = Piece
  /\ main = "assemble" => \A c \in Piece : out[c] \in {"absent", part[c]}

IInv == TypeOK /\ (\A c \in Piece : ChunkOf(c)) /\ Group /\ Caller

\* The steps of the goroutine that called Download, and its caller's cancel.
CallerStep == MainStep \/ Cancel

\* Plan makes at least one chunk.
LEMMA Numbers == numConns \in Nat \ {0} /\ MaxRetries \in Nat \ {0} /\ 0 \in Piece
  BY SizesAssumption DEF numConns, Piece

\* A source answers with a body.
LEMMA BodyTypes == Bodies \subseteq Content \ {"absent"}
  BY DEF Bodies, WholeBody, Content

\* An attempt fails of a fault or of a context that is cancelled.
LEMMA CauseTypes ==
  TypeOK => /\ Causes \subseteq raised \cup {"fault"}
            /\ Causes \subseteq {"fault", "caller", "group"}
  BY DEF TypeOK, Causes
-----------------------------------------------------------------------------
(* A chunk's step. *)

\* It is taken only while the caller starts chunks or waits for them.
LEMMA CallerWaits ==
  ASSUME TypeOK, Caller, NEW c \in Piece, ChunkOf(c), ChunkStep(c)
  PROVE  main = "start" /\ UNCHANGED mainVars /\ pc[c] \in {"request", "copy", "failed"}
<1>1. UNCHANGED mainVars /\ pc[c] \in {"request", "copy", "failed"}
  <2>1. CASE Request(c)
    BY <2>1 DEF Request
  <2>2. CASE Copy(c)
    BY <2>2 DEF Copy
  <2>3. CASE AttemptFails(c)
    BY <2>3 DEF AttemptFails, Running
  <2>4. CASE Report(c)
    BY <2>4 DEF Report, ErrAfter
  <2>. QED
    BY <2>1, <2>2, <2>3, <2>4 DEF ChunkStep
<1>2. ~AllDone /\ c < next
  BY <1>1 DEF AllDone, ChunkOf, TypeOK, Piece
<1>3. next # 0
  BY <1>2 DEF Piece
<1>. QED
  BY <1>1, <1>2, <1>3 DEF Caller, TypeOK

\* It changes this chunk only.
LEMMA StepsAreLocal ==
  ASSUME TypeOK, NEW c \in Piece, ChunkStep(c)
  PROVE  \A d \in Piece \ {c} : /\ pc'[d] = pc[d] /\ tries'[d] = tries[d]
                                /\ part'[d] = part[d] /\ cause'[d] = cause[d]
<1> USE DEF TypeOK
<1>1. CASE Request(c)
  BY <1>1 DEF Request
<1>2. CASE Copy(c)
  BY <1>2 DEF Copy
<1>3. CASE AttemptFails(c)
  BY <1>3 DEF AttemptFails, Running
<1>4. CASE Report(c)
  BY <1>4 DEF Report, ErrAfter
<1>. QED
  BY <1>1, <1>2, <1>3, <1>4 DEF ChunkStep

\* It keeps the types, when attempts are counted up to the last one only.
LEMMA ChunkTyped ==
  ASSUME TypeOK, NEW c \in Piece, ChunkOf(c), ChunkStep(c)
  PROVE  TypeOK'
<1> USE Numbers, BodyTypes, CauseTypes DEF TypeOK, Content, groupVars, mainVars
<1>1. CASE Request(c)
  BY <1>1 DEF Request
<1>2. CASE Copy(c)
  BY <1>2 DEF Copy
<1>3. CASE AttemptFails(c)
  <2>1. tries[c] + 1 \in 0 .. MaxRetries + 1
    BY <1>3 DEF AttemptFails, Running, ChunkOf
  <2>2. tries' = [tries EXCEPT ![c] = tries[c] + 1]
    BY <1>3 DEF AttemptFails
  <2>3. tries' \in [Piece -> 0 .. MaxRetries + 1]
    BY <2>1, <2>2
  <2>. QED
    BY <1>3, <2>3 DEF AttemptFails
<1>4. CASE Report(c)
  BY <1>4 DEF Report, ErrAfter
<1>. QED
  BY <1>1, <1>2, <1>3, <1>4 DEF ChunkStep

\* An error once remembered stays; the group is cancelled with an error.
LEMMA ErrorsStay ==
  ASSUME TypeOK, Group, NEW c \in Piece, ChunkOf(c), ChunkStep(c)
  PROVE  /\ err # "none" => err' = err
         /\ raised \subseteq raised'
         /\ "group" \in raised' \ raised => err' # "none"
         /\ err' # "group"
<1> USE DEF groupVars, Group, ChunkOf
<1>1. CASE Request(c)
  BY <1>1 DEF Request
<1>2. CASE Copy(c)
  BY <1>2 DEF Copy
<1>3. CASE AttemptFails(c)
  BY <1>3 DEF AttemptFails, Running
<1>4. CASE Report(c)
  BY <1>4 DEF Report, ErrAfter
<1>. QED
  BY <1>1, <1>2, <1>3, <1>4 DEF ChunkStep

\* The chunk keeps its account.
LEMMA OwnChunk ==
  ASSUME TypeOK, Group, Caller, NEW c \in Piece, ChunkOf(c), ChunkStep(c)
  PROVE  ChunkOf(c)'
<1>0. /\ pc[c] \in {"request", "copy", "failed"} /\ UNCHANGED mainVars
      /\ err # "none" => err' = err
  BY CallerWaits, ErrorsStay
<1>a. /\ pc \in [Piece -> {"idle", "request", "copy", "failed", "done"}]
      /\ tries \in [Piece -> 0 .. MaxRetries + 1] /\ part \in [Piece -> Content]
      /\ cause \in [Piece -> {"none", "fault", "caller", "group"}]
  BY DEF TypeOK
<1> USE <1>0, <1>a, Numbers DEF ChunkOf, mainVars, groupVars
<1>1. CASE Request(c)
  BY <1>1 DEF Request
<1>2. CASE Copy(c)
  <2>1. PICK body \in Bodies : part' = [part EXCEPT ![c] = body]
    BY <1>2 DEF Copy
  <2>2. part'[c] \in Bodies /\ Bodies' = Bodies
    BY <2>1 DEF Bodies
  <2>. QED
    BY <1>2, <2>2 DEF Copy
<1>3. CASE AttemptFails(c)
  <2>1. PICK why \in Causes : cause' = [cause EXCEPT ![c] = why]
    BY <1>3 DEF AttemptFails
  <2>2. why # "none" /\ (why = "group" => err # "none")
    <3>1. ~AllDone
      BY <1>3 DEF AttemptFails, Running, AllDone
    <3>. QED
      BY <3>1, CauseTypes DEF Group, Causes, TypeOK
  <2>3. /\ cause'[c] = why /\ UNCHANGED <<part, err, next>>
        /\ tries'[c] = tries[c] + 1 /\ tries[c] <= MaxRetries
        /\ pc'[c] = IF tries[c] >= MaxRetries THEN "failed" ELSE "request"
    BY <1>3, <2>1 DEF AttemptFails, Running, Exhausted
  <2>4. part[c] \in {"absent", "short"}
    BY <1>3 DEF AttemptFails, Running
  <2>. QED
    BY <2>2, <2>3, <2>4
<1>4. CASE Report(c)
  BY <1>4 DEF Report, ErrAfter
<1>. QED
  BY <1>1, <1>2, <1>3, <1>4 DEF ChunkStep

\* So do the others.
LEMMA OtherChunks ==
  ASSUME TypeOK, Group, Caller, NEW c \in Piece, ChunkOf(c), ChunkStep(c),
         NEW d \in Piece \ {c}, ChunkOf(d)
  PROVE  ChunkOf(d)'
<1>1. /\ pc'[d] = pc[d] /\ tries'[d] = tries[d] /\ part'[d] = part[d]
      /\ cause'[d] = cause[d]
      /\ next' = next /\ (err # "none" => err' = err)
  BY CallerWaits, StepsAreLocal, ErrorsStay DEF mainVars
<1>. QED
  BY <1>1 DEF ChunkOf

\* What the group and the caller know stays true.
LEMMA ChunkKeepsRest ==
  ASSUME TypeOK, Group, Caller, NEW c \in Piece, ChunkOf(c), ChunkStep(c)
  PROVE  Group' /\ Caller'
<1>0. /\ main = "start" /\ UNCHANGED mainVars /\ pc[c] \in {"request", "copy", "failed"}
      /\ \A d \in Piece \ {c} : tries'[d] = tries[d]
  BY CallerWaits, StepsAreLocal
<1>1. Caller'
  BY <1>0 DEF Caller, mainVars, Unwritten
<1>2. "group" \in raised' => err' # "none"
  <2>1. ~AllDone
    BY <1>0 DEF AllDone
  <2>. QED
    BY <2>1, ErrorsStay DEF Group
<1>3. ASSUME err' # "none" PROVE \E d \in Piece : tries'[d] = MaxRetries + 1
  <2>1. CASE pc[c] = "failed"
    <3>1. tries[c] = MaxRetries + 1 /\ UNCHANGED tries
      BY <2>1 DEF ChunkStep, Request, Copy, AttemptFails, Running, Report, ChunkOf
    <3>. QED
      BY <3>1
  <2>2. CASE pc[c] # "failed"
    <3>1. UNCHANGED err /\ tries[c] <= MaxRetries
      BY <1>0, <2>2 DEF ChunkStep, Request, Copy, AttemptFails, Report, ChunkOf, groupVars
    <3>2. PICK d \in Piece : tries[d] = MaxRetries + 1
      BY <1>3, <3>1 DEF Group
    <3>3. d # c
      BY <3>1, <3>2, Numbers
    <3>. QED
      BY <1>0, <3>2, <3>3
  <2>. QED
    BY <2>1, <2>2
<1>. QED
  BY <1>1, <1>2, <1>3, ErrorsStay DEF Group
-----------------------------------------------------------------------------
(* The caller's steps. *)

\* They keep the types.
LEMMA CallerTyped == ASSUME TypeOK, CallerStep PROVE TypeOK'
<1> USE Numbers DEF TypeOK, chunkVars, groupVars, mainVars
<1>1. CASE Probe
  BY <1>1 DEF Probe, ReturnError
<1>2. CASE Start
  <2>1. next + 1 \in 0 .. numConns
    BY <1>2 DEF Start
  <2>. QED
    BY <1>2, <2>1 DEF Start
<1>3. CASE Wait
  BY <1>3 DEF Wait, ReturnError
<1>4. CASE AppendPart
  BY <1>4 DEF AppendPart
<1>5. CASE AppendFails
  BY <1>5 DEF AppendFails, ReturnError
<1>6. CASE VerifyAndReturn
  BY <1>6 DEF VerifyAndReturn, ReturnError
<1>7. CASE Cancel
  BY <1>7 DEF Cancel
<1>. QED
  BY <1>1, <1>2, <1>3, <1>4, <1>5, <1>6, <1>7 DEF CallerStep, MainStep

\* They change no chunk but the one that is started.
LEMMA CallerChunks ==
  ASSUME TypeOK, CallerStep, NEW c \in Piece, ChunkOf(c)
  PROVE  ChunkOf(c)'
<1>0. c \in Nat /\ next \in Nat /\ pc \in [Piece -> {"idle", "request", "copy", "failed", "done"}]
  BY Numbers DEF TypeOK, Piece
<1>1. CASE Start
  BY <1>0, <1>1, Numbers DEF Start, ChunkOf, groupVars
<1>2. CASE UNCHANGED <<chunkVars, err, next>>
  BY <1>2 DEF chunkVars, ChunkOf
<1>3. Start \/ UNCHANGED <<chunkVars, err, next>>
  BY DEF CallerStep, MainStep, Probe, Wait, AppendPart, AppendFails, VerifyAndReturn, Cancel,
         groupVars, mainVars
<1>. QED
  BY <1>1, <1>2, <1>3

\* A group whose chunks are all done has started them all.
LEMMA DoneIsStarted ==
  ASSUME TypeOK, \A c \in Piece : ChunkOf(c), AllDone
  PROVE  ~(next < numConns)
<1> SUFFICES ASSUME next < numConns PROVE FALSE
  OBVIOUS
<1>1. next \in Piece
  BY Numbers DEF TypeOK, Piece
<1>2. pc[next] = "idle"
  BY <1>1, Numbers DEF ChunkOf, TypeOK
<1>. QED
  BY <1>1, <1>2 DEF AllDone

\* They keep what the group knows,
LEMMA CallerGroup ==
  ASSUME TypeOK, \A c \in Piece : ChunkOf(c), Group, CallerStep
  PROVE  Group'
<1> USE DEF Group, groupVars, chunkVars, AllDone
<1>1. CASE Probe
  BY <1>1 DEF Probe, ReturnError
<1>2. CASE Start
  BY <1>2, DoneIsStarted DEF Start
<1>3. CASE Wait
  BY <1>3 DEF Wait, ReturnError
<1>4. CASE AppendPart
  BY <1>4 DEF AppendPart
<1>5. CASE AppendFails
  BY <1>5 DEF AppendFails, ReturnError
<1>6. CASE VerifyAndReturn
  BY <1>6 DEF VerifyAndReturn, ReturnError
<1>7. CASE Cancel
  BY <1>7 DEF Cancel
<1>. QED
  BY <1>1, <1>2, <1>3, <1>4, <1>5, <1>6, <1>7 DEF CallerStep, MainStep

\* and what the caller knows.
LEMMA CallerKept ==
  ASSUME TypeOK, \A c \in Piece : ChunkOf(c), Caller, CallerStep
  PROVE  Caller'
<1> USE DEF Caller, groupVars, chunkVars, mainVars, AllDone
<1>1. CASE Probe
  BY <1>1 DEF Probe, ReturnError, Unwritten
<1>2. CASE Start
  BY <1>2 DEF Start, Unwritten
<1>3. CASE Wait
  BY <1>3 DEF Wait, ReturnError, Unwritten
<1>4. CASE AppendPart
  <2>1. PICK c \in Piece : out' = [out EXCEPT ![c] = part[c]]
    BY <1>4 DEF AppendPart
  <2>2. main = "assemble" /\ UNCHANGED <<chunkVars, groupVars, main, next, result>>
    BY <1>4 DEF AppendPart
  <2>3. out \in [Piece -> Content]
    BY DEF TypeOK
  <2>. QED
    BY <2>1, <2>2, <2>3
<1>5. CASE AppendFails
  BY <1>5 DEF AppendFails, ReturnError
<1>6. CASE VerifyAndReturn
  BY <1>6 DEF VerifyAndReturn, ReturnError
<1>7. CASE Cancel
  BY <1>7 DEF Cancel, Unwritten
<1>. QED
  BY <1>1, <1>2, <1>3, <1>4, <1>5, <1>6, <1>7 DEF CallerStep, MainStep
-----------------------------------------------------------------------------
\* The invariant holds in the beginning.
LEMMA InvInit == Init => IInv
<1> SUFFICES ASSUME Init PROVE IInv
  OBVIOUS
<1> USE Numbers DEF Init
<1>1. TypeOK
  BY DEF TypeOK, Content
<1>2. \A c \in Piece : ChunkOf(c)
  BY DEF ChunkOf, Piece
<1>3. Group /\ Caller
  BY DEF Group, Caller, Unwritten
<1>. QED
  BY <1>1, <1>2, <1>3 DEF IInv

\* Every step keeps it.
LEMMA InvStep == IInv /\ [Next]_vars => IInv'
<1> SUFFICES ASSUME IInv, [Next]_vars PROVE IInv'
  OBVIOUS
<1> USE DEF IInv
<1>1. ASSUME NEW c \in Piece, ChunkStep(c) PROVE IInv'
  <2>1. TypeOK' /\ Group' /\ Caller'
    BY <1>1, ChunkTyped, ChunkKeepsRest
  <2>2. ChunkOf(c)' /\ \A d \in Piece \ {c} : ChunkOf(d)'
    BY <1>1, OwnChunk, OtherChunks
  <2>3. \A d \in Piece : ChunkOf(d)'
    BY <2>2
  <2>. QED
    BY <2>1, <2>3
<1>2. CASE CallerStep
  <2>1. \A c \in Piece : ChunkOf(c)'
    BY <1>2, CallerChunks
  <2>. QED
    BY <1>2, <2>1, CallerTyped, CallerGroup, CallerKept
<1>3. CASE UNCHANGED vars
  <2> USE <1>3 DEF vars, chunkVars, groupVars, mainVars
  <2>1. TypeOK'
    BY DEF TypeOK
  <2>2. \A c \in Piece : ChunkOf(c)'
    BY DEF ChunkOf
  <2>3. Group' /\ Caller'
    BY DEF Group, Caller, AllDone, Unwritten
  <2>. QED
    BY <2>1, <2>2, <2>3
<1>. QED
  BY <1>1, <1>2, <1>3 DEF Next, CallerStep

\* The inductive invariant of Download.
THEOREM Invariance == Spec => []IInv
  BY InvInit, InvStep, PTL DEF Spec

\* Every variable keeps its type; no chunk is tried more than MaxRetries + 1
\* times (engine.go:180).
THEOREM TypeCorrect == Spec => []TypeOK
<1>1. IInv => TypeOK
  BY DEF IInv
<1>. QED
  BY <1>1, Invariance, PTL

\* The error the caller gets failed a chunk by itself: it is never the group's
\* own cancel, in whatever order the chunks report (engine.go:283-294).
THEOREM CauseIsReported == Spec => []ErrorIsTheCause
<1>1. IInv => ErrorIsTheCause
  BY DEF IInv, Group, ErrorIsTheCause
<1>. QED
  BY <1>1, Invariance, PTL

\* What ends a download is a chunk that failed MaxRetries + 1 times
\* (engine.go:178-191).
THEOREM RetriesAreSurvived == Spec => []SurvivesRetries
<1>1. IInv => SurvivesRetries
  BY DEF IInv, Group, SurvivesRetries
<1>. QED
  BY <1>1, Invariance, PTL
-----------------------------------------------------------------------------
(* Download implements what a download promises. *)

Got == {c \in Piece : part[c] = "right"}
Written == IF Unwritten = Piece THEN "none" ELSE IF HashMatches THEN "whole" ELSE "partial"

\* The engine's initial states are initial states of the promise.
LEMMA RefinementInit == Init => Abstract!Init
<1> SUFFICES ASSUME Init PROVE Abstract!Init
  OBVIOUS
<1>1. Got = {} /\ Unwritten = Piece
  BY DEF Init, Got, Unwritten
<1>. QED
  BY <1>1 DEF Init, Got, Abstract!Init

\* A chunk that has its bytes is not fetched again, so pieces are only added.
LEMMA ChunkCollects ==
  ASSUME IInv, NEW c \in Piece, ChunkStep(c)
  PROVE  Abstract!Collect
<1>0. main = "start" /\ UNCHANGED mainVars /\ ChunkOf(c) /\ result = "none"
  BY CallerWaits DEF IInv, Caller
<1>1. \A d \in Piece \ {c} : part'[d] = part[d]
  BY StepsAreLocal DEF IInv
<1>2. part[c] = "right" => part'[c] = "right"
  <2> USE <1>0 DEF ChunkOf, IInv, TypeOK
  <2>1. CASE Request(c)
    BY <2>1 DEF Request
  <2>2. CASE Copy(c)
    BY <2>2 DEF Copy
  <2>3. CASE AttemptFails(c)
    BY <2>3 DEF AttemptFails, Running
  <2>4. CASE Report(c)
    BY <2>4 DEF Report, ErrAfter
  <2>. QED
    BY <2>1, <2>2, <2>3, <2>4 DEF ChunkStep
<1>3. Got' = Got \cup Got' /\ Got' \in SUBSET Piece
  BY <1>1, <1>2 DEF Got
<1>4. UNCHANGED <<Written, result>>
  BY <1>0 DEF mainVars, Written, Unwritten, HashMatches
<1>. QED
  BY <1>0, <1>3, <1>4 DEF Abstract!Collect, Got, Written

\* The caller returns nil only with the file: the hash matched, or every part
\* file is a whole body of a source that sends what it was asked for.
LEMMA VerifiedIsFile ==
  ASSUME IInv, BytesTrusted, main = "assemble", Unwritten = {}, ~Rejected
  PROVE  HashMatches
<1>1. CASE HasSHA
  BY <1>1 DEF Rejected
<1>2. CASE Faults \cap {"fullbody", "short"} = {}
  <2>1. Bodies = {"right"}
    BY <1>2 DEF Bodies
  <2> SUFFICES ASSUME NEW c \in Piece PROVE out[c] = "right"
    BY DEF HashMatches
  <2>2. pc[c] = "done" /\ err = "none" /\ ChunkOf(c)
    BY DEF IInv, Caller, AllDone
  <2>3. part[c] = "right"
    BY <2>1, <2>2 DEF ChunkOf
  <2>. QED
    BY <2>3 DEF Unwritten, IInv, Caller
<1>. QED
  BY <1>1, <1>2 DEF BytesTrusted

\* An error may be returned whatever was written.
LEMMA ErrorsFail ==
  ASSUME Caller, main # "done", ReturnError, UNCHANGED <<part, out>>
  PROVE  Abstract!Next
<1>1. result = "none" /\ result' = "error" /\ UNCHANGED <<Got, Written>>
  BY DEF Caller, ReturnError, Got, Written, Unwritten, HashMatches
<1>. QED
  BY <1>1 DEF Abstract!Next, Abstract!Fail, Got, Written

\* Writing a part file makes the output whole only from all of them.
LEMMA AppendWrites ==
  ASSUME IInv, AppendPart
  PROVE  Abstract!Write
<1>1. PICK c \in Piece : out' = [out EXCEPT ![c] = part[c]] /\ part[c] # "absent"
  BY DEF AppendPart
<1>2. /\ UNCHANGED <<part, result>> /\ result = "none"
      /\ \A d \in Piece : out[d] \in {"absent", part[d]}
      /\ out \in [Piece -> Content]
  BY DEF AppendPart, chunkVars, IInv, Caller, TypeOK
<1>3. out'[c] # "absent" /\ \A d \in Piece : out'[d] = "right" => part[d] = "right"
  BY <1>1, <1>2
<1>4. Unwritten' # Piece /\ UNCHANGED Got
  BY <1>2, <1>3 DEF Unwritten, Got
<1>5. Written' \in {"partial", "whole"} /\ (Written' = "whole" => Got = Piece)
  BY <1>3, <1>4 DEF Written, HashMatches, Got
<1>. QED
  BY <1>2, <1>4, <1>5 DEF Abstract!Write, Got, Written

\* The caller's steps are steps of the promise.
LEMMA CallerRefines ==
  ASSUME IInv, BytesTrusted, CallerStep
  PROVE  [Abstract!Next]_(Abstract!vars)
<1>0. Caller /\ 0 \in Piece
  BY Numbers DEF IInv
<1>b. UNCHANGED <<part, out, result>> => UNCHANGED Abstract!vars
  BY DEF Abstract!vars, Unwritten, HashMatches
<1> USE <1>0, <1>b, ErrorsFail DEF chunkVars, mainVars
<1>1. CASE Probe
  BY <1>1 DEF Probe, ReturnError
<1>2. CASE Start
  BY <1>2 DEF Start
<1>3. CASE Wait
  BY <1>3 DEF Wait, ReturnError
<1>4. CASE AppendPart
  BY <1>4, AppendWrites DEF Abstract!Next
<1>5. CASE AppendFails
  BY <1>5 DEF AppendFails, ReturnError
<1>6. CASE VerifyAndReturn
  <2>1. CASE Rejected
    BY <1>6, <2>1 DEF VerifyAndReturn
  <2>2. CASE ~Rejected
    <3>1. HashMatches /\ Unwritten = {}
      BY <1>6, <2>2, VerifiedIsFile DEF VerifyAndReturn
    <3>2. UNCHANGED <<part, out>> /\ result = "none" /\ result' = "ok"
      BY <1>6, <2>2 DEF VerifyAndReturn, Caller
    <3>3. Written = "whole" /\ UNCHANGED <<Got, Written>>
      BY <3>1, <3>2 DEF Got, Written, Unwritten, HashMatches
    <3>. QED
      BY <3>2, <3>3 DEF Abstract!Next, Abstract!Succeed, Got, Written
  <2>. QED
    BY <2>1, <2>2
<1>7. CASE Cancel
  BY <1>7 DEF Cancel
<1>. QED
  BY <1>1, <1>2, <1>3, <1>4, <1>5, <1>6, <1>7 DEF CallerStep, MainStep

\* Every step of the engine is a step of the promise or a stutter, where the
\* bytes are trusted or hashed (engine.go:89-300).
LEMMA RefinementStep ==
  ASSUME IInv, BytesTrusted, [Next]_vars
  PROVE  [Abstract!Next]_(Abstract!vars)
<1>1. ASSUME NEW c \in Piece, ChunkStep(c) PROVE Abstract!Next
  BY <1>1, ChunkCollects DEF Abstract!Next
<1>2. CASE CallerStep
  BY <1>2, CallerRefines
<1>3. CASE UNCHANGED vars
  BY <1>3 DEF vars, chunkVars, mainVars, Abstract!vars, Unwritten, HashMatches
<1>. QED
  BY <1>1, <1>2, <1>3 DEF Next, CallerStep

\* Download implements the promise whenever its sources' bytes can be trusted
\* or are hashed: it returns nil only with the whole file, never with a part
\* file that a failed attempt left short.
THEOREM Implementation == ASSUME BytesTrusted PROVE Spec => ImplementsDownload
<1>1. Init => Abstract!Init
  BY RefinementInit
<1>2. IInv /\ [Next]_vars => [Abstract!Next]_(Abstract!vars)
  BY RefinementStep
<1>. QED
  BY <1>1, <1>2, Invariance, PTL DEF Spec, ImplementsDownload, Abstract!Spec
=============================================================================
