-------------------------- MODULE QueueEngineProofs --------------------------
(***************************************************************************)
(* Theorems about QueueEngine, for every number of workers, pieces and     *)
(* attempts and all faults.  The inductive invariant has five parts: the   *)
(* types; what a worker knows of its piece at each point of its loop, and  *)
(* how many results its race still has; that no two workers hold a piece;  *)
(* what has become of a piece that left the channel; and what the caller   *)
(* knows when it goes on.  Two more, on the output and on what is stored   *)
(* when no source sends other bytes, are needed for the refinement.        *)
(***************************************************************************)
EXTENDS QueueEngine, FiniteSetTheorems, TLAPS

\* Where a worker has a piece in its hands.
Holding == {"check", "lookup", "race", "write", "put", "direct", "copy", "share",
            "count", "fail"}

\* What a goroutine of a race still has to send.
Owed(w, racer) == IF racer \in racers[w] THEN 1 ELSE 0

\* A race has two results in all: received, in the channel or still to come.
RaceOf(w) ==
  /\ pc[w] # "race" => racers[w] = {} /\ resultCh[w] = <<>> /\ heard[w] = 0
  /\ Len(resultCh[w]) + Owed(w, "peer") + Owed(w, "origin") + heard[w] <= 2

\* What a worker knows of its piece at each point of its loop.
TaskOf(w) ==
  /\ pc[w] \in Holding <=> piece[w] # -1
  /\ piece[w] < head
  /\ pc[w] \notin {"idle", "exited"} => main = "wait"
  /\ pc[w] = "check" => part[piece[w]] = "absent"
  /\ pc[w] \in {"lookup", "race", "write", "direct", "copy"} => ~Fetched(piece[w])
  /\ pc[w] \in {"put", "share", "count"} => Fetched(piece[w])
  /\ pc[w] = "write" => winner[w] # "absent"
  /\ piece[w] # -1 /\ pc[w] # "count" => shared[piece[w]] = "absent"
  /\ pc[w] = "fail" => tries[piece[w]] = MaxRetries + 1
  /\ piece[w] # -1 /\ pc[w] # "fail" => tries[piece[w]] <= MaxRetries

Exclusive == \A v, w \in Worker : piece[v] = piece[w] /\ piece[w] # -1 => v = w

\* A piece in the channel is untouched; one that left it is held, or it is
\* fetched, or something went wrong; a shared one is the part file.
PieceOf(p) ==
  /\ p >= head => /\ tries[p] = 0 /\ shared[p] = "absent" /\ part[p] # "cut"
                  /\ main \in {"probe", "get", "read", "pool", "wait"} => part[p] = "absent"
  /\ p < head /\ (\A w \in Worker : piece[w] # p)
       => Fetched(p) \/ failed \/ (ctxDone /\ part[p] = "absent")
  /\ shared[p] # "absent" => part[p] = shared[p]

\* The caller's side: nothing has left the channel before the pool starts, and
\* an error is the error of a piece.
Caller ==
  /\ main \in {"probe", "get", "read", "copy", "pool"} => head = 0
  /\ main # "done" => result = "none"
  /\ failed => \E p \in Piece : tries[p] = MaxRetries + 1
  /\ main \in {"probe", "get", "read", "copy", "pool", "assemble", "verify"} => ~failed

Tasks == \A w \in Worker : RaceOf(w) /\ TaskOf(w)
Pieces == \A p \in Piece : PieceOf(p)
IInv == TypeOK /\ Tasks /\ Exclusive /\ Pieces /\ Caller

\* The steps of a worker and its race.
Moves(w) == WorkerStep(w) \/ PeerAnswers(w) \/ OriginAnswers(w)

\* There are pieces, and attempts beyond the first.
LEMMA Numbers == N \in Nat \ {0} /\ MaxRetries \in Nat \ {0}
  BY SizesAssumption

\* Whoever answers sends a body or an error.
LEMMA BodyTypes ==
  /\ OriginBodies \subseteq Body /\ PeerBodies \subseteq Body
  /\ PeerResults \subseteq Body \cup {"error"}
  /\ OriginResults \subseteq Body \cup {"error"}
<1>1. OriginBodies \subseteq Body /\ PeerBodies \subseteq Body
  BY DEF OriginBodies, PeerBodies, WholeBody, Body
<1>. QED
  BY <1>1 DEF PeerResults, OriginResults

\* A worker that holds a piece holds one of the file's.
LEMMA HeldPiece ==
  ASSUME TypeOK, NEW w \in Worker, TaskOf(w), pc[w] \in Holding
  PROVE  piece[w] \in Piece /\ piece[w] < head
  BY Numbers DEF TypeOK, WorkerType, TaskOf, Piece

\* A race is on only where its worker waits for it.
LEMMA RacersWait ==
  ASSUME NEW w \in Worker, RaceOf(w), PeerAnswers(w) \/ OriginAnswers(w)
  PROVE  pc[w] = "race"
  BY DEF RaceOf, PeerAnswers, OriginAnswers, Answer
-----------------------------------------------------------------------------
(* One worker's step.  It leaves the other workers alone, and every piece    *)
(* but the one it holds.                                                     *)

Same(v) ==
  /\ pc'[v] = pc[v] /\ piece'[v] = piece[v] /\ racers'[v] = racers[v]
  /\ resultCh'[v] = resultCh[v] /\ heard'[v] = heard[v] /\ winner'[v] = winner[v]
SameFiles(p) == part'[p] = part[p] /\ shared'[p] = shared[p] /\ tries'[p] = tries[p]

\* A step of w in the running pool that leaves all the rest alone.
Local(w) ==
  /\ \A v \in Worker \ {w} : Same(v)
  /\ \A p \in Piece \ {piece[w]} : SameFiles(p)
  /\ head' = head \/ (pc[w] = "take" /\ head < N /\ head' = head + 1 /\ piece'[w] = head)
  /\ raised \subseteq raised'
  /\ main = "wait" /\ UNCHANGED mainVars

\* Every step of a worker or of its race is of this kind.
LEMMA StepsAreLocal ==
  ASSUME TypeOK, NEW w \in Worker, RaceOf(w), TaskOf(w), Moves(w)
  PROVE  Local(w)
<1> USE DEF Local, Same, SameFiles, TypeOK, DiskType, WorkerType, Goto, TaskOf, diskVars,
        raceVars, mainVars
<1>1. CASE Take(w)
  BY <1>1 DEF Take
<1>2. CASE CheckCancel(w)
  BY <1>2 DEF CheckCancel
<1>3. CASE Lookup(w)
  BY <1>3 DEF Lookup
<1>4. CASE Win(w)
  BY <1>4 DEF Win, EndRace
<1>5. CASE HearError(w)
  BY <1>5 DEF HearError, EndRace, BothFailed
<1>6. CASE WriteWinner(w)
  BY <1>6 DEF WriteWinner
<1>7. CASE PutWinner(w)
  BY <1>7 DEF PutWinner, Put, AfterPut
<1>8. CASE Request(w)
  BY <1>8 DEF Request
<1>9. CASE Copy(w)
  BY <1>9 DEF Copy
<1>10. CASE AttemptFails(w)
  BY <1>10 DEF AttemptFails, Exhausted
<1>11. CASE Share(w)
  BY <1>11 DEF Share, Put
<1>12. CASE Count(w)
  BY <1>12 DEF Count
<1>13. CASE Fail(w)
  BY <1>13 DEF Fail, FailRaises
<1>14. CASE PeerAnswers(w)
  BY <1>14 DEF PeerAnswers, Answer, RaceOf
<1>15. CASE OriginAnswers(w)
  BY <1>15 DEF OriginAnswers, Answer, RaceOf
<1>. QED
  BY <1>1, <1>2, <1>3, <1>4, <1>5, <1>6, <1>7, <1>8, <1>9, <1>10, <1>11, <1>12, <1>13,
     <1>14, <1>15 DEF WorkerStep, Moves

\* The files a worker's step changes keep their types.
LEMMA MovesDisk ==
  ASSUME TypeOK, NEW w \in Worker, RaceOf(w), TaskOf(w), Moves(w)
  PROVE  DiskType'
<1>0. /\ pc[w] \in Holding => piece[w] \in Piece
      /\ winner[w] \in Body \cup {"absent"} /\ DiskType
  BY HeldPiece DEF TypeOK, WorkerType
<1> USE <1>0, Numbers, BodyTypes DEF DiskType, TaskOf, Fetched, Body, Holding, diskVars
<1>1. CASE Take(w)
  BY <1>1 DEF Take
<1>2. CASE CheckCancel(w)
  BY <1>2 DEF CheckCancel
<1>3. CASE Lookup(w)
  BY <1>3 DEF Lookup
<1>4. CASE Win(w)
  BY <1>4 DEF Win, EndRace
<1>5. CASE HearError(w)
  BY <1>5 DEF HearError, EndRace, BothFailed
<1>6. CASE WriteWinner(w)
  BY <1>6 DEF WriteWinner
<1>7. CASE PutWinner(w)
  BY <1>7 DEF PutWinner, Put, AfterPut
<1>8. CASE Request(w)
  BY <1>8 DEF Request
<1>9. CASE Copy(w)
  BY <1>9 DEF Copy
<1>10. CASE AttemptFails(w)
  BY <1>10 DEF AttemptFails, Exhausted
<1>11. CASE Share(w)
  BY <1>11 DEF Share, Put
<1>12. CASE Count(w)
  BY <1>12 DEF Count
<1>13. CASE Fail(w)
  BY <1>13 DEF Fail, FailRaises
<1>14. CASE PeerAnswers(w)
  BY <1>14 DEF PeerAnswers, Answer
<1>15. CASE OriginAnswers(w)
  BY <1>15 DEF OriginAnswers, Answer
<1>. QED
  BY <1>1, <1>2, <1>3, <1>4, <1>5, <1>6, <1>7, <1>8, <1>9, <1>10, <1>11, <1>12, <1>13,
     <1>14, <1>15 DEF WorkerStep, Moves

\* The place of a worker in its loop.
LoopType ==
  /\ pc \in [Worker -> WorkerLabels]
  /\ piece \in [Worker -> -1 .. N - 1]
  /\ winner \in [Worker -> Body \cup {"absent"}]

\* It stays one of the loop's, with a piece of the file.
LEMMA MovesLoop ==
  ASSUME TypeOK, NEW w \in Worker, RaceOf(w), TaskOf(w), Moves(w)
  PROVE  LoopType'
<1>0. LoopType /\ head \in 0 .. N
  BY DEF TypeOK, WorkerType, DiskType, LoopType
<1> USE <1>0, Numbers DEF LoopType, WorkerLabels, Goto, raceVars
<1>1. CASE Take(w)
  BY <1>1 DEF Take
<1>2. CASE CheckCancel(w)
  BY <1>2 DEF CheckCancel
<1>3. CASE Lookup(w)
  BY <1>3 DEF Lookup
<1>4. CASE Win(w)
  <2>1. resultCh[w] \in Seq(Body \cup {"error"})
    BY DEF TypeOK, WorkerType
  <2>2. Head(resultCh[w]) \in Body
    BY <1>4, <2>1 DEF Win
  <2>. QED
    BY <1>4, <2>2 DEF Win
<1>5. CASE HearError(w)
  BY <1>5 DEF HearError, EndRace, BothFailed
<1>6. CASE WriteWinner(w)
  BY <1>6 DEF WriteWinner
<1>7. CASE PutWinner(w)
  BY <1>7 DEF PutWinner, Put, AfterPut
<1>8. CASE Request(w)
  BY <1>8 DEF Request
<1>9. CASE Copy(w)
  BY <1>9 DEF Copy
<1>10. CASE AttemptFails(w)
  BY <1>10 DEF AttemptFails, Exhausted
<1>11. CASE Share(w)
  BY <1>11 DEF Share, Put
<1>12. CASE Count(w)
  BY <1>12 DEF Count
<1>13. CASE Fail(w)
  BY <1>13 DEF Fail, FailRaises
<1>14. CASE PeerAnswers(w)
  BY <1>14 DEF PeerAnswers, Answer
<1>15. CASE OriginAnswers(w)
  BY <1>15 DEF OriginAnswers, Answer
<1>. QED
  BY <1>1, <1>2, <1>3, <1>4, <1>5, <1>6, <1>7, <1>8, <1>9, <1>10, <1>11, <1>12, <1>13,
     <1>14, <1>15 DEF WorkerStep, Moves

\* A worker's race.
RaceType ==
  /\ racers \in [Worker -> SUBSET {"peer", "origin"}]
  /\ resultCh \in [Worker -> Seq(Body \cup {"error"})]
  /\ heard \in [Worker -> 0 .. 1]

\* It never has more than two results, still to come or received.
LEMMA MovesRace ==
  ASSUME TypeOK, NEW w \in Worker, RaceOf(w), TaskOf(w), Moves(w)
  PROVE  RaceType' /\ RaceOf(w)'
<1>0. RaceType /\ pc \in [Worker -> WorkerLabels]
  BY DEF TypeOK, WorkerType, RaceType
<1>a. /\ resultCh[w] \in Seq(Body \cup {"error"}) /\ heard[w] \in 0 .. 1
      /\ racers[w] \subseteq {"peer", "origin"}
  BY <1>0 DEF RaceType
<1> USE <1>0 DEF RaceType, RaceOf, Owed, Goto, raceVars
<1>1. CASE Take(w)
  BY <1>1 DEF Take
<1>2. CASE CheckCancel(w)
  BY <1>2 DEF CheckCancel
<1>3. CASE Lookup(w)
  <2>1. CASE UNCHANGED racers
    BY <1>3, <2>1 DEF Lookup, WorkerLabels
  <2>2. CASE racers' = [racers EXCEPT ![w] = {"peer", "origin"}]
    <3>1. /\ resultCh[w] = <<>> /\ heard[w] = 0 /\ UNCHANGED <<resultCh, heard>>
          /\ racers'[w] = {"peer", "origin"} /\ RaceType' /\ pc'[w] \in {"direct", "race"}
          /\ pc'[w] = "race"
      BY <1>3, <2>2 DEF Lookup, WorkerLabels
    <3>2. Len(resultCh'[w]) = 0
      BY <3>1
    <3>. QED
      BY <3>1, <3>2
  <2>. QED
    BY <1>3, <2>1, <2>2 DEF Lookup
<1>4. CASE Win(w)
  BY <1>4 DEF Win, EndRace, WorkerLabels
<1>5. CASE HearError(w)
  <2>1. CASE heard[w] = 1
    <3>1. EndRace(w) /\ Goto(w, "direct")
      BY <1>5, <2>1 DEF HearError, BothFailed
    <3>. QED
      BY <3>1 DEF EndRace, WorkerLabels
  <2>2. CASE heard[w] # 1
    <3>1. /\ UNCHANGED <<racers, pc>> /\ pc[w] = "race" /\ heard[w] = 0
          /\ heard' = [heard EXCEPT ![w] = @ + 1]
          /\ resultCh' = [resultCh EXCEPT ![w] = Tail(@)] /\ resultCh[w] # <<>>
      BY <1>5, <1>a, <2>2 DEF HearError, BothFailed
    <3>2. /\ Tail(resultCh[w]) \in Seq(Body \cup {"error"})
          /\ Len(Tail(resultCh[w])) = Len(resultCh[w]) - 1
      BY <1>a, <3>1
    <3>3. resultCh'[w] = Tail(resultCh[w]) /\ heard'[w] = 1 /\ RaceType'
      BY <3>1, <3>2
    <3>4. Owed(w, "peer")' = Owed(w, "peer") /\ Owed(w, "origin")' = Owed(w, "origin")
      BY <3>1
    <3>5. Owed(w, "peer") \in Int /\ Owed(w, "origin") \in Int /\ Len(resultCh[w]) \in Int
      BY <1>a
    <3> HIDE DEF Owed
    <3>6. Len(resultCh'[w]) + Owed(w, "peer")' + Owed(w, "origin")' + heard'[w] <= 2
      <4>1. \A a, b, c \in Int : a + b + c + 0 <= 2 => (a - 1) + b + c + 1 <= 2
        OBVIOUS
      <4>2. Len(resultCh[w]) + Owed(w, "peer") + Owed(w, "origin") + 0 <= 2
        BY <3>1
      <4>. QED
        BY <3>2, <3>3, <3>4, <3>5, <4>1, <4>2
    <3>. QED
      BY <3>1, <3>3, <3>6
  <2>. QED
    BY <2>1, <2>2
<1>6. CASE WriteWinner(w)
  BY <1>6 DEF WriteWinner
<1>7. CASE PutWinner(w)
  BY <1>7 DEF PutWinner, Put, AfterPut
<1>8. CASE Request(w)
  BY <1>8 DEF Request
<1>9. CASE Copy(w)
  BY <1>9 DEF Copy
<1>10. CASE AttemptFails(w)
  BY <1>10 DEF AttemptFails, Exhausted
<1>11. CASE Share(w)
  BY <1>11 DEF Share, Put
<1>12. CASE Count(w)
  BY <1>12 DEF Count
<1>13. CASE Fail(w)
  BY <1>13 DEF Fail, FailRaises
<1>14. CASE PeerAnswers(w)
  <2>1. PICK r \in Body \cup {"error"} :
          \/ resultCh' = [resultCh EXCEPT ![w] = Append(@, r)]
          \/ UNCHANGED resultCh
    BY <1>14, BodyTypes DEF PeerAnswers, Answer
  <2>2. pc[w] = "race" /\ UNCHANGED <<pc, heard>> /\ "peer" \in racers[w]
        /\ racers' = [racers EXCEPT ![w] = @ \ {"peer"}]
    BY <1>14, RacersWait DEF PeerAnswers, Answer
  <2>3. /\ resultCh' \in [Worker -> Seq(Body \cup {"error"})]
        /\ Len(resultCh'[w]) <= Len(resultCh[w]) + 1
    <3>1. CASE UNCHANGED resultCh
      BY <1>a, <3>1
    <3>2. CASE resultCh' = [resultCh EXCEPT ![w] = Append(@, r)]
      <4>1. Append(resultCh[w], r) \in Seq(Body \cup {"error"})
        BY <1>a
      <4>2. Len(Append(resultCh[w], r)) = Len(resultCh[w]) + 1
        BY <1>a
      <4>. QED
        BY <3>2, <4>1, <4>2
    <3>. QED
      BY <2>1, <3>1, <3>2
  <2>6. RaceType'
    BY <2>2, <2>3
  <2>4. /\ Owed(w, "peer")' = 0 /\ Owed(w, "peer") = 1
        /\ Owed(w, "origin")' = Owed(w, "origin")
    BY <2>2
  <2>5. UNCHANGED heard /\ pc'[w] = "race"
    BY <2>2
  <2>. QED
    BY <1>a, <2>2, <2>3, <2>4, <2>5, <2>6
<1>15. CASE OriginAnswers(w)
  <2>1. PICK r \in Body \cup {"error"} :
          \/ resultCh' = [resultCh EXCEPT ![w] = Append(@, r)]
          \/ UNCHANGED resultCh
    BY <1>15, BodyTypes DEF OriginAnswers, Answer
  <2>2. pc[w] = "race" /\ UNCHANGED <<pc, heard>> /\ "origin" \in racers[w]
        /\ racers' = [racers EXCEPT ![w] = @ \ {"origin"}]
    BY <1>15, RacersWait DEF OriginAnswers, Answer
  <2>3. /\ resultCh' \in [Worker -> Seq(Body \cup {"error"})]
        /\ Len(resultCh'[w]) <= Len(resultCh[w]) + 1
    <3>1. CASE UNCHANGED resultCh
      BY <1>a, <3>1
    <3>2. CASE resultCh' = [resultCh EXCEPT ![w] = Append(@, r)]
      <4>1. Append(resultCh[w], r) \in Seq(Body \cup {"error"})
        BY <1>a
      <4>2. Len(Append(resultCh[w], r)) = Len(resultCh[w]) + 1
        BY <1>a
      <4>. QED
        BY <3>2, <4>1, <4>2
    <3>. QED
      BY <2>1, <3>1, <3>2
  <2>6. RaceType'
    BY <2>2, <2>3
  <2>4. /\ Owed(w, "origin")' = 0 /\ Owed(w, "origin") = 1
        /\ Owed(w, "peer")' = Owed(w, "peer")
    BY <2>2
  <2>5. UNCHANGED heard /\ pc'[w] = "race"
    BY <2>2
  <2>. QED
    BY <1>a, <2>2, <2>3, <2>4, <2>5, <2>6
<1>. QED
  BY <1>1, <1>2, <1>3, <1>4, <1>5, <1>6, <1>7, <1>8, <1>9, <1>10, <1>11, <1>12, <1>13,
     <1>14, <1>15 DEF WorkerStep, Moves

\* A worker's step keeps all types.
LEMMA MovesTyped ==
  ASSUME TypeOK, Tasks, NEW w \in Worker, Moves(w)
  PROVE  TypeOK' /\ RaceOf(w)'
<1>1. RaceOf(w) /\ TaskOf(w)
  BY DEF Tasks
<1>2. DiskType' /\ LoopType' /\ RaceType' /\ RaceOf(w)'
  BY <1>1, MovesDisk, MovesLoop, MovesRace
<1>3. MainType'
  BY <1>1, StepsAreLocal DEF Local, TypeOK, MainType, mainVars
<1>4. \A v \in Worker : Len(resultCh'[v]) <= 2
  <2>1. Len(resultCh'[w]) <= 2
    <3>1. resultCh'[w] \in Seq(Body \cup {"error"}) /\ heard'[w] \in 0 .. 1
      BY <1>2 DEF RaceType
    <3>2. /\ Owed(w, "peer")' \in 0 .. 1 /\ Owed(w, "origin")' \in 0 .. 1
          /\ Len(resultCh'[w]) \in Nat
      BY <3>1 DEF Owed
    <3>3. Len(resultCh'[w]) + Owed(w, "peer")' + Owed(w, "origin")' + heard'[w] <= 2
      BY <1>2 DEF RaceOf
    <3>4. \A a \in Nat, b, c, d \in 0 .. 1 : a + b + c + d <= 2 => a <= 2
      OBVIOUS
    <3>. QED
      BY <3>1, <3>2, <3>3, <3>4
  <2>2. \A v \in Worker \ {w} : resultCh'[v] = resultCh[v]
    BY <1>1, StepsAreLocal DEF Local, Same
  <2>. QED
    BY <2>1, <2>2 DEF TypeOK, WorkerType
<1>. QED
  BY <1>2, <1>3, <1>4 DEF TypeOK, WorkerType, LoopType, RaceType

\* A worker keeps its own account of its piece.
LEMMA OwnTask ==
  ASSUME TypeOK, NEW w \in Worker, RaceOf(w), TaskOf(w), Pieces, Moves(w)
  PROVE  TaskOf(w)'
<1>0. pc[w] \in Holding => piece[w] \in Piece /\ piece[w] < head
  BY HeldPiece
<1>a. /\ pc \in [Worker -> WorkerLabels] /\ piece \in [Worker -> -1 .. N - 1]
      /\ winner[w] \in Body \cup {"absent"} /\ winner \in [Worker -> Body \cup {"absent"}]
      /\ head \in 0 .. N /\ part \in [Piece -> Body \cup {"absent", "cut"}]
      /\ shared \in [Piece -> Body \cup {"absent"}] /\ tries \in [Piece -> 0 .. MaxRetries + 1]
  BY DEF TypeOK, DiskType, WorkerType
<1> USE <1>0, <1>a, Numbers, BodyTypes DEF WorkerLabels, Goto, TaskOf, Holding, Fetched, Body,
        diskVars, raceVars, mainVars
<1>1. CASE Take(w)
  <2>1. CASE head < N
    <3>1. head \in Piece /\ PieceOf(head) /\ main = "wait"
      BY <1>1, <2>1 DEF Take, Pieces, Piece
    <3>2. part[head] = "absent" /\ shared[head] = "absent" /\ tries[head] = 0
      BY <3>1 DEF PieceOf
    <3>. QED
      BY <1>1, <2>1, <3>1, <3>2 DEF Take
  <2>2. CASE ~(head < N)
    BY <1>1, <2>2 DEF Take
  <2>. QED
    BY <2>1, <2>2
<1>2. CASE CheckCancel(w)
  BY <1>2 DEF CheckCancel
<1>3. CASE Lookup(w)
  BY <1>3 DEF Lookup
<1>4. CASE Win(w)
  <2>1. pc'[w] = "write" /\ winner'[w] = Head(resultCh[w]) /\ pc[w] = "race"
        /\ UNCHANGED <<head, part, shared, tries, piece, main>>
    BY <1>4 DEF Win, EndRace
  <2>2. winner'[w] # "absent"
    <3>1. /\ resultCh[w] \in Seq(Body \cup {"error"}) /\ resultCh[w] # <<>>
          /\ Head(resultCh[w]) # "error"
      BY <1>4 DEF Win, TypeOK, WorkerType
    <3>2. Head(resultCh[w]) \in Body
      <4> HIDE DEF Body
      <4>. QED
        BY <3>1
    <3>. QED
      BY <2>1, <3>2
  <2>. QED
    BY <2>1, <2>2
<1>5. CASE HearError(w)
  <2>1. /\ pc[w] = "race" /\ pc'[w] \in {"race", "direct"}
        /\ UNCHANGED <<head, part, shared, tries, piece, main, winner>>
    BY <1>5 DEF HearError
  <2>. QED
    BY <2>1
<1>6. CASE WriteWinner(w)
  BY <1>6 DEF WriteWinner
<1>7. CASE PutWinner(w)
  BY <1>7 DEF PutWinner, Put, AfterPut
<1>8. CASE Request(w)
  BY <1>8 DEF Request
<1>9. CASE Copy(w)
  BY <1>9 DEF Copy
<1>10. CASE AttemptFails(w)
  BY <1>10 DEF AttemptFails, Exhausted
<1>11. CASE Share(w)
  BY <1>11 DEF Share, Put
<1>12. CASE Count(w)
  BY <1>12 DEF Count
<1>13. CASE Fail(w)
  BY <1>13 DEF Fail, FailRaises
<1>14. CASE PeerAnswers(w)
  <2>1. UNCHANGED <<head, part, shared, tries, piece, main, pc, winner>>
    BY <1>14 DEF PeerAnswers, Answer
  <2>. QED
    BY <2>1
<1>15. CASE OriginAnswers(w)
  <2>1. UNCHANGED <<head, part, shared, tries, piece, main, pc, winner>>
    BY <1>15 DEF OriginAnswers, Answer
  <2>. QED
    BY <2>1
<1>. QED
  BY <1>1, <1>2, <1>3, <1>4, <1>5, <1>6, <1>7, <1>8, <1>9, <1>10, <1>11, <1>12, <1>13,
     <1>14, <1>15 DEF WorkerStep, Moves

\* The others' accounts stand.
LEMMA OthersTasks ==
  ASSUME TypeOK, Tasks, Exclusive, NEW w \in Worker, Moves(w), NEW v \in Worker, v # w
  PROVE  RaceOf(v)' /\ TaskOf(v)'
<1>1. RaceOf(v) /\ TaskOf(v) /\ Same(v) /\ Local(w)
  BY StepsAreLocal DEF Tasks, Local
<1>2. RaceOf(v)'
  BY <1>1 DEF RaceOf, Same, Owed
<1>3. piece[v] # -1 => piece[v] \in Piece \ {piece[w]}
  BY Numbers DEF Exclusive, TypeOK, WorkerType, Piece
<1>4. piece[v] # -1 => SameFiles(piece[v])
  BY <1>1, <1>3 DEF Local
<1>5. head <= head' /\ head \in Nat /\ head' \in Nat /\ piece[v] \in Int /\ UNCHANGED main
  BY <1>1 DEF Local, TypeOK, DiskType, WorkerType, mainVars
<1>6. TaskOf(v)'
  <2>1. CASE piece[v] = -1
    <3>1. pc[v] \notin Holding /\ pc'[v] = pc[v] /\ piece'[v] = -1
      BY <1>1, <2>1 DEF TaskOf, Same
    <3>2. piece'[v] < head' /\ (pc'[v] \notin {"idle", "exited"} => main' = "wait")
      BY <1>1, <1>5, <3>1 DEF TaskOf, Same
    <3>. QED
      BY <3>1, <3>2 DEF TaskOf, Holding
  <2>2. CASE piece[v] # -1
    <3>1. /\ pc'[v] = pc[v] /\ piece'[v] = piece[v] /\ winner'[v] = winner[v]
          /\ main' = main
          /\ part'[piece[v]] = part[piece[v]] /\ shared'[piece[v]] = shared[piece[v]]
          /\ tries'[piece[v]] = tries[piece[v]]
      BY <1>1, <1>4, <1>5, <2>2 DEF Same, SameFiles
    <3>2. piece'[v] < head'
      BY <1>1, <1>5, <3>1 DEF TaskOf, DiskType, Local, TypeOK
    <3>. QED
      BY <1>1, <3>1, <3>2 DEF TaskOf, Fetched
  <2>. QED
    BY <2>1, <2>2
<1>. QED
  BY <1>2, <1>6

\* No piece is handed to two workers (queue.go:204).
LEMMA MovesExclusive ==
  ASSUME TypeOK, Tasks, Exclusive, NEW w \in Worker, Moves(w)
  PROVE  Exclusive'
<1>1. TaskOf(w) /\ RaceOf(w) /\ Local(w)
  BY StepsAreLocal DEF Tasks
<1>2. piece'[w] \in {piece[w], -1} \/ (piece'[w] = head /\ pc[w] = "take")
  <2> USE DEF TypeOK, WorkerType, raceVars
  <2>1. CASE Take(w)
    BY <2>1 DEF Take
  <2>2. CASE CheckCancel(w)
    BY <2>2 DEF CheckCancel
  <2>3. CASE Lookup(w)
    BY <2>3 DEF Lookup
  <2>4. CASE Win(w)
    BY <2>4 DEF Win, EndRace
  <2>5. CASE HearError(w)
    BY <2>5 DEF HearError, EndRace, BothFailed
  <2>6. CASE WriteWinner(w)
    BY <2>6 DEF WriteWinner
  <2>7. CASE PutWinner(w)
    BY <2>7 DEF PutWinner, Put, AfterPut
  <2>8. CASE Request(w)
    BY <2>8 DEF Request
  <2>9. CASE Copy(w)
    BY <2>9 DEF Copy
  <2>10. CASE AttemptFails(w)
    BY <2>10 DEF AttemptFails, Exhausted
  <2>11. CASE Share(w)
    BY <2>11 DEF Share, Put
  <2>12. CASE Count(w)
    BY <2>12 DEF Count
  <2>13. CASE Fail(w)
    BY <2>13 DEF Fail, FailRaises
  <2>14. CASE PeerAnswers(w)
    BY <2>14 DEF PeerAnswers, Answer
  <2>15. CASE OriginAnswers(w)
    BY <2>15 DEF OriginAnswers, Answer
  <2>. QED
    BY <2>1, <2>2, <2>3, <2>4, <2>5, <2>6, <2>7, <2>8, <2>9, <2>10, <2>11, <2>12, <2>13,
       <2>14, <2>15 DEF WorkerStep, Moves
<1>3. \A v \in Worker : piece[v] < head
  BY DEF Tasks, TaskOf
<1>4. head \in Int /\ \A v \in Worker : piece[v] \in Int
  BY DEF TypeOK, DiskType, WorkerType
<1>5. \A v \in Worker \ {w} : piece'[v] = piece[v]
  BY <1>1 DEF Local, Same
<1>. QED
  BY <1>2, <1>3, <1>4, <1>5 DEF Exclusive

\* What the step does to the piece the worker holds: a shared piece is what
\* the part file holds, and whoever lets go of a piece has a reason.
LEMMA OwnPiece ==
  ASSUME TypeOK, NEW w \in Worker, RaceOf(w), TaskOf(w), Moves(w),
         NEW p \in Piece, piece[w] = p, PieceOf(p)
  PROVE  /\ shared'[p] # "absent" => part'[p] = shared'[p]
         /\ piece'[w] = p \/ Fetched(p)' \/ failed' \/ (ctxDone' /\ part'[p] = "absent")
<1>0. pc[w] \in Holding /\ p # -1 /\ p \in Int
  BY Numbers DEF TaskOf, Piece
<1>a. /\ part \in [Piece -> Body \cup {"absent", "cut"}]
      /\ piece \in [Worker -> -1 .. N - 1]
      /\ shared \in [Piece -> Body \cup {"absent"}]
  BY DEF TypeOK, DiskType, WorkerType
<1>b. /\ shared[p] # "absent" => part[p] = shared[p]
      /\ pc[w] # "count" => shared[p] = "absent"
      /\ pc[w] = "check" => part[p] = "absent"
      /\ pc[w] \in {"put", "share", "count"} => Fetched(p)
  BY <1>0 DEF PieceOf, TaskOf
<1> USE <1>0, <1>a, <1>b DEF Holding, Fetched, failed, ctxDone, diskVars
<1>1. CASE Take(w)
  BY <1>1 DEF Take
<1>2. CASE CheckCancel(w)
  BY <1>2 DEF CheckCancel
<1>3. CASE Lookup(w)
  BY <1>3 DEF Lookup
<1>4. CASE Win(w)
  BY <1>4 DEF Win, EndRace
<1>5. CASE HearError(w)
  BY <1>5 DEF HearError, EndRace, BothFailed
<1>6. CASE WriteWinner(w)
  BY <1>6 DEF WriteWinner
<1>7. CASE PutWinner(w)
  BY <1>7 DEF PutWinner, Put, AfterPut
<1>8. CASE Request(w)
  BY <1>8 DEF Request
<1>9. CASE Copy(w)
  BY <1>9 DEF Copy
<1>10. CASE AttemptFails(w)
  BY <1>10 DEF AttemptFails, Exhausted
<1>11. CASE Share(w)
  BY <1>11 DEF Share, Put
<1>12. CASE Count(w)
  BY <1>12 DEF Count
<1>13. CASE Fail(w)
  BY <1>13 DEF Fail, FailRaises
<1>14. CASE PeerAnswers(w)
  BY <1>14 DEF PeerAnswers, Answer, RaceOf
<1>15. CASE OriginAnswers(w)
  BY <1>15 DEF OriginAnswers, Answer, RaceOf
<1>. QED
  BY <1>1, <1>2, <1>3, <1>4, <1>5, <1>6, <1>7, <1>8, <1>9, <1>10, <1>11, <1>12, <1>13,
     <1>14, <1>15 DEF WorkerStep, Moves

\* A step that hands a worker's piece on, or not, keeps the account of all
\* pieces (queue.go:204-300).
LEMMA MovesPieces ==
  ASSUME TypeOK, Tasks, Exclusive, Pieces, NEW w \in Worker, Moves(w)
  PROVE  Pieces'
<1>0. RaceOf(w) /\ TaskOf(w) /\ Local(w)
  BY StepsAreLocal DEF Tasks
<1>1. head \in Nat /\ main' = main /\ (failed => failed') /\ (ctxDone => ctxDone')
  BY <1>0 DEF Local, mainVars, TypeOK, DiskType, failed, ctxDone
<1> SUFFICES ASSUME NEW p \in Piece PROVE PieceOf(p)'
  BY DEF Pieces
<1>2. PieceOf(p) /\ p \in Int
  BY Numbers DEF Pieces, Piece
<1>3. CASE p = piece[w]
  <2>1. p < head
    BY <1>0, <1>3 DEF TaskOf
  <2>2. p < head'
    BY <1>0, <1>1, <1>2, <2>1 DEF Local
  <2>3. /\ shared'[p] # "absent" => part'[p] = shared'[p]
        /\ piece'[w] = p \/ Fetched(p)' \/ failed' \/ (ctxDone' /\ part'[p] = "absent")
    BY <1>0, <1>2, <1>3, OwnPiece
  <2>4. head' \in Nat
    BY <1>0, <1>1 DEF Local
  <2>. QED
    BY <1>2, <2>2, <2>3, <2>4 DEF PieceOf
<1>4. CASE p # piece[w]
  <2>1. SameFiles(p)
    BY <1>0, <1>4 DEF Local
  <2>2. p >= head' => p >= head
    BY <1>0, <1>1, <1>2 DEF Local
  <2>3. p < head' /\ (\A v \in Worker : piece'[v] # p)
          => p < head /\ \A v \in Worker : piece[v] # p
    <3> SUFFICES ASSUME p < head', \A v \in Worker : piece'[v] # p
                 PROVE  p < head /\ \A v \in Worker : piece[v] # p
      OBVIOUS
    <3>1. p < head
      BY <1>0, <1>1, <1>2 DEF Local
    <3>2. \A v \in Worker : piece[v] # p
      BY <1>0, <1>4 DEF Local, Same
    <3>. QED
      BY <3>1, <3>2
  <2>. QED
    BY <1>1, <1>2, <2>1, <2>2, <2>3 DEF PieceOf, SameFiles, Fetched
<1>. QED
  BY <1>3, <1>4

\* The error is remembered by a worker whose piece used up its attempts, and
\* nobody counts those attempts again (queue.go:290-297, 425-438).
LEMMA MovesCaller ==
  ASSUME TypeOK, Tasks, Exclusive, Caller, NEW w \in Worker, Moves(w)
  PROVE  Caller'
<1>0. RaceOf(w) /\ TaskOf(w) /\ Local(w)
  BY StepsAreLocal DEF Tasks
<1>1. main = "wait" /\ UNCHANGED <<main, result>>
  BY <1>0 DEF Local, mainVars
<1>2. pc[w] \in Holding => piece[w] \in Piece
  BY <1>0, HeldPiece
<1>3. /\ failed' => failed \/ pc[w] = "fail"
      /\ pc[w] \notin {"direct", "copy"} => UNCHANGED tries
  <2> USE DEF failed
  <2>1. CASE Take(w)
    BY <2>1 DEF Take
  <2>2. CASE CheckCancel(w)
    BY <2>2 DEF CheckCancel
  <2>3. CASE Lookup(w)
    BY <2>3 DEF Lookup
  <2>4. CASE Win(w)
    BY <2>4 DEF Win, EndRace
  <2>5. CASE HearError(w)
    BY <2>5 DEF HearError, EndRace, BothFailed
  <2>6. CASE WriteWinner(w)
    BY <2>6 DEF WriteWinner
  <2>7. CASE PutWinner(w)
    BY <2>7 DEF PutWinner, Put, AfterPut
  <2>8. CASE Request(w)
    BY <2>8 DEF Request
  <2>9. CASE Copy(w)
    BY <2>9 DEF Copy
  <2>10. CASE AttemptFails(w)
    BY <2>10 DEF AttemptFails, Exhausted
  <2>11. CASE Share(w)
    BY <2>11 DEF Share, Put
  <2>12. CASE Count(w)
    BY <2>12 DEF Count
  <2>13. CASE Fail(w)
    BY <2>13 DEF Fail, FailRaises
  <2>14. CASE PeerAnswers(w)
    BY <2>14 DEF PeerAnswers, Answer, RaceOf
  <2>15. CASE OriginAnswers(w)
    BY <2>15 DEF OriginAnswers, Answer, RaceOf
  <2>. QED
    BY <2>1, <2>2, <2>3, <2>4, <2>5, <2>6, <2>7, <2>8, <2>9, <2>10, <2>11, <2>12, <2>13,
       <2>14, <2>15 DEF WorkerStep, Moves
<1>4. failed' => \E p \in Piece : tries'[p] = MaxRetries + 1
  <2> SUFFICES ASSUME failed' PROVE \E p \in Piece : tries'[p] = MaxRetries + 1
    OBVIOUS
  <2>1. CASE pc[w] = "fail"
    <3>1. piece[w] \in Piece /\ tries[piece[w]] = MaxRetries + 1
      BY <1>0, <1>2, <2>1 DEF Holding, TaskOf
    <3>. QED
      BY <1>3, <2>1, <3>1
  <2>2. CASE failed /\ pc[w] # "fail"
    <3>1. PICK p \in Piece : tries[p] = MaxRetries + 1
      BY <2>2 DEF Caller
    <3>2. CASE p # piece[w]
      BY <1>0, <3>1, <3>2 DEF Local, SameFiles
    <3>3. CASE p = piece[w]
      <4>1. p # -1
        BY Numbers DEF Piece
      <4>2. FALSE
        BY <1>0, <2>2, <3>1, <3>3, <4>1, Numbers DEF TaskOf
      <4>. QED
        BY <4>2
    <3>. QED
      BY <3>2, <3>3
  <2>. QED
    BY <1>3, <2>1, <2>2
<1>. QED
  BY <1>1, <1>4 DEF Caller
-----------------------------------------------------------------------------
(* The caller's steps, and its cancel. *)

CallerStep == MainStep \/ Cancel

\* The types of what the caller changes.
LEMMA CallerTyped == ASSUME TypeOK, CallerStep PROVE TypeOK'
<1>0. DiskType /\ WorkerType /\ MainType
  BY DEF TypeOK
<1>a. UNCHANGED <<diskVars, head, tries>> /\ raised' \subseteq {"firstErr", "ctx"}
        => DiskType'
  BY <1>0 DEF DiskType, diskVars
<1>b. UNCHANGED workerVars => WorkerType'
  BY <1>0 DEF WorkerType, workerVars, raceVars
<1>c. raised \subseteq {"firstErr", "ctx"}
  BY <1>0 DEF DiskType
<1> SUFFICES DiskType' /\ WorkerType' /\ MainType'
  BY DEF TypeOK
<1> USE <1>0, <1>a, <1>b, <1>c, BodyTypes DEF MainType, MainLabels
<1>1. CASE Probe
  BY <1>1 DEF Probe, ReturnError
<1>2. CASE SmallCreate
  BY <1>2 DEF SmallCreate
<1>3. CASE SmallRead
  <2>1. MainType' /\ WorkerType'
    BY <1>3 DEF SmallRead
  <2>2. part' \in [Piece -> Body \cup {"absent", "cut"}]
    BY <1>3 DEF SmallRead, Body
  <2>. QED
    BY <1>3, <2>1, <2>2 DEF SmallRead, DiskType
<1>4. CASE SmallWrite
  <2>1. part \in [Piece -> Body \cup {"absent", "cut"}]
    BY DEF DiskType
  <2>. QED
    BY <1>4, <2>1 DEF SmallWrite
<1>5. CASE SmallFails
  BY <1>5 DEF SmallFails, ReturnError
<1>6. CASE StartPool
  <2>1. MainType' /\ DiskType'
    BY <1>6 DEF StartPool
  <2>2. pc' \in [Worker -> WorkerLabels]
    BY <1>6 DEF StartPool, WorkerLabels
  <2>. QED
    BY <1>6, <2>1, <2>2 DEF StartPool, WorkerType, raceVars
<1>7. CASE Wait
  BY <1>7 DEF Wait, ReturnError
<1>8. CASE AppendPart
  <2>1. part \in [Piece -> Body \cup {"absent", "cut"}]
    BY DEF DiskType
  <2>. QED
    BY <1>8, <2>1 DEF AppendPart
<1>9. CASE AppendFails
  BY <1>9 DEF AppendFails, ReturnError
<1>10. CASE Assembled
  BY <1>10 DEF Assembled
<1>11. CASE VerifyAndReturn
  BY <1>11 DEF VerifyAndReturn, ReturnError
<1>12. CASE Cancel
  BY <1>12 DEF Cancel, mainVars
<1>. QED
  BY <1>1, <1>2, <1>3, <1>4, <1>5, <1>6, <1>7, <1>8, <1>9, <1>10, <1>11, <1>12 DEF
     CallerStep, MainStep

\* The caller does not touch the workers' accounts; it starts them once, with
\* nothing in their hands.
LEMMA CallerTasks ==
  ASSUME TypeOK, Tasks, CallerStep
  PROVE  Tasks' /\ (Exclusive => Exclusive')
<1>1. CASE StartPool
  <2>1. \A w \in Worker : pc[w] \in {"idle", "exited"} /\ piece[w] = -1
    <3>1. pc \in [Worker -> WorkerLabels]
      BY DEF TypeOK, WorkerType
    <3>. QED
      BY <1>1, <3>1 DEF StartPool, Tasks, TaskOf, Holding, WorkerLabels
  <2>2. \A w \in Worker : pc'[w] \in {"idle", "take"}
    BY <1>1 DEF StartPool
  <2>3. UNCHANGED <<piece, racers, resultCh, heard, head>> /\ main' = "wait"
    BY <1>1 DEF StartPool, raceVars
  <2>4. \A w \in Worker : RaceOf(w)'
    BY <2>1, <2>2, <2>3 DEF Tasks, RaceOf, Owed
  <2>5. \A w \in Worker : TaskOf(w)'
    BY <2>1, <2>2, <2>3 DEF Tasks, TaskOf, Holding
  <2>. QED
    BY <2>3, <2>4, <2>5 DEF Tasks, Exclusive
<1>2. ASSUME UNCHANGED <<workerVars, head, tries, shared>>,
             \A w \in Worker : pc[w] \notin {"idle", "exited"} => UNCHANGED <<part, main>>
      PROVE  Tasks' /\ (Exclusive => Exclusive')
  <2> USE <1>2 DEF workerVars, raceVars
  <2>1. \A w \in Worker : RaceOf(w)'
    BY DEF Tasks, RaceOf, Owed
  <2>2. ASSUME NEW w \in Worker PROVE TaskOf(w)'
    <3>1. TaskOf(w)
      BY DEF Tasks
    <3>2. CASE pc[w] \in {"idle", "exited"}
      <4>1. piece[w] = -1
        BY <3>1, <3>2 DEF TaskOf, Holding
      <4>. QED
        BY <3>1, <3>2, <4>1 DEF TaskOf, Holding
    <3>3. CASE pc[w] \notin {"idle", "exited"}
      BY <3>1, <3>3 DEF TaskOf, Fetched
    <3>. QED
      BY <3>2, <3>3
  <2>. QED
    BY <2>1, <2>2 DEF Tasks, Exclusive
<1>3. CASE CallerStep /\ ~StartPool
  <2>0. \A w \in Worker : pc[w] \notin {"idle", "exited"} => main = "wait"
    BY DEF Tasks, TaskOf
  <2> SUFFICES /\ UNCHANGED <<workerVars, head, tries, shared>>
               /\ \A w \in Worker : pc[w] \notin {"idle", "exited"} => UNCHANGED <<part, main>>
    BY <1>2
  <2> USE <2>0 DEF diskVars, mainVars
  <2>1. CASE Probe
    BY <2>1 DEF Probe, ReturnError
  <2>2. CASE SmallCreate
    BY <2>2 DEF SmallCreate
  <2>3. CASE SmallRead
    BY <2>3 DEF SmallRead
  <2>4. CASE SmallWrite
    BY <2>4 DEF SmallWrite
  <2>5. CASE SmallFails
    BY <2>5 DEF SmallFails, ReturnError
  <2>6. CASE StartPool
    BY <1>3, <2>6
  <2>7. CASE Wait
    BY <2>7 DEF Wait, ReturnError
  <2>8. CASE AppendPart
    BY <2>8 DEF AppendPart
  <2>9. CASE AppendFails
    BY <2>9 DEF AppendFails, ReturnError
  <2>10. CASE Assembled
    BY <2>10 DEF Assembled
  <2>11. CASE VerifyAndReturn
    BY <2>11 DEF VerifyAndReturn, ReturnError
  <2>12. CASE Cancel
    BY <2>12 DEF Cancel
  <2>. QED
    BY <1>3, <2>1, <2>2, <2>3, <2>4, <2>5, <2>6, <2>7, <2>8, <2>9, <2>10, <2>11, <2>12 DEF
       CallerStep, MainStep
<1>. QED
  BY <1>1, <1>3

\* Nor does it touch a piece that left the channel; a small file's part files
\* are written before there is a pool.
LEMMA CallerPieces ==
  ASSUME TypeOK, Pieces, Caller, CallerStep
  PROVE  Pieces'
<1> SUFFICES ASSUME NEW p \in Piece PROVE PieceOf(p)'
  BY DEF Pieces
<1>0. PieceOf(p) /\ p \in Int /\ p >= 0
  BY DEF Pieces, Piece
<1>a. /\ UNCHANGED <<head, tries, shared, piece>>
      /\ failed => failed'
      /\ ctxDone => ctxDone'
  <2> USE DEF diskVars, workerVars, failed, ctxDone
  <2>1. CASE Probe
    BY <2>1 DEF Probe, ReturnError
  <2>2. CASE SmallCreate
    BY <2>2 DEF SmallCreate
  <2>3. CASE SmallRead
    BY <2>3 DEF SmallRead
  <2>4. CASE SmallWrite
    BY <2>4 DEF SmallWrite
  <2>5. CASE SmallFails
    BY <2>5 DEF SmallFails, ReturnError
  <2>6. CASE StartPool
    BY <2>6 DEF StartPool
  <2>7. CASE Wait
    BY <2>7 DEF Wait, ReturnError
  <2>8. CASE AppendPart
    BY <2>8 DEF AppendPart
  <2>9. CASE AppendFails
    BY <2>9 DEF AppendFails, ReturnError
  <2>10. CASE Assembled
    BY <2>10 DEF Assembled
  <2>11. CASE VerifyAndReturn
    BY <2>11 DEF VerifyAndReturn, ReturnError
  <2>12. CASE Cancel
    BY <2>12 DEF Cancel
  <2>. QED
    BY <2>1, <2>2, <2>3, <2>4, <2>5, <2>6, <2>7, <2>8, <2>9, <2>10, <2>11, <2>12 DEF
       CallerStep, MainStep
<1>b. \/ UNCHANGED part /\ (main' \in {"probe", "get", "read", "pool", "wait"}
                              => main \in {"probe", "get", "read", "pool", "wait"})
      \/ head = 0 /\ main' = "copy" /\ part'[p] # "cut"
  <2> USE DEF diskVars, mainVars
  <2>1. CASE Probe
    BY <2>1 DEF Probe, ReturnError
  <2>2. CASE SmallCreate
    BY <2>2 DEF SmallCreate
  <2>3. CASE SmallRead
    <3>1. head = 0
      BY <2>3 DEF SmallRead, Caller
    <3>2. part'[p] # "cut"
      BY <2>3, BodyTypes DEF SmallRead, Body
    <3>. QED
      BY <2>3, <3>1, <3>2 DEF SmallRead
  <2>4. CASE SmallWrite
    BY <2>4 DEF SmallWrite
  <2>5. CASE SmallFails
    BY <2>5 DEF SmallFails, ReturnError
  <2>6. CASE StartPool
    BY <2>6 DEF StartPool
  <2>7. CASE Wait
    BY <2>7 DEF Wait, ReturnError
  <2>8. CASE AppendPart
    BY <2>8 DEF AppendPart
  <2>9. CASE AppendFails
    BY <2>9 DEF AppendFails, ReturnError
  <2>10. CASE Assembled
    BY <2>10 DEF Assembled
  <2>11. CASE VerifyAndReturn
    BY <2>11 DEF VerifyAndReturn, ReturnError
  <2>12. CASE Cancel
    BY <2>12 DEF Cancel
  <2>. QED
    BY <2>1, <2>2, <2>3, <2>4, <2>5, <2>6, <2>7, <2>8, <2>9, <2>10, <2>11, <2>12 DEF
       CallerStep, MainStep
<1>1. CASE UNCHANGED part
  BY <1>0, <1>a, <1>b, <1>1 DEF PieceOf, Fetched
<1>2. CASE head = 0 /\ main' = "copy" /\ part'[p] # "cut"
  <2>1. p >= head /\ ~(p < head) /\ shared[p] = "absent" /\ tries[p] = 0
    BY <1>0, <1>2 DEF PieceOf
  <2>. QED
    BY <1>a, <1>2, <2>1 DEF PieceOf
<1>. QED
  BY <1>b, <1>1, <1>2

\* The caller goes on to the output only when no worker remembered an error.
LEMMA CallerKept ==
  ASSUME TypeOK, Caller, CallerStep
  PROVE  Caller'
<1>1. UNCHANGED <<tries, head>> /\ (failed' => failed)
  <2> USE DEF diskVars, workerVars, failed
  <2>1. CASE Probe
    BY <2>1 DEF Probe, ReturnError
  <2>2. CASE SmallCreate
    BY <2>2 DEF SmallCreate
  <2>3. CASE SmallRead
    BY <2>3 DEF SmallRead
  <2>4. CASE SmallWrite
    BY <2>4 DEF SmallWrite
  <2>5. CASE SmallFails
    BY <2>5 DEF SmallFails, ReturnError
  <2>6. CASE StartPool
    BY <2>6 DEF StartPool
  <2>7. CASE Wait
    BY <2>7 DEF Wait, ReturnError
  <2>8. CASE AppendPart
    BY <2>8 DEF AppendPart
  <2>9. CASE AppendFails
    BY <2>9 DEF AppendFails, ReturnError
  <2>10. CASE Assembled
    BY <2>10 DEF Assembled
  <2>11. CASE VerifyAndReturn
    BY <2>11 DEF VerifyAndReturn, ReturnError
  <2>12. CASE Cancel
    BY <2>12 DEF Cancel
  <2>. QED
    BY <2>1, <2>2, <2>3, <2>4, <2>5, <2>6, <2>7, <2>8, <2>9, <2>10, <2>11, <2>12 DEF
       CallerStep, MainStep
<1>2. /\ main' \in {"probe", "get", "read", "copy", "pool"}
           => main \in {"probe", "get", "read", "copy", "pool"}
      /\ main' # "done" => main # "done" /\ UNCHANGED result
      /\ main' \in {"assemble", "verify"} => ~failed \/ main \in {"assemble", "verify"}
  <2> USE DEF mainVars, Caller, SawError
  <2>1. CASE Probe
    BY <2>1 DEF Probe, ReturnError
  <2>2. CASE SmallCreate
    BY <2>2 DEF SmallCreate
  <2>3. CASE SmallRead
    BY <2>3 DEF SmallRead
  <2>4. CASE SmallWrite
    BY <2>4 DEF SmallWrite
  <2>5. CASE SmallFails
    BY <2>5 DEF SmallFails, ReturnError
  <2>6. CASE StartPool
    BY <2>6 DEF StartPool
  <2>7. CASE Wait
    BY <2>7 DEF Wait, ReturnError
  <2>8. CASE AppendPart
    BY <2>8 DEF AppendPart
  <2>9. CASE AppendFails
    BY <2>9 DEF AppendFails, ReturnError
  <2>10. CASE Assembled
    BY <2>10 DEF Assembled
  <2>11. CASE VerifyAndReturn
    BY <2>11 DEF VerifyAndReturn, ReturnError
  <2>12. CASE Cancel
    BY <2>12 DEF Cancel
  <2>. QED
    BY <2>1, <2>2, <2>3, <2>4, <2>5, <2>6, <2>7, <2>8, <2>9, <2>10, <2>11, <2>12 DEF
       CallerStep, MainStep
<1>. QED
  BY <1>1, <1>2 DEF Caller

\* The invariant holds in the beginning.
LEMMA InvInit == Init => IInv
<1> SUFFICES ASSUME Init PROVE IInv
  OBVIOUS
<1> USE Numbers DEF Init
<1>1. DiskType
  BY DEF DiskType, Body
<1>2. WorkerType
  <2>1. Len(<<>>) <= 2 /\ <<>> \in Seq(Body \cup {"error"})
    OBVIOUS
  <2>2. /\ resultCh \in [Worker -> Seq(Body \cup {"error"})]
        /\ \A w \in Worker : Len(resultCh[w]) <= 2
    BY <2>1
  <2>. QED
    BY <2>2 DEF WorkerType, WorkerLabels
<1>3. MainType
  BY DEF MainType, MainLabels
<1>4. Tasks
  BY DEF Tasks, RaceOf, TaskOf, Owed, Holding
<1>5. Exclusive
  BY DEF Exclusive
<1>6. Pieces
  BY DEF Pieces, PieceOf, Piece
<1>7. Caller
  BY DEF Caller, failed
<1>. QED
  BY <1>1, <1>2, <1>3, <1>4, <1>5, <1>6, <1>7 DEF IInv, TypeOK

\* Every step keeps it.
LEMMA InvStep == IInv /\ [Next]_vars => IInv'
<1> SUFFICES ASSUME IInv, [Next]_vars PROVE IInv'
  OBVIOUS
<1> USE DEF IInv
<1>1. ASSUME NEW w \in Worker, Moves(w) PROVE IInv'
  <2>1. TaskOf(w) /\ RaceOf(w)
    BY DEF Tasks
  <2>2. RaceOf(w)' /\ TaskOf(w)'
    BY <1>1, <2>1, MovesTyped, OwnTask
  <2>3. Tasks'
    BY <1>1, <2>2, OthersTasks DEF Tasks
  <2>. QED
    BY <1>1, <2>3, MovesTyped, MovesExclusive, MovesPieces, MovesCaller
<1>2. CASE CallerStep
  BY <1>2, CallerTyped, CallerTasks, CallerPieces, CallerKept
<1>3. CASE UNCHANGED vars
  <2> USE <1>3 DEF vars, diskVars, workerVars, raceVars, mainVars
  <2>1. TypeOK'
    BY DEF TypeOK, DiskType, WorkerType, MainType
  <2>2. Tasks'
    BY DEF Tasks, RaceOf, TaskOf, Owed, Fetched
  <2>3. Pieces' /\ Caller' /\ Exclusive'
    BY DEF Pieces, PieceOf, Fetched, failed, ctxDone, Caller, Exclusive
  <2>. QED
    BY <2>1, <2>2, <2>3
<1>. QED
  BY <1>1, <1>2, <1>3 DEF Next, Moves, CallerStep

\* The inductive invariant of DownloadQueue.
THEOREM Invariance == Spec => []IInv
  BY InvInit, InvStep, PTL DEF Spec

\* Every variable keeps its type; a race's channel never holds more results
\* than its buffer of two (queue.go:227-250).
THEOREM TypeCorrect == Spec => []TypeOK
<1>1. IInv => TypeOK
  BY DEF IInv
<1>. QED
  BY <1>1, Invariance, PTL

\* No piece that left the channel is dropped between racing, retrying and
\* giving up, and none is in two workers' hands (queue.go:204-300).
THEOREM NoPieceDropped == Spec => []NothingDropped
<1>1. IInv => NothingDropped
  <2> SUFFICES ASSUME IInv, NEW p \in 0 .. head - 1
               PROVE  LET owners == {w \in Worker : piece[w] = p}
                      IN  /\ Cardinality(owners) <= 1
                          /\ owners # {} \/ Fetched(p) \/ failed \/ ctxDone
    BY DEF NothingDropped
  <2> DEFINE owners == {w \in Worker : piece[w] = p}
  <2>1. p \in Piece /\ p # -1 /\ p < head
    BY Numbers DEF IInv, TypeOK, DiskType, Piece
  <2>2. Cardinality(owners) <= 1
    <3>1. CASE owners = {}
      <4>1. Cardinality(owners) = 0
        BY <3>1, FS_EmptySet
      <4>. QED
        BY <4>1
    <3>2. CASE owners # {}
      <4>1. PICK v \in Worker : piece[v] = p
        BY <3>2
      <4>2. owners = {v}
        BY <2>1, <4>1 DEF IInv, Exclusive
      <4>3. Cardinality(owners) = 1
        BY <4>2, FS_Singleton
      <4>. QED
        BY <4>3
    <3>. QED
      BY <3>1, <3>2
  <2>3. owners # {} \/ Fetched(p) \/ failed \/ ctxDone
    <3>1. PieceOf(p)
      BY <2>1 DEF IInv, Pieces
    <3>. QED
      BY <2>1, <3>1 DEF PieceOf
  <2>. QED
    BY <2>2, <2>3
<1>. QED
  BY <1>1, Invariance, PTL

\* What the piece server hands to other peers is what this download has on
\* disk: no loser of a race and no retry rewrites a shared piece
\* (queue.go:263-288).
THEOREM SharedStaysOnDisk == Spec => []SharedIsOnDisk
<1>1. IInv => SharedIsOnDisk
  BY DEF IInv, Pieces, PieceOf, SharedIsOnDisk
<1>. QED
  BY <1>1, Invariance, PTL

\* Until the caller cancels, no result of a race is dropped: those the worker has
\* heard, those in the channel and those still to come are two.
AwaitedOf(w) ==
  pc[w] = "race" /\ ~ctxDone
    => Len(resultCh[w]) + Owed(w, "peer") + Owed(w, "origin") + heard[w] = 2
Awaited == \A w \in Worker : AwaitedOf(w)

\* The numbers of a race.
LEMMA RaceNumbers ==
  ASSUME TypeOK, NEW w \in Worker
  PROVE  /\ resultCh[w] \in Seq(Body \cup {"error"}) /\ Len(resultCh[w]) \in Nat
         /\ heard[w] \in 0 .. 1 /\ racers[w] \subseteq {"peer", "origin"}
         /\ Owed(w, "peer") \in 0 .. 1 /\ Owed(w, "origin") \in 0 .. 1
  BY DEF TypeOK, WorkerType, Owed

\* A goroutine that answers owes one result less, and the channel holds one more.
LEMMA AnswerCounts ==
  ASSUME TypeOK, NEW w \in Worker, RaceOf(w), AwaitedOf(w),
         PeerAnswers(w) \/ OriginAnswers(w)
  PROVE  AwaitedOf(w)'
<1> SUFFICES ASSUME ~ctxDone PROVE AwaitedOf(w)'
  BY DEF AwaitedOf, PeerAnswers, OriginAnswers, Answer, ctxDone
<1>1. PICK r \in Body \cup {"error"} : resultCh' = [resultCh EXCEPT ![w] = Append(@, r)]
  BY BodyTypes DEF PeerAnswers, OriginAnswers, Answer
<1>2. /\ Len(Append(resultCh[w], r)) = Len(resultCh[w]) + 1
      /\ resultCh \in [Worker -> Seq(Body \cup {"error"})]
  BY RaceNumbers DEF TypeOK, WorkerType
<1>3. Len(resultCh'[w]) = Len(resultCh[w]) + 1 /\ heard'[w] = heard[w] /\ pc[w] = "race"
  BY <1>1, <1>2, RacersWait DEF PeerAnswers, OriginAnswers, Answer
<1>4. \/ /\ Owed(w, "peer") = 1 /\ Owed(w, "peer")' = 0
         /\ Owed(w, "origin")' = Owed(w, "origin")
      \/ /\ Owed(w, "origin") = 1 /\ Owed(w, "origin")' = 0
         /\ Owed(w, "peer")' = Owed(w, "peer")
  <2>0. racers \in [Worker -> SUBSET {"peer", "origin"}]
    BY DEF TypeOK, WorkerType
  <2>1. CASE PeerAnswers(w)
    BY <2>0, <2>1 DEF PeerAnswers, Answer, Owed
  <2>2. CASE OriginAnswers(w)
    BY <2>0, <2>2 DEF OriginAnswers, Answer, Owed
  <2>. QED
    BY <2>1, <2>2
<1>5. Len(resultCh[w]) + Owed(w, "peer") + Owed(w, "origin") + heard[w] = 2
  BY <1>3 DEF AwaitedOf
<1> HIDE DEF Owed
<1>. QED
  BY <1>3, <1>4, <1>5, RaceNumbers DEF AwaitedOf

\* A worker that starts a race waits for two, and one that hears an error has
\* heard one more.
LEMMA WorkerCounts ==
  ASSUME TypeOK, NEW w \in Worker, RaceOf(w), AwaitedOf(w), WorkerStep(w)
  PROVE  AwaitedOf(w)'
<1>0. pc \in [Worker -> WorkerLabels] /\ racers \in [Worker -> SUBSET {"peer", "origin"}]
  BY DEF TypeOK, WorkerType
<1>1. CASE Lookup(w)
  <2>1. CASE racers' = [racers EXCEPT ![w] = {"peer", "origin"}]
    <3>1. /\ racers'[w] = {"peer", "origin"} /\ resultCh'[w] = <<>> /\ heard'[w] = 0
      BY <1>0, <1>1, <2>1 DEF Lookup, RaceOf
    <3>2. Len(resultCh'[w]) = 0
      BY <3>1
    <3>. QED
      BY <3>1, <3>2 DEF AwaitedOf, Owed
  <2>2. CASE Goto(w, "direct")
    BY <1>0, <2>2 DEF Goto, AwaitedOf
  <2>. QED
    BY <1>1, <2>1, <2>2 DEF Lookup
<1>2. CASE HearError(w) /\ ~BothFailed(w)
  <2>1. /\ resultCh' = [resultCh EXCEPT ![w] = Tail(@)] /\ resultCh[w] # <<>>
        /\ heard' = [heard EXCEPT ![w] = @ + 1] /\ UNCHANGED <<racers, pc, raised>>
        /\ pc[w] = "race"
    BY <1>2 DEF HearError
  <2>2. Len(Tail(resultCh[w])) = Len(resultCh[w]) - 1
    BY <2>1, RaceNumbers
  <2>3. /\ Len(resultCh'[w]) = Len(resultCh[w]) - 1 /\ heard'[w] = heard[w] + 1
    BY <2>1, <2>2 DEF TypeOK, WorkerType
  <2>4. /\ Owed(w, "peer")' = Owed(w, "peer") /\ Owed(w, "origin")' = Owed(w, "origin")
        /\ pc'[w] = "race" /\ ctxDone' = ctxDone
    BY <2>1 DEF Owed, ctxDone
  <2> HIDE DEF Owed
  <2>. QED
    BY <2>1, <2>3, <2>4, RaceNumbers DEF AwaitedOf
<1>3. CASE ~Lookup(w) /\ ~(HearError(w) /\ ~BothFailed(w))
  <2>1. pc'[w] # "race"
    BY <1>0, <1>3 DEF WorkerStep, Take, CheckCancel, Win, HearError, EndRace, WriteWinner,
       PutWinner, AfterPut, Request, Copy, AttemptFails, Exhausted, Share, Count, Fail, Goto
  <2>. QED
    BY <2>1 DEF AwaitedOf
<1>. QED
  BY <1>1, <1>2, <1>3

\* Every step keeps the count.
LEMMA AwaitedStep == IInv /\ Awaited /\ [Next]_vars => Awaited'
<1> SUFFICES ASSUME IInv, Awaited, [Next]_vars, NEW v \in Worker PROVE AwaitedOf(v)'
  BY DEF Awaited
<1>0. AwaitedOf(v) /\ TypeOK /\ Tasks
  BY DEF Awaited, IInv
<1>1. ASSUME NEW w \in Worker, Moves(w) PROVE AwaitedOf(v)'
  <2>1. RaceOf(w) /\ TaskOf(w)
    BY <1>0 DEF Tasks
  <2>2. CASE v = w
    BY <1>0, <1>1, <2>1, <2>2, AnswerCounts, WorkerCounts DEF Moves
  <2>3. CASE v # w
    BY <1>0, <1>1, <2>1, <2>3, StepsAreLocal DEF Local, Same, AwaitedOf, Owed, ctxDone
  <2>. QED
    BY <2>2, <2>3
<1>2. CASE StartPool
  BY <1>2 DEF StartPool, AwaitedOf
<1>3. CASE UNCHANGED workerVars /\ raised \subseteq raised'
  BY <1>0, <1>3 DEF workerVars, raceVars, AwaitedOf, Owed, ctxDone
<1>4. CallerStep => StartPool \/ (UNCHANGED workerVars /\ raised \subseteq raised')
  BY DEF CallerStep, MainStep, Probe, SmallCreate, SmallRead, SmallWrite, SmallFails, Wait,
         AppendPart, AppendFails, Assembled, VerifyAndReturn, Cancel, workerVars, raceVars,
         diskVars, mainVars
<1>5. UNCHANGED vars => UNCHANGED workerVars /\ raised \subseteq raised'
  BY DEF vars, workerVars
<1>. QED
  BY <1>1, <1>2, <1>3, <1>4, <1>5 DEF Next, Moves, CallerStep

\* A worker never waits for a result that nobody will send, unless the caller
\* cancelled (queue.go:231-259).
THEOREM NoRaceIsStuck == Spec => []RacesAreAnswered
<1>1. Init => Awaited
  BY DEF Init, Awaited, AwaitedOf
<1>2. IInv /\ Awaited => RacesAreAnswered
  <2> SUFFICES ASSUME IInv, Awaited, NEW w \in Worker, pc[w] = "race", ~ctxDone,
                      resultCh[w] = <<>>, racers[w] = {}
               PROVE  FALSE
    BY DEF RacesAreAnswered
  <2>1. Len(resultCh[w]) = 0 /\ Owed(w, "peer") = 0 /\ Owed(w, "origin") = 0
    BY DEF Owed
  <2>2. heard[w] \in 0 .. 1
    BY RaceNumbers DEF IInv
  <2>. QED
    BY <2>1, <2>2 DEF Awaited, AwaitedOf
<1>. QED
  BY <1>1, <1>2, AwaitedStep, Invariance, PTL DEF Spec

\* The error that ends a download is one of a piece that failed MaxRetries + 1
\* times: races, peers and single attempts that fail cost nothing more
\* (queue.go:263-297, 425-438).
THEOREM RetriesAreSurvived == Spec => []SurvivesRetries
<1>1. IInv => SurvivesRetries
  BY DEF IInv, Caller, SurvivesRetries
<1>. QED
  BY <1>1, Invariance, PTL
-----------------------------------------------------------------------------
(* DownloadQueue implements Download. *)

\* What the output holds at each point of the caller: nothing, an empty file,
\* the part files up to the next one, all of them.
Copied ==
  /\ main \in {"probe", "get", "pool", "wait"} => \A p \in Piece : out[p] = "absent"
  /\ main \in {"read", "copy"} => \A p \in Piece : out[p] = "cut"
  /\ main \in {"assemble", "verify"} => \A p \in Piece : out[p] \in {"absent", part[p]}
  /\ main = "copy" => \A p \in Piece : Fetched(p)
  /\ main = "verify" => Unwritten = {}

\* Where every source and every peer sends only the bytes it was asked for,
\* nothing else is received or stored.
Pure == Ranged /\ Faults \cap {"foreign", "fullbody", "short"} = {}
PureOf(w) == winner[w] \in {"absent", "right"} /\ resultCh[w] \in Seq({"right", "error"})
PureParts == \A p \in Piece : part[p] \in {"absent", "cut", "right"}
Clean == Pure => PureParts /\ \A w \in Worker : PureOf(w)

Got == {p \in Piece : part[p] = "right"}
Written == IF Unwritten = Piece THEN "none" ELSE IF HashMatches THEN "whole" ELSE "partial"

\* What the caller's steps do to the output and the part files.
LEMMA CallerCopies ==
  ASSUME TypeOK, Pieces, Caller, Copied, CallerStep
  PROVE  Copied'
<1> USE DEF Copied, Unwritten, Fetched, mainVars, diskVars
<1>1. CASE Probe
  BY <1>1 DEF Probe, ReturnError
<1>2. CASE SmallCreate
  BY <1>2 DEF SmallCreate
<1>3. CASE SmallRead
  <2>1. \A p \in Piece : Fetched(p)'
    BY <1>3, BodyTypes DEF SmallRead, Body
  <2>. QED
    BY <1>3, <2>1 DEF SmallRead
<1>4. CASE SmallWrite
  BY <1>4 DEF SmallWrite
<1>5. CASE SmallFails
  BY <1>5 DEF SmallFails, ReturnError
<1>6. CASE StartPool
  BY <1>6 DEF StartPool
<1>7. CASE Wait
  BY <1>7 DEF Wait, ReturnError
<1>8. CASE AppendPart
  <2>1. PICK p \in Piece : out' = [out EXCEPT ![p] = part[p]]
    BY <1>8 DEF AppendPart
  <2>2. /\ out \in [Piece -> Body \cup {"absent", "cut"}] /\ main = "assemble"
        /\ UNCHANGED <<part, main>>
    BY <1>8 DEF AppendPart, TypeOK, MainType
  <2>. QED
    BY <2>1, <2>2
<1>9. CASE AppendFails
  BY <1>9 DEF AppendFails, ReturnError
<1>10. CASE Assembled
  BY <1>10 DEF Assembled
<1>11. CASE VerifyAndReturn
  BY <1>11 DEF VerifyAndReturn, ReturnError
<1>12. CASE Cancel
  BY <1>12 DEF Cancel
<1>. QED
  BY <1>1, <1>2, <1>3, <1>4, <1>5, <1>6, <1>7, <1>8, <1>9, <1>10, <1>11, <1>12 DEF
     CallerStep, MainStep

\* No step of the whole system breaks it.
LEMMA CopiedStep ==
  ASSUME IInv, Copied, [Next]_vars
  PROVE  Copied'
<1>1. ASSUME NEW w \in Worker, Moves(w) PROVE Copied'
  <2>1. main = "wait" /\ UNCHANGED mainVars
    BY <1>1, StepsAreLocal DEF IInv, Tasks, Local
  <2>. QED
    BY <2>1 DEF Copied, mainVars
<1>2. CASE CallerStep
  BY <1>2, CallerCopies DEF IInv
<1>3. CASE UNCHANGED vars
  BY <1>3 DEF vars, mainVars, diskVars, Copied, Unwritten, Fetched
<1>. QED
  BY <1>1, <1>2, <1>3 DEF Next, Moves, CallerStep

\* A pure download's sources answer with what they were asked for.
LEMMA PureBodies ==
  ASSUME Pure
  PROVE  /\ OriginBodies = {"right"}
         /\ PeerResults \subseteq {"right", "error"}
         /\ OriginResults \subseteq {"right", "error"}
<1>1. OriginBodies = {"right"} /\ PeerBodies = {"right"}
  BY DEF Pure, OriginBodies, PeerBodies
<1>. QED
  BY <1>1 DEF PeerResults, OriginResults

\* A worker's step brings nothing else into its race or its part file.
LEMMA MovesClean ==
  ASSUME TypeOK, Tasks, Pure, Clean, NEW w \in Worker, Moves(w)
  PROVE  Clean'
<1>0. Local(w) /\ RaceOf(w) /\ PureOf(w) /\ PureParts
  BY StepsAreLocal DEF Tasks, Clean
<1>a. /\ pc[w] \in Holding => piece[w] \in Piece
      /\ winner \in [Worker -> Body \cup {"absent"}]
      /\ resultCh \in [Worker -> Seq(Body \cup {"error"})]
      /\ part \in [Piece -> Body \cup {"absent", "cut"}]
  BY HeldPiece DEF Tasks, TypeOK, WorkerType, DiskType
<1>b. resultCh[w] # <<>> => /\ Head(resultCh[w]) \in {"right", "error"}
                            /\ Tail(resultCh[w]) \in Seq({"right", "error"})
  BY <1>0 DEF PureOf
<1>c. \A r \in {"right", "error"} : Append(resultCh[w], r) \in Seq({"right", "error"})
  BY <1>0 DEF PureOf
<1>d. <<>> \in Seq({"right", "error"})
  OBVIOUS
<1>1. PureOf(w)' /\ (piece[w] \in Piece => part'[piece[w]] \in {"absent", "cut", "right"})
  <2> USE <1>0, <1>a, PureBodies DEF PureOf, PureParts, Holding, raceVars, diskVars
  <2>1. CASE Take(w)
    BY <2>1 DEF Take
  <2>2. CASE CheckCancel(w)
    BY <2>2 DEF CheckCancel
  <2>3. CASE Lookup(w)
    BY <2>3 DEF Lookup
  <2>4. CASE Win(w)
    BY <2>4, <1>b, <1>d DEF Win, EndRace
  <2>5. CASE HearError(w)
    BY <2>5, <1>b, <1>d DEF HearError, EndRace, BothFailed
  <2>6. CASE WriteWinner(w)
    BY <2>6 DEF WriteWinner
  <2>7. CASE PutWinner(w)
    BY <2>7 DEF PutWinner, Put, AfterPut
  <2>8. CASE Request(w)
    BY <2>8 DEF Request
  <2>9. CASE Copy(w)
    BY <2>9 DEF Copy
  <2>10. CASE AttemptFails(w)
    BY <2>10 DEF AttemptFails, Exhausted
  <2>11. CASE Share(w)
    BY <2>11 DEF Share, Put
  <2>12. CASE Count(w)
    BY <2>12 DEF Count
  <2>13. CASE Fail(w)
    BY <2>13 DEF Fail, FailRaises
  <2>14. CASE PeerAnswers(w)
    BY <2>14, <1>c DEF PeerAnswers, Answer
  <2>15. CASE OriginAnswers(w)
    BY <2>15, <1>c DEF OriginAnswers, Answer
  <2>. QED
    BY <2>1, <2>2, <2>3, <2>4, <2>5, <2>6, <2>7, <2>8, <2>9, <2>10, <2>11, <2>12, <2>13,
       <2>14, <2>15 DEF WorkerStep, Moves
<1>2. \A v \in Worker \ {w} : PureOf(v)'
  BY <1>0 DEF Local, Same, Clean, PureOf
<1>3. PureParts'
  BY <1>0, <1>1 DEF Local, SameFiles, PureParts
<1>. QED
  BY <1>1, <1>2, <1>3 DEF Clean

\* Nor does a step of the caller.
LEMMA CallerClean ==
  ASSUME TypeOK, Pure, Clean, CallerStep
  PROVE  Clean'
<1> USE PureBodies DEF Clean, PureParts, PureOf, workerVars, raceVars, diskVars
<1>1. CASE Probe
  BY <1>1 DEF Probe, ReturnError
<1>2. CASE SmallCreate
  BY <1>2 DEF SmallCreate
<1>3. CASE SmallRead
  BY <1>3 DEF SmallRead
<1>4. CASE SmallWrite
  BY <1>4 DEF SmallWrite
<1>5. CASE SmallFails
  BY <1>5 DEF SmallFails, ReturnError
<1>6. CASE StartPool
  BY <1>6 DEF StartPool
<1>7. CASE Wait
  BY <1>7 DEF Wait, ReturnError
<1>8. CASE AppendPart
  BY <1>8 DEF AppendPart
<1>9. CASE AppendFails
  BY <1>9 DEF AppendFails, ReturnError
<1>10. CASE Assembled
  BY <1>10 DEF Assembled
<1>11. CASE VerifyAndReturn
  BY <1>11 DEF VerifyAndReturn, ReturnError
<1>12. CASE Cancel
  BY <1>12 DEF Cancel
<1>. QED
  BY <1>1, <1>2, <1>3, <1>4, <1>5, <1>6, <1>7, <1>8, <1>9, <1>10, <1>11, <1>12 DEF
     CallerStep, MainStep

\* So a pure download stays clean.
LEMMA CleanStep ==
  ASSUME IInv, Clean, [Next]_vars
  PROVE  Clean'
<1> SUFFICES ASSUME Pure PROVE Clean'
  BY DEF Clean
<1>1. ASSUME NEW w \in Worker, Moves(w) PROVE Clean'
  BY <1>1, MovesClean DEF IInv
<1>2. CASE CallerStep
  BY <1>2, CallerClean DEF IInv
<1>3. CASE UNCHANGED vars
  BY <1>3 DEF vars, diskVars, workerVars, raceVars, Clean, PureParts, PureOf
<1>. QED
  BY <1>1, <1>2, <1>3 DEF Next, Moves, CallerStep

\* The engine's initial states are initial states of Download.
LEMMA RefinementInit == Init => Abstract!Init
<1> SUFFICES ASSUME Init PROVE Abstract!Init
  OBVIOUS
<1>1. Got = {}
  BY DEF Init, Got
<1>2. Unwritten = Piece
  BY DEF Init, Unwritten
<1>. QED
  BY <1>1, <1>2 DEF Init, Got, Abstract!Init

\* A piece that is fetched is rewritten by no worker, so pieces are only added.
LEMMA MovesCollect ==
  ASSUME IInv, NEW w \in Worker, Moves(w)
  PROVE  Abstract!Collect
<1>0. Local(w) /\ TaskOf(w) /\ RaceOf(w)
  BY StepsAreLocal DEF IInv, Tasks
<1>a. pc[w] \in Holding => piece[w] \in Piece
  BY <1>0, HeldPiece DEF IInv
<1>b. part \in [Piece -> Body \cup {"absent", "cut"}]
  BY DEF IInv, TypeOK, DiskType
<1>1. ASSUME piece[w] \in Piece, part[piece[w]] = "right"
      PROVE  part'[piece[w]] = "right"
  <2> USE <1>0, <1>1, <1>b DEF TaskOf, RaceOf, Fetched, diskVars
  <2>1. CASE Take(w)
    BY <2>1 DEF Take
  <2>2. CASE CheckCancel(w)
    BY <2>2 DEF CheckCancel
  <2>3. CASE Lookup(w)
    BY <2>3 DEF Lookup
  <2>4. CASE Win(w)
    BY <2>4 DEF Win, EndRace
  <2>5. CASE HearError(w)
    BY <2>5 DEF HearError, EndRace, BothFailed
  <2>6. CASE WriteWinner(w)
    BY <2>6 DEF WriteWinner
  <2>7. CASE PutWinner(w)
    BY <2>7 DEF PutWinner, Put, AfterPut
  <2>8. CASE Request(w)
    BY <2>8 DEF Request
  <2>9. CASE Copy(w)
    BY <2>9 DEF Copy
  <2>10. CASE AttemptFails(w)
    BY <2>10 DEF AttemptFails, Exhausted
  <2>11. CASE Share(w)
    BY <2>11 DEF Share, Put
  <2>12. CASE Count(w)
    BY <2>12 DEF Count
  <2>13. CASE Fail(w)
    BY <2>13 DEF Fail, FailRaises
  <2>14. CASE PeerAnswers(w)
    BY <2>14 DEF PeerAnswers, Answer
  <2>15. CASE OriginAnswers(w)
    BY <2>15 DEF OriginAnswers, Answer
  <2>. QED
    BY <2>1, <2>2, <2>3, <2>4, <2>5, <2>6, <2>7, <2>8, <2>9, <2>10, <2>11, <2>12, <2>13,
       <2>14, <2>15 DEF WorkerStep, Moves
<1>2. Got \subseteq Got'
  BY <1>0, <1>1 DEF Got, Local, SameFiles
<1>3. Got' = Got \cup Got' /\ Got' \in SUBSET Piece
  BY <1>2 DEF Got
<1>4. result = "none" /\ UNCHANGED <<out, result>>
  BY <1>0 DEF Local, mainVars, IInv, Caller
<1>5. UNCHANGED Written
  BY <1>4 DEF Written, Unwritten, HashMatches
<1>. QED
  BY <1>3, <1>4, <1>5 DEF Abstract!Collect, Got, Written

\* The caller returns nil only with the file: the hash matched, or the part
\* files hold nothing else and none of them is cut off.
LEMMA VerifiedIsFile ==
  ASSUME IInv, Copied, Clean, BytesTrusted, main = "verify", ~Rejected
  PROVE  HashMatches /\ Unwritten = {}
<1>1. Unwritten = {}
  BY DEF Copied
<1>2. CASE HasSHA
  BY <1>1, <1>2 DEF Rejected
<1>3. CASE Pure
  <2> SUFFICES ASSUME NEW p \in Piece PROVE out[p] = "right"
    BY <1>1 DEF HashMatches
  <2>1. out[p] = part[p] /\ part[p] # "absent"
    BY <1>1 DEF Copied, Unwritten
  <2>2. \A w \in Worker : piece[w] # p
    <3>1. p # -1
      BY Numbers DEF Piece
    <3>2. \A w \in Worker : pc[w] \in {"idle", "exited"} /\ TaskOf(w)
      BY DEF IInv, Tasks, TaskOf
    <3>. QED
      BY <3>1, <3>2 DEF TaskOf, Holding
  <2>3. part[p] # "cut"
    <3>1. PieceOf(p) /\ ~failed
      BY DEF IInv, Pieces, Caller
    <3>2. p \in Int /\ head \in Int
      BY DEF Piece, IInv, TypeOK, DiskType
    <3>. QED
      BY <2>1, <2>2, <3>1, <3>2 DEF PieceOf, Fetched
  <2>. QED
    BY <1>3, <2>1, <2>3 DEF Clean, PureParts
<1>. QED
  BY <1>2, <1>3 DEF BytesTrusted, Pure

\* An error may be returned whatever was written.
LEMMA ErrorsFail ==
  ASSUME Caller, main # "done", ReturnError, UNCHANGED <<part, out>>
  PROVE  Abstract!Next
<1>1. result = "none" /\ result' = "error" /\ UNCHANGED <<Got, Written>>
  BY DEF Caller, ReturnError, Got, Written, Unwritten, HashMatches
<1>. QED
  BY <1>1 DEF Abstract!Next, Abstract!Fail, Got, Written

\* What is written is whole only when every part file is right.
LEMMA CopiesWrite ==
  ASSUME result = "none", UNCHANGED <<part, result>>, NEW q \in Piece, out'[q] # "absent",
         \A p \in Piece : out'[p] = "right" => part[p] = "right"
  PROVE  Abstract!Next
<1>1. UNCHANGED Got /\ Unwritten' # Piece
  BY DEF Got, Unwritten
<1>2. Written' \in {"partial", "whole"}
  BY <1>1 DEF Written
<1>3. Written' = "whole" => Got = Piece
  BY <1>1 DEF Written, HashMatches, Got
<1>. QED
  BY <1>1, <1>2, <1>3 DEF Abstract!Next, Abstract!Write, Got, Written

\* The caller's steps are steps of Download.
LEMMA CallerRefines ==
  ASSUME IInv, Copied, Clean, BytesTrusted, CallerStep
  PROVE  [Abstract!Next]_(Abstract!vars)
<1>0. Caller /\ (main # "done" => result = "none") /\ 0 \in Piece
  BY Numbers DEF IInv, Caller, Piece
<1>a. out \in [Piece -> Body \cup {"absent", "cut"}]
  BY DEF IInv, TypeOK, MainType
<1>b. UNCHANGED <<part, out, result>> => UNCHANGED Abstract!vars
  BY DEF Abstract!vars, Unwritten, HashMatches
<1> USE <1>0, <1>b, ErrorsFail DEF diskVars, mainVars
<1>1. CASE Probe
  BY <1>1 DEF Probe, ReturnError
<1>2. CASE SmallCreate
  BY <1>2, CopiesWrite DEF SmallCreate
<1>3. CASE SmallRead
  <2>1. \A p \in Piece : part[p] = "absent"
    <3>1. \A p \in Piece : PieceOf(p) /\ p >= head
      BY <1>3 DEF SmallRead, IInv, Pieces, Caller, Piece
    <3>. QED
      BY <1>3, <3>1 DEF SmallRead, PieceOf
  <2>2. Got = {}
    BY <2>1 DEF Got
  <2>3. Got' = Got \cup Got' /\ Got' \in SUBSET Piece
    BY <2>2 DEF Got
  <2>4. UNCHANGED <<out, result>> /\ result = "none"
    BY <1>3 DEF SmallRead
  <2>5. UNCHANGED Written
    BY <2>4 DEF Written, Unwritten, HashMatches
  <2>. QED
    BY <2>3, <2>4, <2>5 DEF Abstract!Next, Abstract!Collect, Got, Written
<1>4. CASE SmallWrite
  <2>1. out' = part /\ UNCHANGED <<part, result>> /\ result = "none" /\ part[0] # "absent"
    BY <1>4 DEF SmallWrite, Copied, Fetched
  <2>. QED
    BY <2>1, CopiesWrite
<1>5. CASE SmallFails
  BY <1>5 DEF SmallFails, ReturnError
<1>6. CASE StartPool
  BY <1>6 DEF StartPool
<1>7. CASE Wait
  BY <1>7 DEF Wait, ReturnError
<1>8. CASE AppendPart
  <2>1. PICK p \in Piece : out' = [out EXCEPT ![p] = part[p]] /\ part[p] # "absent"
    BY <1>8 DEF AppendPart
  <2>2. UNCHANGED <<part, result>> /\ result = "none" /\ main = "assemble"
    BY <1>8 DEF AppendPart
  <2>3. out'[p] # "absent" /\ \A q \in Piece : out'[q] = "right" => part[q] = "right"
    BY <1>a, <2>1, <2>2 DEF Copied
  <2>. QED
    BY <2>2, <2>3, CopiesWrite
<1>9. CASE AppendFails
  BY <1>9 DEF AppendFails, ReturnError
<1>10. CASE Assembled
  BY <1>10 DEF Assembled
<1>11. CASE VerifyAndReturn
  <2>1. CASE Rejected
    BY <1>11, <2>1 DEF VerifyAndReturn
  <2>2. CASE ~Rejected
    <3>1. HashMatches /\ Unwritten = {}
      BY <1>11, <2>2, VerifiedIsFile DEF VerifyAndReturn
    <3>2. UNCHANGED <<part, out>> /\ result = "none" /\ result' = "ok"
      BY <1>11, <2>2 DEF VerifyAndReturn
    <3>3. Written = "whole" /\ UNCHANGED <<Got, Written>>
      BY <3>1, <3>2 DEF Got, Written, Unwritten, HashMatches
    <3>. QED
      BY <3>2, <3>3 DEF Abstract!Next, Abstract!Succeed, Got, Written
  <2>. QED
    BY <2>1, <2>2
<1>12. CASE Cancel
  BY <1>12 DEF Cancel
<1>. QED
  BY <1>1, <1>2, <1>3, <1>4, <1>5, <1>6, <1>7, <1>8, <1>9, <1>10, <1>11, <1>12 DEF
     CallerStep, MainStep

\* Every step of the engine is a step of Download or a stutter, where the bytes
\* are trusted or hashed (queue.go:73-334).
LEMMA RefinementStep ==
  ASSUME IInv, Copied, Clean, BytesTrusted, [Next]_vars
  PROVE  [Abstract!Next]_(Abstract!vars)
<1>1. ASSUME NEW w \in Worker, Moves(w) PROVE Abstract!Next
  BY <1>1, MovesCollect DEF Abstract!Next
<1>2. CASE CallerStep
  BY <1>2, CallerRefines
<1>3. CASE UNCHANGED vars
  BY <1>3 DEF vars, diskVars, mainVars, Abstract!vars, Unwritten, HashMatches
<1>. QED
  BY <1>1, <1>2, <1>3 DEF Next, Moves, CallerStep

\* DownloadQueue implements Download whenever its sources' bytes can be trusted
\* or are hashed: no race, retry or cancel takes a fetched piece back, and it
\* returns nil only with the whole file, never with a part file that a failed
\* attempt cut off or a cancelled worker left out.
THEOREM Implementation == ASSUME BytesTrusted PROVE Spec => ImplementsDownload
<1>1. Init => Abstract!Init
  BY RefinementInit
<1>2. Init => Copied /\ Clean
  <2>1. <<>> \in Seq({"right", "error"})
    OBVIOUS
  <2>. QED
    BY <2>1 DEF Init, Copied, Clean, PureParts, PureOf
<1>3. IInv /\ Copied /\ Clean /\ [Next]_vars => Copied' /\ Clean'
  BY CopiedStep, CleanStep
<1>4. IInv /\ Copied /\ Clean /\ [Next]_vars => [Abstract!Next]_(Abstract!vars)
  BY RefinementStep
<1>. QED
  BY <1>1, <1>2, <1>3, <1>4, Invariance, PTL DEF Spec, ImplementsDownload, Abstract!Spec
=============================================================================
