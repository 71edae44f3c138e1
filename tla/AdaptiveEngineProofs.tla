------------------------ MODULE AdaptiveEngineProofs ------------------------
(***************************************************************************)
(* Theorems about AdaptiveEngine, for every number of workers, pieces and  *)
(* faults.  The inductive invariant has four parts, each preserved with    *)
(* the help of the ones before it: the types and the shape of a worker's   *)
(* batch at each point of its loop; who owns which piece; what is in the   *)
(* store and in the output; and the size of the pool.                      *)
(***************************************************************************)
EXTENDS AdaptiveEngine, TLAPS

\* Where a worker has no batch.
FreeLabels == {"idle", "top", "surplus", "peek", "claimPeer", "claim", "done"}

\* What first, next, last and broken are at each point of the worker loop.
ShapeOf(w) ==
  /\ pc[w] \in FreeLabels => next[w] = 0 /\ last[w] = -1 /\ w \notin viaPeer
  /\ pc[w] \in {"register", "peer", "fetch", "store"}
       => first[w] <= next[w] /\ next[w] <= last[w]
  /\ pc[w] = "peer" \/ (pc[w] = "register" /\ w \in viaPeer) => next[w] = last[w]
  /\ pc[w] = "account" => first[w] <= last[w] /\ next[w] = last[w] + 1
  /\ w \in broken => pc[w] \in {"release", "fail", "exit"}
  /\ pc[w] = "fail" => w \in broken
  /\ pc[w] = "release" /\ w \notin broken => next[w] = last[w] + 1
  /\ pc[w] = "release" /\ w \in broken /\ w \in viaPeer => failed
  /\ pc[w] = "exit" => failed \/ next[w] = last[w] + 1

BatchShape == \A w \in Worker : ShapeOf(w)

\* Both pool limits are at least one.
LEMMA PoolSizes == PoolMin \in Nat \ {0} /\ PoolMax \in Nat \ {0}
  BY SizesAssumption DEF PoolMin, PoolMax

\* Types and batch shapes hold initially.
LEMMA TypeInit == Init => TypeOK /\ BatchShape
<1> SUFFICES ASSUME Init PROVE TypeOK /\ BatchShape
  OBVIOUS
<1> USE SizesAssumption DEF Init
<1>1. SharedType
  BY DEF SharedType, Piece, Data
<1>2. PoolType
  BY DEF PoolType, PoolMin, Signals
<1>3. WorkerType
  BY DEF WorkerType, WorkerLabels, Piece
<1>4. MonitorType
  BY DEF MonitorType, MonitorLabels
<1>5. MainType
  BY DEF MainType, MainLabels, Piece, Data, PoolMin
<1>6. BatchShape
  BY DEF BatchShape, ShapeOf, FreeLabels
<1>. QED
  BY <1>1, <1>2, <1>3, <1>4, <1>5, <1>6 DEF TypeOK

\* A group of variables that does not change keeps its types.
LEMMA TypeFrames ==
  /\ SharedType /\ UNCHANGED sharedVars => SharedType'
  /\ PoolType /\ UNCHANGED <<poolVars, raised>> => PoolType'
  /\ WorkerType /\ UNCHANGED workerVars => WorkerType'
  /\ MonitorType /\ UNCHANGED monitorVars => MonitorType'
  /\ MainType /\ UNCHANGED mainVars => MainType'
  BY DEF SharedType, PoolType, WorkerType, MonitorType, MainType, sharedVars,
         poolVars, workerVars, batchVars, monitorVars, mainVars

\* What a worker knows of its batch stays.
Untouched(v) ==
  /\ pc'[v] = pc[v] /\ first'[v] = first[v] /\ next'[v] = next[v] /\ last'[v] = last[v]
  /\ v \in viaPeer' <=> v \in viaPeer
  /\ v \in full' <=> v \in full
  /\ v \in broken' <=> v \in broken

\* A worker step touches the batch of no other worker, and no error is forgotten.
LEMMA OthersUntouched ==
  ASSUME WorkerType, NEW w \in Worker, WorkerStep(w), NEW v \in Worker, v # w
  PROVE  Untouched(v) /\ (failed => failed')
<1> USE DEF Untouched, WorkerType, Goto, batchVars, failed
<1>1. CASE CheckStop(w)
  BY <1>1 DEF CheckStop
<1>2. CASE RetireIfSurplus(w)
  BY <1>2 DEF RetireIfSurplus
<1>3. CASE PeekCursor(w)
  BY <1>3 DEF PeekCursor
<1>4. CASE ClaimForPeer(w)
  BY <1>4 DEF ClaimForPeer, StillFirst
<1>5. CASE ClaimBatch(w)
  BY <1>5 DEF ClaimBatch, BatchEnd, Least
<1>6. CASE Register(w)
  BY <1>6 DEF Register
<1>7. CASE FetchFromPeer(w)
  BY <1>7 DEF FetchFromPeer
<1>8. CASE PeerFails(w)
  BY <1>8 DEF PeerFails
<1>9. CASE Respond(w)
  BY <1>9 DEF Respond
<1>10. CASE RequestFails(w)
  BY <1>10 DEF RequestFails, BatchBreaks
<1>11. CASE StorePiece(w)
  BY <1>11 DEF StorePiece, Content
<1>12. CASE StoreFails(w)
  BY <1>12 DEF StoreFails, BatchBreaks
<1>13. CASE Account(w)
  BY <1>13 DEF Account
<1>14. CASE Release(w)
  BY <1>14 DEF Release, ClearBatch
<1>15. CASE Fail(w)
  BY <1>15 DEF Fail
<1>16. CASE Exit(w)
  BY <1>16 DEF Exit, ClearBatch
<1>17. CASE Done(w)
  BY <1>17 DEF Done
<1>. QED
  BY <1>1, <1>2, <1>3, <1>4, <1>5, <1>6, <1>7, <1>8, <1>9, <1>10, <1>11, <1>12,
     <1>13, <1>14, <1>15, <1>16, <1>17 DEF WorkerStep

\* The shape of an untouched batch stays.
LEMMA ShapeFrame ==
  ASSUME NEW v \in Worker, ShapeOf(v), Untouched(v), failed => failed'
  PROVE  ShapeOf(v)'
  BY DEF ShapeOf, FreeLabels, Untouched

\* A claim from the cursor takes a non-empty range of the grid, or nothing is left.
Claims(w, b) ==
  /\ cursor \in Piece /\ b \in Piece /\ cursor <= b
  /\ cursor' = b + 1
  /\ first' = [first EXCEPT ![w] = cursor]
  /\ next' = [next EXCEPT ![w] = cursor]
  /\ last' = [last EXCEPT ![w] = b]
  /\ pc' = [pc EXCEPT ![w] = "register"]

\* A batch claim either finds the grid exhausted, or takes a run of pieces that
\* starts at the cursor and ends inside the grid (adaptive.go:324-336).
LEMMA ClaimBatchCases ==
  ASSUME SharedType, NEW w \in Worker, ClaimBatch(w)
  PROVE  \/ /\ pc' = [pc EXCEPT ![w] = "exit"]
            /\ UNCHANGED <<cursor, first, next, last>>
         \/ \E b \in Piece : Claims(w, b)
<1>0. cursor \in 0 .. N
  BY DEF SharedType
<1>1. CASE cursor >= N
  BY <1>1 DEF ClaimBatch, Goto
<1>2. CASE ~(cursor >= N)
  <2>1. PICK count \in 1 .. MaxBatch :
          /\ first' = [first EXCEPT ![w] = cursor]
          /\ next' = [next EXCEPT ![w] = cursor]
          /\ last' = [last EXCEPT ![w] = BatchEnd(cursor, count)]
          /\ cursor' = BatchEnd(cursor, count) + 1
          /\ pc' = [pc EXCEPT ![w] = "register"]
    BY <1>2 DEF ClaimBatch, Goto, CursorAfter
  <2>2. cursor \in Piece /\ BatchEnd(cursor, count) \in Piece
        /\ cursor <= BatchEnd(cursor, count)
    BY <1>0, <1>2, SizesAssumption DEF BatchEnd, Least, Piece
  <2>3. Claims(w, BatchEnd(cursor, count))
    BY <2>1, <2>2 DEF Claims
  <2>. QED
    BY <2>2, <2>3
<1>. QED
  BY <1>1, <1>2

\* No worker step breaks a type.
LEMMA TypeWorker ==
  ASSUME TypeOK, BatchShape, NEW w \in Worker, WorkerStep(w)
  PROVE  TypeOK'
<1> USE SizesAssumption DEF TypeOK, Goto
<1>0. ShapeOf(w)
  BY DEF BatchShape
<1>a. /\ first \in [Worker -> Piece]
      /\ next \in [Worker -> 0 .. N]
      /\ last \in [Worker -> -1 .. N - 1]
  BY DEF WorkerType
<1>b. /\ 0 \in Piece /\ -1 \in -1 .. N - 1 /\ 0 \in 0 .. N
      /\ \A q \in Piece : q \in 0 .. N /\ q \in -1 .. N - 1 /\ q + 1 \in 0 .. N
      /\ cursor < N => cursor \in Piece
  BY DEF Piece, SharedType
<1>1. CASE CheckStop(w)
  <2>1. pc' \in [Worker -> WorkerLabels]
    BY <1>1 DEF CheckStop, WorkerType, WorkerLabels
  <2>2. seen' \in [Worker -> Int]
    BY <1>1 DEF CheckStop, WorkerType, PoolType
  <2>3. WorkerType'
    BY <1>1, <2>1, <2>2 DEF CheckStop, WorkerType, batchVars
  <2>. QED
    BY <1>1, <2>3, TypeFrames DEF CheckStop
<1>2. CASE RetireIfSurplus(w)
  <2>1. pc' \in [Worker -> WorkerLabels]
    BY <1>2 DEF RetireIfSurplus, WorkerType, WorkerLabels
  <2>2. seen' \in [Worker -> Int]
    BY <1>2 DEF RetireIfSurplus, WorkerType, PoolType
  <2>3. WorkerType'
    BY <1>2, <2>1, <2>2 DEF RetireIfSurplus, WorkerType, batchVars
  <2>. QED
    BY <1>2, <2>3, TypeFrames DEF RetireIfSurplus
<1>3. CASE PeekCursor(w)
  <2>1. pc' \in [Worker -> WorkerLabels]
    BY <1>3 DEF PeekCursor, WorkerType, WorkerLabels
  <2>2. first' \in [Worker -> Piece]
    BY <1>3, <1>a, <1>b DEF PeekCursor, SharedType
  <2>3. WorkerType'
    BY <1>3, <2>1, <2>2 DEF PeekCursor, WorkerType, batchVars
  <2>. QED
    BY <1>3, <2>3, TypeFrames DEF PeekCursor
<1>4. CASE ClaimForPeer(w)
  <2>1. pc' \in [Worker -> WorkerLabels]
    BY <1>4 DEF ClaimForPeer, StillFirst, WorkerType, WorkerLabels
  <2>2. first' \in [Worker -> Piece]
    BY <1>4, <1>a, <1>b DEF ClaimForPeer
  <2>3. next' \in [Worker -> 0 .. N]
    BY <1>4, <1>a, <1>b DEF ClaimForPeer
  <2>4. last' \in [Worker -> -1 .. N - 1]
    BY <1>4, <1>a, <1>b DEF ClaimForPeer
  <2>5. viaPeer' \subseteq Worker
    BY <1>4 DEF ClaimForPeer, StillFirst, WorkerType
  <2>6. WorkerType'
    BY <1>4, <2>1, <2>2, <2>3, <2>4, <2>5 DEF ClaimForPeer, WorkerType, batchVars
  <2>7. SharedType'
    BY <1>0, <1>4 DEF ClaimForPeer, StillFirst, SharedType, WorkerType, ShapeOf, Piece, Data
  <2>. QED
    BY <1>4, <2>6, <2>7, TypeFrames DEF ClaimForPeer
<1>5. CASE ClaimBatch(w)
  <2>1. pc' \in [Worker -> WorkerLabels]
    BY <1>5 DEF ClaimBatch, WorkerType, WorkerLabels
  <2>2. first' \in [Worker -> Piece]
    BY <1>5, <1>a, <1>b, ClaimBatchCases DEF Claims
  <2>3. next' \in [Worker -> 0 .. N]
    BY <1>5, <1>a, <1>b, ClaimBatchCases DEF Claims
  <2>4. last' \in [Worker -> -1 .. N - 1]
    BY <1>5, <1>a, <1>b, ClaimBatchCases DEF Claims
  <2>5. WorkerType'
    BY <1>5, <2>1, <2>2, <2>3, <2>4 DEF ClaimBatch, WorkerType, batchVars
  <2>6. SharedType'
    BY <1>5, <1>b, ClaimBatchCases DEF Claims, ClaimBatch, SharedType
  <2>. QED
    BY <1>5, <2>5, <2>6, TypeFrames DEF ClaimBatch
<1>6. CASE Register(w)
  <2>1. pc' \in [Worker -> WorkerLabels]
    BY <1>6 DEF Register, WorkerType, WorkerLabels
  <2>2. WorkerType'
    BY <1>6, <2>1 DEF Register, WorkerType, batchVars
  <2>3. SharedType'
    BY <1>0, <1>6 DEF Register, SharedType, WorkerType, ShapeOf, Piece, Data
  <2>. QED
    BY <1>6, <2>2, <2>3, TypeFrames DEF Register
<1>7. CASE FetchFromPeer(w)
  <2>1. pc' \in [Worker -> WorkerLabels]
    BY <1>7 DEF FetchFromPeer, WorkerType, WorkerLabels
  <2>2. next' \in [Worker -> 0 .. N]
    BY <1>0, <1>7 DEF FetchFromPeer, WorkerType, Piece, SharedType, ShapeOf
  <2>3. WorkerType'
    BY <1>7, <2>1, <2>2 DEF FetchFromPeer, WorkerType, batchVars
  <2>4. SharedType'
    BY <1>0, <1>7 DEF FetchFromPeer, SharedType, WorkerType, ShapeOf, Piece, Data
  <2>. QED
    BY <1>7, <2>3, <2>4, TypeFrames DEF FetchFromPeer
<1>8. CASE PeerFails(w)
  <2>1. pc' \in [Worker -> WorkerLabels]
    BY <1>8 DEF PeerFails, WorkerType, WorkerLabels
  <2>2. WorkerType'
    BY <1>8, <2>1 DEF PeerFails, WorkerType, batchVars
  <2>. QED
    BY <1>8, <2>2, TypeFrames DEF PeerFails
<1>9. CASE Respond(w)
  <2>1. pc' \in [Worker -> WorkerLabels]
    BY <1>9 DEF Respond, WorkerType, WorkerLabels
  <2>2. full' \subseteq Worker
    BY <1>9 DEF Respond, WorkerType
  <2>3. WorkerType'
    BY <1>9, <2>1, <2>2 DEF Respond, WorkerType, batchVars
  <2>. QED
    BY <1>9, <2>3, TypeFrames DEF Respond
<1>10. CASE RequestFails(w)
  <2>1. pc' \in [Worker -> WorkerLabels]
    BY <1>10 DEF RequestFails, BatchBreaks, WorkerType, WorkerLabels
  <2>2. broken' \subseteq Worker
    BY <1>10 DEF RequestFails, BatchBreaks, WorkerType
  <2>3. WorkerType'
    BY <1>10, <2>1, <2>2 DEF RequestFails, WorkerType, batchVars
  <2>. QED
    BY <1>10, <2>3, TypeFrames DEF RequestFails
<1>11. CASE StorePiece(w)
  <2>1. pc' \in [Worker -> WorkerLabels]
    BY <1>11 DEF StorePiece, Content, WorkerType, WorkerLabels
  <2>2. next' \in [Worker -> 0 .. N]
    BY <1>0, <1>11 DEF StorePiece, Content, WorkerType, Piece, SharedType, ShapeOf
  <2>3. WorkerType'
    BY <1>11, <2>1, <2>2 DEF StorePiece, WorkerType, batchVars
  <2>4. SharedType'
    BY <1>0, <1>11 DEF StorePiece, Content, SharedType, WorkerType, ShapeOf, Piece, Data
  <2>. QED
    BY <1>11, <2>3, <2>4, TypeFrames DEF StorePiece
<1>12. CASE StoreFails(w)
  <2>1. pc' \in [Worker -> WorkerLabels]
    BY <1>12 DEF StoreFails, BatchBreaks, WorkerType, WorkerLabels
  <2>2. broken' \subseteq Worker
    BY <1>12 DEF StoreFails, BatchBreaks, WorkerType
  <2>3. WorkerType'
    BY <1>12, <2>1, <2>2 DEF StoreFails, WorkerType, batchVars
  <2>. QED
    BY <1>12, <2>3, TypeFrames DEF StoreFails
<1>13. CASE Account(w)
  <2>1. pc' \in [Worker -> WorkerLabels]
    BY <1>13 DEF Account, WorkerType, WorkerLabels
  <2>2. WorkerType'
    BY <1>13, <2>1 DEF Account, WorkerType, batchVars
  <2>3. SharedType'
    BY <1>0, <1>13 DEF Account, SharedType, WorkerType, ShapeOf, Piece, Data
  <2>. QED
    BY <1>13, <2>2, <2>3, TypeFrames DEF Account
<1>14. CASE Release(w)
  <2>1. pc' \in [Worker -> WorkerLabels]
    BY <1>14 DEF Release, ClearBatch, WorkerType, WorkerLabels, batchVars
  <2>2. first' \in [Worker -> Piece]
    BY <1>14, <1>a, <1>b DEF Release, ClearBatch, batchVars
  <2>3. next' \in [Worker -> 0 .. N]
    BY <1>14, <1>a, <1>b DEF Release, ClearBatch, batchVars
  <2>4. last' \in [Worker -> -1 .. N - 1]
    BY <1>14, <1>a, <1>b DEF Release, ClearBatch, batchVars
  <2>5. viaPeer' \subseteq Worker
    BY <1>14 DEF Release, ClearBatch, WorkerType, batchVars
  <2>6. full' \subseteq Worker
    BY <1>14 DEF Release, ClearBatch, WorkerType, batchVars
  <2>7. broken' \subseteq Worker
    BY <1>14 DEF Release, ClearBatch, WorkerType, batchVars
  <2>8. WorkerType'
    BY <1>14, <2>1, <2>2, <2>3, <2>4, <2>5, <2>6, <2>7 DEF Release, WorkerType, batchVars
  <2>9. SharedType'
    BY <1>0, <1>14 DEF Release, ClearBatch, WithoutEntry, SharedType, WorkerType, ShapeOf, Piece, Data
  <2>. QED
    BY <1>14, <2>8, <2>9, TypeFrames DEF Release
<1>15. CASE Fail(w)
  <2>1. pc' \in [Worker -> WorkerLabels]
    BY <1>15 DEF Fail, WorkerType, WorkerLabels
  <2>2. WorkerType'
    BY <1>15, <2>1 DEF Fail, WorkerType, batchVars
  <2>3. PoolType'
    BY <1>15 DEF Fail, FailRaises, PoolType, poolVars, Signals
  <2>. QED
    BY <1>15, <2>2, <2>3, TypeFrames DEF Fail
<1>16. CASE Exit(w)
  <2>1. pc' \in [Worker -> WorkerLabels]
    BY <1>16 DEF Exit, ClearBatch, WorkerType, WorkerLabels
  <2>2. first' \in [Worker -> Piece]
    BY <1>16 DEF Exit, ClearBatch, WorkerType, Piece, SharedType
  <2>3. next' \in [Worker -> 0 .. N]
    BY <1>0, <1>16 DEF Exit, ClearBatch, WorkerType, Piece, SharedType, ShapeOf
  <2>4. last' \in [Worker -> -1 .. N - 1]
    BY <1>0, <1>16 DEF Exit, ClearBatch, WorkerType, Piece, SharedType, ShapeOf
  <2>5. viaPeer' \subseteq Worker
    BY <1>16 DEF Exit, ClearBatch, WorkerType
  <2>6. full' \subseteq Worker
    BY <1>16 DEF Exit, ClearBatch, WorkerType
  <2>7. broken' \subseteq Worker
    BY <1>16 DEF Exit, ClearBatch, WorkerType
  <2>8. WorkerType'
    BY <1>16, <2>1, <2>2, <2>3, <2>4, <2>5, <2>6, <2>7 DEF Exit, WorkerType, batchVars
  <2>9. PoolType'
    BY <1>16 DEF Exit, ClearBatch, PoolType, poolVars, Signals
  <2>. QED
    BY <1>16, <2>8, <2>9, TypeFrames DEF Exit
<1>17. CASE Done(w)
  <2>1. pc' \in [Worker -> WorkerLabels]
    BY <1>17 DEF Done, WorkerType, WorkerLabels
  <2>2. WorkerType'
    BY <1>17, <2>1 DEF Done, WorkerType, batchVars
  <2>3. MainType'
    BY <1>17 DEF Done, MainType, MainLabels
  <2>. QED
    BY <1>17, <2>2, <2>3, TypeFrames DEF Done
<1>. QED
  BY <1>1, <1>2, <1>3, <1>4, <1>5, <1>6, <1>7, <1>8, <1>9, <1>10, <1>11, <1>12,
     <1>13, <1>14, <1>15, <1>16, <1>17 DEF WorkerStep

\* No worker step breaks the shape of a batch.
LEMMA ShapeWorker ==
  ASSUME TypeOK, BatchShape, NEW w \in Worker, WorkerStep(w)
  PROVE  BatchShape'
<1>0. ShapeOf(w) /\ WorkerType /\ SharedType
  BY DEF BatchShape, TypeOK
<1>. SUFFICES ShapeOf(w)'
  BY <1>0, OthersUntouched, ShapeFrame DEF BatchShape
<1> USE <1>0, SizesAssumption
    DEF ShapeOf, WorkerType, SharedType, FreeLabels, Goto, batchVars, Piece
<1>1. CASE CheckStop(w)
  BY <1>1 DEF CheckStop
<1>2. CASE RetireIfSurplus(w)
  BY <1>2 DEF RetireIfSurplus
<1>3. CASE PeekCursor(w)
  BY <1>3 DEF PeekCursor
<1>4. CASE ClaimForPeer(w)
  BY <1>4 DEF ClaimForPeer, StillFirst
<1>5. CASE ClaimBatch(w)
  <2>1. CASE pc' = [pc EXCEPT ![w] = "exit"] /\ UNCHANGED <<cursor, first, next, last>>
    BY <1>5, <2>1 DEF ClaimBatch
  <2>2. ASSUME NEW b \in Piece, Claims(w, b) PROVE ShapeOf(w)'
    <3>1. UNCHANGED <<viaPeer, broken>> /\ w \notin viaPeer /\ w \notin broken
      BY <1>5 DEF ClaimBatch
    <3>. QED
      BY <2>2, <3>1 DEF Claims
  <2>. QED
    BY <1>5, <2>1, <2>2, ClaimBatchCases
<1>6. CASE Register(w)
  BY <1>6 DEF Register
<1>7. CASE FetchFromPeer(w)
  BY <1>7 DEF FetchFromPeer
<1>8. CASE PeerFails(w)
  BY <1>8 DEF PeerFails
<1>9. CASE Respond(w)
  BY <1>9 DEF Respond
<1>10. CASE RequestFails(w)
  BY <1>10 DEF RequestFails, BatchBreaks
<1>11. CASE StorePiece(w)
  BY <1>11 DEF StorePiece, Content, BatchStored
<1>12. CASE StoreFails(w)
  BY <1>12 DEF StoreFails, BatchBreaks
<1>13. CASE Account(w)
  BY <1>13 DEF Account
<1>14. CASE Release(w)
  <2>1. CASE w \in broken
    BY <1>14, <2>1 DEF Release, failed
  <2>2. CASE w \notin broken
    BY <1>14, <2>2 DEF Release, ClearBatch
  <2>. QED
    BY <2>1, <2>2
<1>15. CASE Fail(w)
  BY <1>15 DEF Fail, FailRaises, failed
<1>16. CASE Exit(w)
  BY <1>16 DEF Exit, ClearBatch
<1>17. CASE Done(w)
  BY <1>17 DEF Done
<1>. QED
  BY <1>1, <1>2, <1>3, <1>4, <1>5, <1>6, <1>7, <1>8, <1>9, <1>10, <1>11, <1>12,
     <1>13, <1>14, <1>15, <1>16, <1>17 DEF WorkerStep

\* What the steps of the monitor, the caller and the main goroutine may do to
\* the workers and the pieces: start a worker in an empty slot, no more.
Spawned(w) == /\ pc[w] = "idle"
              /\ pc' = [pc EXCEPT ![w] = "top"]
              /\ UNCHANGED <<seen, batchVars>>

OutsideStep == /\ UNCHANGED workerVars \/ \E w \in Worker : Spawned(w)
               /\ UNCHANGED <<cursor, store, inFlight, downloaded>>
               /\ failed => failed'

\* What the monitor, the calling goroutine and the caller's cancel do to the
\* workers and the shared tables: start one, or nothing (adaptive.go:363-457).
LEMMA OutsideSteps ==
  ASSUME MonitorStep \/ Tick \/ MainStep \/ Cancel
  PROVE  OutsideStep
<1> USE DEF OutsideStep, Spawned, SpawnWorker, Goto, sharedVars, failed
<1>1. CASE MonitorStop
  BY <1>1 DEF MonitorStop
<1>2. CASE ScaleUp
  BY <1>2 DEF ScaleUp
<1>3. CASE ScaleDown
  BY <1>3 DEF ScaleDown
<1>4. CASE KeepSize
  BY <1>4 DEF KeepSize
<1>5. CASE SpawnGrown
  BY <1>5 DEF SpawnGrown
<1>6. CASE SpawnedAll
  BY <1>6 DEF SpawnedAll
<1>7. CASE FindStraggler
  BY <1>7 DEF FindStraggler
<1>8. CASE Rescue
  BY <1>8 DEF Rescue, workerVars
<1>9. CASE ScanOver
  BY <1>9 DEF ScanOver
<1>10. CASE SendProgress
  BY <1>10 DEF SendProgress
<1>11. CASE Tick
  BY <1>11 DEF Tick
<1>12. CASE SpawnInitial
  BY <1>12 DEF SpawnInitial
<1>13. CASE StartMonitor
  BY <1>13 DEF StartMonitor
<1>14. CASE Wait
  BY <1>14 DEF Wait
<1>15. CASE Wake
  BY <1>15 DEF Wake
<1>16. CASE Join
  BY <1>16 DEF Join
<1>17. CASE ReturnFirstError
  BY <1>17 DEF ReturnFirstError, ReturnError
<1>18. CASE WritePiece
  BY <1>18 DEF WritePiece
<1>19. CASE AssembleFails
  BY <1>19 DEF AssembleFails, ReturnError
<1>20. CASE Verify
  BY <1>20 DEF Verify, ReturnError
<1>21. CASE Close
  BY <1>21 DEF Close
<1>22. CASE Cancel
  BY <1>22 DEF Cancel
<1>. QED
  BY <1>1, <1>2, <1>3, <1>4, <1>5, <1>6, <1>7, <1>8,
     <1>9, <1>10, <1>11, <1>12, <1>13, <1>14, <1>15, <1>16,
     <1>17, <1>18, <1>19, <1>20, <1>21, <1>22 DEF MonitorStep, MainStep

\* An outside step keeps the types of the workers and the shape of their batches.
LEMMA ShapeOutside ==
  ASSUME TypeOK, BatchShape, OutsideStep
  PROVE  WorkerType' /\ BatchShape'
<1>1. CASE UNCHANGED workerVars
  <2>1. WorkerType'
    BY <1>1, TypeFrames DEF TypeOK
  <2>2. \A v \in Worker : Untouched(v)
    BY <1>1 DEF workerVars, batchVars, Untouched
  <2>. QED
    BY <2>1, <2>2, ShapeFrame DEF BatchShape, OutsideStep
<1>2. ASSUME NEW w \in Worker, Spawned(w) PROVE WorkerType' /\ BatchShape'
  <2>1. pc' \in [Worker -> WorkerLabels]
    BY <1>2 DEF Spawned, TypeOK, WorkerType, WorkerLabels
  <2>2. WorkerType'
    BY <1>2, <2>1 DEF Spawned, TypeOK, WorkerType, batchVars
  <2>3. ASSUME NEW v \in Worker, v # w PROVE ShapeOf(v)'
    <3>1. Untouched(v)
      BY <1>2, <2>3 DEF Spawned, TypeOK, WorkerType, batchVars, Untouched
    <3>. QED
      BY <3>1, ShapeFrame DEF BatchShape, OutsideStep
  <2>4. ShapeOf(w)'
    BY <1>2 DEF Spawned, TypeOK, WorkerType, batchVars, BatchShape, ShapeOf, FreeLabels
  <2>. QED
    BY <2>2, <2>3, <2>4 DEF BatchShape
<1>. QED
  BY <1>1, <1>2 DEF OutsideStep

\* No other step breaks a type.
LEMMA TypeOutside ==
  ASSUME TypeOK, BatchShape, MonitorStep \/ Tick \/ MainStep \/ Cancel
  PROVE  TypeOK' /\ BatchShape'
<1>0. WorkerType' /\ BatchShape'
  BY OutsideSteps, ShapeOutside
<1> SUFFICES SharedType' /\ PoolType' /\ MonitorType' /\ MainType'
  BY <1>0 DEF TypeOK
<1> USE SizesAssumption DEF TypeOK
<1>1. CASE MonitorStop
  <2>1. MonitorType'
    BY <1>1 DEF MonitorStop, MonitorType, MonitorLabels
  <2>. QED
    BY <1>1, <2>1, TypeFrames DEF MonitorStop
<1>2. CASE ScaleUp
  <2>1. PoolType'
    BY <1>2 DEF ScaleUp, GrownTo, Least, Most, PoolMax, PoolType, poolVars
  <2>2. MonitorType'
    BY <1>2 DEF ScaleUp, GrownTo, Least, Most, PoolMax, MonitorType, MonitorLabels
  <2>. QED
    BY <1>2, <2>1, <2>2, TypeFrames DEF ScaleUp
<1>3. CASE ScaleDown
  <2>1. PoolType'
    BY <1>3 DEF ScaleDown, ShrunkTo, Most, PoolMin, PoolType, poolVars
  <2>2. MonitorType'
    BY <1>3 DEF ScaleDown, AfterScale, MonitorType, MonitorLabels
  <2>. QED
    BY <1>3, <2>1, <2>2, TypeFrames DEF ScaleDown
<1>4. CASE KeepSize
  <2>1. MonitorType'
    BY <1>4 DEF KeepSize, AfterScale, MonitorType, MonitorLabels
  <2>. QED
    BY <1>4, <2>1, TypeFrames DEF KeepSize
<1>5. CASE SpawnGrown
  <2>1. PoolType'
    BY <1>5 DEF SpawnGrown, SpawnWorker, PoolType, poolVars
  <2>2. MonitorType'
    BY <1>5 DEF SpawnGrown, MonitorType, MonitorLabels
  <2>. QED
    BY <1>5, <2>1, <2>2, TypeFrames DEF SpawnGrown
<1>6. CASE SpawnedAll
  <2>1. MonitorType'
    BY <1>6 DEF SpawnedAll, AfterScale, MonitorType, MonitorLabels
  <2>. QED
    BY <1>6, <2>1, TypeFrames DEF SpawnedAll
<1>7. CASE FindStraggler
  <2>1. SharedType'
    BY <1>7 DEF FindStraggler, SharedType
  <2>2. MonitorType'
    BY <1>7 DEF FindStraggler, PoolType, MonitorType, MonitorLabels
  <2>. QED
    BY <1>7, <2>1, <2>2, TypeFrames DEF FindStraggler, sharedVars, poolVars
<1>8. CASE Rescue
  <2>1. PoolType'
    BY <1>8 DEF Rescue, SpawnWorker, MonitorType, PoolType, poolVars
  <2>2. MonitorType'
    BY <1>8 DEF Rescue, MonitorType, MonitorLabels
  <2>. QED
    BY <1>8, <2>1, <2>2, TypeFrames DEF Rescue
<1>9. CASE ScanOver
  <2>1. MonitorType'
    BY <1>9 DEF ScanOver, MonitorType, MonitorLabels
  <2>. QED
    BY <1>9, <2>1, TypeFrames DEF ScanOver
<1>10. CASE SendProgress
  <2>0. /\ mpc' = "select" /\ mActive' = 0 /\ mDesired' = 0 /\ rate' = 0
        /\ UNCHANGED <<lastBytes, lastRate, ticks>>
    BY <1>10 DEF SendProgress
  <2>1. MonitorType'
    BY <2>0 DEF MonitorType, MonitorLabels
  <2>2. MainType'
    BY <1>10 DEF SendProgress, MainType, MainLabels
  <2>. QED
    BY <1>10, <2>1, <2>2, TypeFrames DEF SendProgress
<1>11. CASE Tick
  <2>1. MonitorType'
    BY <1>11 DEF Tick, SharedType, PoolType, MonitorType, MonitorLabels
  <2>. QED
    BY <1>11, <2>1, TypeFrames DEF Tick
<1>12. CASE SpawnInitial
  <2>1. PoolType'
    BY <1>12 DEF SpawnInitial, SpawnWorker, PoolType, poolVars
  <2>2. MainType'
    <3>1. toSpawn \in 0 .. PoolMin /\ toSpawn > 0 /\ toSpawn' = toSpawn - 1
      BY <1>12 DEF SpawnInitial, MainType
    <3>2. toSpawn' \in 0 .. PoolMin
      BY <3>1, PoolSizes
    <3>. QED
      BY <1>12, <3>2 DEF SpawnInitial, MainType
  <2>. QED
    BY <1>12, <2>1, <2>2, TypeFrames DEF SpawnInitial
<1>13. CASE StartMonitor
  <2>1. MonitorType'
    BY <1>13 DEF StartMonitor, MonitorType, MonitorLabels
  <2>2. MainType'
    BY <1>13 DEF StartMonitor, MainType, MainLabels
  <2>. QED
    BY <1>13, <2>1, <2>2, TypeFrames DEF StartMonitor
<1>14. CASE Wait
  <2>1. MainType'
    BY <1>14 DEF Wait, MainType, MainLabels
  <2>. QED
    BY <1>14, <2>1, TypeFrames DEF Wait
<1>15. CASE Wake
  <2>1. MainType'
    BY <1>15 DEF Wake, MainType, MainLabels
  <2>. QED
    BY <1>15, <2>1, TypeFrames DEF Wake
<1>16. CASE Join
  <2>1. PoolType'
    BY <1>16 DEF Join, Signals, PoolType, poolVars
  <2>2. MainType'
    BY <1>16 DEF Join, MainType, MainLabels
  <2>. QED
    BY <1>16, <2>1, <2>2, TypeFrames DEF Join
<1>17. CASE ReturnFirstError
  <2>1. PoolType'
    BY <1>17 DEF ReturnFirstError, Signals, ReturnError, PoolType, poolVars
  <2>2. MainType'
    BY <1>17 DEF ReturnFirstError, ReturnError, MainType, MainLabels
  <2>. QED
    BY <1>17, <2>1, <2>2, TypeFrames DEF ReturnFirstError, ReturnError
<1>18. CASE WritePiece
  <2>1. MainType'
    BY <1>18 DEF WritePiece, SharedType, Unwritten, MainType, MainLabels
  <2>. QED
    BY <1>18, <2>1, TypeFrames DEF WritePiece
<1>19. CASE AssembleFails
  <2>1. PoolType'
    BY <1>19 DEF AssembleFails, Signals, ReturnError, PoolType, poolVars
  <2>2. MainType'
    BY <1>19 DEF AssembleFails, ReturnError, MainType, MainLabels
  <2>. QED
    BY <1>19, <2>1, <2>2, TypeFrames DEF AssembleFails
<1>20. CASE Verify
  <2>1. PoolType'
    BY <1>20 DEF Verify, Signals, ReturnError, PoolType, poolVars
  <2>2. MainType'
    BY <1>20 DEF Verify, ReturnError, MainType, MainLabels
  <2>. QED
    BY <1>20, <2>1, <2>2, TypeFrames DEF Verify
<1>21. CASE Close
  <2>1. PoolType'
    BY <1>21 DEF Close, Signals, PoolType, poolVars
  <2>2. MainType'
    BY <1>21 DEF Close, MainType, MainLabels
  <2>. QED
    BY <1>21, <2>1, <2>2, TypeFrames DEF Close
<1>22. CASE Cancel
  <2>1. PoolType'
    BY <1>22 DEF Cancel, Signals, PoolType, poolVars
  <2>. QED
    BY <1>22, <2>1, TypeFrames DEF Cancel
<1>. QED
  BY <1>1, <1>2, <1>3, <1>4, <1>5, <1>6, <1>7, <1>8,
     <1>9, <1>10, <1>11, <1>12, <1>13, <1>14, <1>15, <1>16,
     <1>17, <1>18, <1>19, <1>20, <1>21, <1>22 DEF MonitorStep, MainStep

\* A stutter breaks nothing.
LEMMA TypeStutter ==
  ASSUME TypeOK, BatchShape, UNCHANGED vars
  PROVE  TypeOK' /\ BatchShape'
<1>1. OutsideStep
  BY DEF vars, sharedVars, OutsideStep, failed
<1>2. WorkerType' /\ BatchShape'
  BY <1>1, ShapeOutside
<1>. QED
  BY <1>2, TypeFrames DEF vars, TypeOK

\* The types and the shape of the batches are an inductive invariant.
THEOREM TypeInvariance == Spec => [](TypeOK /\ BatchShape)
<1>1. Init => TypeOK /\ BatchShape
  BY TypeInit
<1>2. TypeOK /\ BatchShape /\ [Next]_vars => TypeOK' /\ BatchShape'
  BY TypeWorker, ShapeWorker, TypeOutside, TypeStutter DEF Next
<1>. QED
  BY <1>1, <1>2, PTL DEF Spec

\* Every variable keeps its type.
THEOREM TypeCorrect == Spec => []TypeOK
  BY TypeInvariance, PTL
-----------------------------------------------------------------------------
(* Who owns a piece.  NoPieceLost and ClaimsExclusive need each other, and  *)
(* both need that nothing beyond the cursor is stored.                      *)

UnclaimedEmpty == \A p \in Piece : p >= cursor => store[p] = NoData

Owned == NoPieceLost /\ ClaimsExclusive /\ UnclaimedEmpty

\* No piece is claimed at the start.
LEMMA OwnedInit == Init => Owned
<1> SUFFICES ASSUME Init PROVE Owned
  OBVIOUS
<1>1. \A w \in Worker : Pending(w) = {}
  BY DEF Init, Pending
<1>2. UnclaimedEmpty
  BY DEF Init, UnclaimedEmpty
<1>3. NoPieceLost
  BY DEF Init, NoPieceLost
<1>. QED
  BY <1>1, <1>2, <1>3 DEF Owned, ClaimsExclusive

\* Steps that leave the cursor, the store and every batch alone.
LEMMA OwnedQuiet ==
  ASSUME Owned, UNCHANGED <<cursor, store, next, last>>, failed => failed'
  PROVE  Owned'
  BY DEF Owned, NoPieceLost, ClaimsExclusive, UnclaimedEmpty, Pending

\* Worker w, which owed nothing, claims the pieces from the cursor to b.
LEMMA OwnedClaim ==
  ASSUME TypeOK, Owned, NEW w \in Worker, NEW b \in Piece, Pending(w) = {},
         cursor <= b, cursor' = b + 1, UNCHANGED <<store, raised>>,
         next' = [next EXCEPT ![w] = cursor], last' = [last EXCEPT ![w] = b]
  PROVE  Owned'
<1>0. /\ cursor \in 0 .. N /\ b \in 0 .. N - 1 /\ N \in Nat
      /\ next \in [Worker -> 0 .. N] /\ last \in [Worker -> -1 .. N - 1]
  BY SizesAssumption DEF TypeOK, SharedType, WorkerType, Piece
<1>1. Pending(w)' = cursor .. b
  BY <1>0 DEF Pending
<1>2. \A v \in Worker \ {w} : Pending(v)' = Pending(v)
  BY <1>0 DEF Pending
<1>3. UnclaimedEmpty'
  BY <1>0 DEF Owned, UnclaimedEmpty, Piece
<1>4. NoPieceLost'
  <2>1. ASSUME NEW p \in 0 .. b
        PROVE  store[p] # NoData \/ failed \/ \E v \in Worker : p \in Pending(v)'
    <3>1. CASE p >= cursor
      BY <1>0, <1>1, <3>1
    <3>2. CASE p < cursor
      <4>1. store[p] # NoData \/ failed \/ \E v \in Worker : p \in Pending(v)
        BY <1>0, <3>2 DEF Owned, NoPieceLost
      <4>. QED
        BY <4>1, <1>2
    <3>. QED
      BY <1>0, <3>1, <3>2
  <2>2. 0 .. cursor' - 1 = 0 .. b
    BY <1>0
  <2>. QED
    BY <2>1, <2>2 DEF NoPieceLost, failed
<1>5. ClaimsExclusive'
  <2>1. ASSUME NEW v \in Worker, NEW p \in Pending(v)'
        PROVE  p < cursor' /\ store[p] = NoData /\ \A u \in Worker \ {v} : p \notin Pending(u)'
    <3>1. CASE v = w
      <4>1. p \in cursor .. b
        BY <3>1, <1>1, <2>1
      <4>2. p < cursor' /\ store[p] = NoData
        BY <4>1, <1>0 DEF Owned, UnclaimedEmpty, Piece
      <4>3. \A u \in Worker \ {w} : p \notin Pending(u)
        BY <4>1, <1>0 DEF Owned, ClaimsExclusive
      <4>. QED
        BY <3>1, <4>2, <4>3, <1>2
    <3>2. CASE v # w
      <4>1. p \in Pending(v)
        BY <3>2, <1>2, <2>1
      <4>2. p < cursor /\ store[p] = NoData /\ \A u \in Worker \ {v} : p \notin Pending(u)
        BY <4>1 DEF Owned, ClaimsExclusive
      <4>3. p \in Int
        BY <4>1, <1>0 DEF Pending
      <4>4. p \notin Pending(w)'
        BY <4>2, <4>3, <1>0, <1>1
      <4>5. p < cursor'
        BY <4>2, <4>3, <1>0
      <4>. QED
        BY <4>2, <4>4, <4>5, <1>2
    <3>. QED
      BY <3>1, <3>2
  <2>. QED
    BY <2>1 DEF ClaimsExclusive
<1>. QED
  BY <1>3, <1>4, <1>5 DEF Owned

\* Worker w stores the next piece of its batch.
LEMMA OwnedStore ==
  ASSUME TypeOK, Owned, NEW w \in Worker, next[w] <= last[w], NEW d \in Int,
         store' = [store EXCEPT ![next[w]] = d],
         next' = [next EXCEPT ![w] = next[w] + 1],
         UNCHANGED <<cursor, last, raised>>
  PROVE  Owned'
<1>0. /\ cursor \in 0 .. N /\ N \in Nat
      /\ next \in [Worker -> 0 .. N] /\ last \in [Worker -> -1 .. N - 1]
  BY SizesAssumption DEF TypeOK, SharedType, WorkerType
<1>1. next[w] \in Pending(w) /\ next[w] \in Piece
  BY <1>0 DEF Pending, Piece
<1>2. next[w] < cursor
  BY <1>1 DEF Owned, ClaimsExclusive
<1>3. /\ \A p \in Piece \ {next[w]} : store'[p] = store[p]
      /\ store'[next[w]] # NoData
  BY <1>1, NoDataAssumption DEF TypeOK, SharedType
<1>4. Pending(w)' = Pending(w) \ {next[w]}
  BY <1>0 DEF Pending
<1>5. \A v \in Worker \ {w} : Pending(v)' = Pending(v)
  BY <1>0 DEF Pending
<1>6. \A v \in Worker : Pending(v)' \subseteq Pending(v) /\ next[w] \notin Pending(v)'
  BY <1>1, <1>4, <1>5 DEF Owned, ClaimsExclusive
<1>7. UnclaimedEmpty'
  BY <1>0, <1>2, <1>3 DEF Owned, UnclaimedEmpty, Piece
<1>8. NoPieceLost'
  <2>1. ASSUME NEW p \in 0 .. cursor - 1
        PROVE  store'[p] # NoData \/ failed \/ \E v \in Worker : p \in Pending(v)'
    <3>1. CASE p = next[w]
      BY <3>1, <1>3
    <3>2. CASE p # next[w]
      <4>1. p \in Piece
        BY <1>0 DEF Piece
      <4>2. store[p] # NoData \/ failed \/ \E v \in Worker : p \in Pending(v)
        BY DEF Owned, NoPieceLost
      <4>. QED
        BY <3>2, <4>1, <4>2, <1>3, <1>4, <1>5
    <3>. QED
      BY <3>1, <3>2
  <2>. QED
    BY <2>1 DEF NoPieceLost, failed
<1>9. ClaimsExclusive'
  <2>1. ASSUME NEW v \in Worker, NEW p \in Pending(v)'
        PROVE  p < cursor /\ store'[p] = NoData /\ \A u \in Worker \ {v} : p \notin Pending(u)'
    <3>1. p \in Pending(v) /\ p # next[w]
      BY <1>6, <2>1
    <3>2. p < cursor /\ store[p] = NoData /\ \A u \in Worker \ {v} : p \notin Pending(u)
      BY <3>1 DEF Owned, ClaimsExclusive
    <3>3. p \in Piece
      BY <3>1, <1>0 DEF Pending, Piece
    <3>. QED
      BY <3>1, <3>2, <3>3, <1>3, <1>6
  <2>. QED
    BY <2>1 DEF ClaimsExclusive
<1>. QED
  BY <1>7, <1>8, <1>9 DEF Owned

\* Worker w forgets its batch, all of it stored or the download failed.
LEMMA OwnedClear ==
  ASSUME TypeOK, Owned, NEW w \in Worker, failed \/ next[w] = last[w] + 1,
         next' = [next EXCEPT ![w] = 0], last' = [last EXCEPT ![w] = -1],
         UNCHANGED <<cursor, store, raised>>
  PROVE  Owned'
<1>0. next \in [Worker -> 0 .. N] /\ last \in [Worker -> -1 .. N - 1] /\ N \in Nat
  BY SizesAssumption DEF TypeOK, WorkerType
<1>1. Pending(w)' = {}
  BY <1>0 DEF Pending
<1>2. \A v \in Worker \ {w} : Pending(v)' = Pending(v)
  BY <1>0 DEF Pending
<1>3. failed \/ Pending(w) = {}
  BY <1>0 DEF Pending
<1>4. UnclaimedEmpty'
  BY DEF Owned, UnclaimedEmpty
<1>5. NoPieceLost'
  BY <1>1, <1>2, <1>3 DEF Owned, NoPieceLost, failed
<1>6. ClaimsExclusive'
  BY <1>1, <1>2 DEF Owned, ClaimsExclusive
<1>. QED
  BY <1>4, <1>5, <1>6 DEF Owned

\* No worker step loses or duplicates a piece.
LEMMA OwnedWorker ==
  ASSUME TypeOK, BatchShape, Owned, NEW w \in Worker, WorkerStep(w)
  PROVE  Owned'
<1>0. ShapeOf(w)
  BY DEF BatchShape
<1>a. SharedType /\ WorkerType
  BY DEF TypeOK
<1>b. pc[w] \in FreeLabels => Pending(w) = {}
  BY <1>0 DEF ShapeOf, Pending
<1>1. CASE CheckStop(w)
  BY <1>1, OwnedQuiet DEF CheckStop, sharedVars, batchVars, failed
<1>2. CASE RetireIfSurplus(w)
  BY <1>2, OwnedQuiet DEF RetireIfSurplus, sharedVars, batchVars, failed
<1>3. CASE PeekCursor(w)
  BY <1>3, OwnedQuiet DEF PeekCursor, sharedVars, batchVars, failed
<1>4. CASE ClaimForPeer(w)
  <2>1. CASE ~StillFirst(w)
    BY <1>4, <2>1, OwnedQuiet DEF ClaimForPeer, failed
  <2>2. CASE StillFirst(w)
    <3>1. cursor \in Piece /\ cursor <= cursor
      BY <2>2, <1>a DEF StillFirst, WorkerType, SharedType, Piece
    <3>2. Pending(w) = {}
      BY <1>4, <1>b DEF ClaimForPeer, FreeLabels
    <3>3. /\ cursor' = cursor + 1 /\ UNCHANGED <<store, raised>>
          /\ next' = [next EXCEPT ![w] = cursor] /\ last' = [last EXCEPT ![w] = cursor]
      BY <1>4, <2>2 DEF ClaimForPeer, StillFirst
    <3>. QED
      BY <3>1, <3>2, <3>3, OwnedClaim
  <2>. QED
    BY <2>1, <2>2
<1>5. CASE ClaimBatch(w)
  <2>0. Pending(w) = {} /\ UNCHANGED <<store, raised>>
    BY <1>5, <1>b DEF ClaimBatch, FreeLabels
  <2>1. CASE UNCHANGED <<cursor, next, last>>
    BY <2>0, <2>1, OwnedQuiet DEF failed
  <2>2. ASSUME NEW b \in Piece, Claims(w, b) PROVE Owned'
    BY <2>0, <2>2, OwnedClaim DEF Claims
  <2>. QED
    BY <1>5, <1>a, <2>1, <2>2, ClaimBatchCases
<1>6. CASE Register(w)
  BY <1>6, OwnedQuiet DEF Register, sharedVars, batchVars, failed
<1>7. CASE FetchFromPeer(w)
  <2>1. next[w] <= last[w] /\ next[w] \in Int
    BY <1>7, <1>0, <1>a DEF FetchFromPeer, ShapeOf, WorkerType, Piece
  <2>2. /\ store' = [store EXCEPT ![next[w]] = next[w]]
        /\ next' = [next EXCEPT ![w] = next[w] + 1]
        /\ UNCHANGED <<cursor, last, raised>>
    BY <1>7 DEF FetchFromPeer
  <2>. QED
    BY <2>1, <2>2, OwnedStore
<1>8. CASE PeerFails(w)
  BY <1>8, OwnedQuiet DEF PeerFails, sharedVars, batchVars, failed
<1>9. CASE Respond(w)
  BY <1>9, OwnedQuiet DEF Respond, sharedVars, batchVars, failed
<1>10. CASE RequestFails(w)
  BY <1>10, OwnedQuiet DEF RequestFails, sharedVars, batchVars, failed
<1>11. CASE StorePiece(w)
  <2>1. next[w] <= last[w] /\ Content(w, next[w]) \in Int
    BY <1>11, <1>0, <1>a DEF StorePiece, ShapeOf, WorkerType, Piece, Content
  <2>2. /\ store' = [store EXCEPT ![next[w]] = Content(w, next[w])]
        /\ next' = [next EXCEPT ![w] = next[w] + 1]
        /\ UNCHANGED <<cursor, last, raised>>
    BY <1>11 DEF StorePiece
  <2>. QED
    BY <2>1, <2>2, OwnedStore
<1>12. CASE StoreFails(w)
  BY <1>12, OwnedQuiet DEF StoreFails, sharedVars, batchVars, failed
<1>13. CASE Account(w)
  BY <1>13, OwnedQuiet DEF Account, sharedVars, batchVars, failed
<1>14. CASE Release(w)
  <2>1. CASE w \in broken
    BY <1>14, <2>1, OwnedQuiet DEF Release, batchVars, failed
  <2>2. CASE w \notin broken
    <3>1. next[w] = last[w] + 1
      BY <1>14, <2>2, <1>0 DEF Release, ShapeOf
    <3>2. /\ next' = [next EXCEPT ![w] = 0] /\ last' = [last EXCEPT ![w] = -1]
          /\ UNCHANGED <<cursor, store, raised>>
      BY <1>14, <2>2 DEF Release, ClearBatch
    <3>. QED
      BY <3>1, <3>2, OwnedClear
  <2>. QED
    BY <2>1, <2>2
<1>15. CASE Fail(w)
  BY <1>15, OwnedQuiet DEF Fail, sharedVars, batchVars, failed
<1>16. CASE Exit(w)
  <2>1. failed \/ next[w] = last[w] + 1
    BY <1>16, <1>0 DEF Exit, ShapeOf
  <2>2. /\ next' = [next EXCEPT ![w] = 0] /\ last' = [last EXCEPT ![w] = -1]
        /\ UNCHANGED <<cursor, store, raised>>
    BY <1>16 DEF Exit, ClearBatch, sharedVars
  <2>. QED
    BY <2>1, <2>2, OwnedClear
<1>17. CASE Done(w)
  BY <1>17, OwnedQuiet DEF Done, sharedVars, batchVars, failed
<1>. QED
  BY <1>1, <1>2, <1>3, <1>4, <1>5, <1>6, <1>7, <1>8, <1>9, <1>10, <1>11, <1>12,
     <1>13, <1>14, <1>15, <1>16, <1>17 DEF WorkerStep

\* Nothing the monitor or the calling goroutine does touches a claim.
LEMMA OwnedOutside == ASSUME TypeOK, Owned, OutsideStep PROVE Owned'
<1>1. UNCHANGED <<cursor, store, next, last>> /\ (failed => failed')
  BY DEF OutsideStep, Spawned, workerVars, batchVars
<1>. QED
  BY <1>1, OwnedQuiet

\* A step that changes nothing is one that happens outside the workers.
LEMMA StutterOutside == ASSUME UNCHANGED vars PROVE OutsideStep
  BY DEF vars, sharedVars, OutsideStep, failed

\* Claims and stored pieces stay in the balance that NoPieceLost and
\* ClaimsExclusive need (adaptive.go:256-358).
THEOREM OwnedInvariance == Spec => []Owned
<1>1. Init => Owned
  BY OwnedInit
<1>2. TypeOK /\ BatchShape /\ Owned /\ [Next]_vars => Owned'
  BY OwnedWorker, OwnedOutside, OutsideSteps, StutterOutside DEF Next
<1>. QED
  BY <1>1, <1>2, TypeInvariance, PTL DEF Spec

\* A claimed piece is stored or owed by a worker unless the download failed,
\* whatever the number of workers and however claims interleave.
THEOREM NothingLost == Spec => []NoPieceLost
<1>1. Owned => NoPieceLost
  BY DEF Owned
<1>. QED
  BY <1>1, OwnedInvariance, PTL

\* No two workers ever owe the same piece, and no stored piece is owed.
THEOREM ClaimsAreExclusive == Spec => []ClaimsExclusive
<1>1. Owned => ClaimsExclusive
  BY DEF Owned
<1>. QED
  BY <1>1, OwnedInvariance, PTL
-----------------------------------------------------------------------------
(* The size of the pool.  The monitor's copy of activeWorkers may be stale,  *)
(* but only upwards: while it decides, workers leave and nobody else spawns. *)

Budget ==
  /\ active <= Most(PoolMin, PoolMax)
  /\ main = "spawn" => mpc = "off" /\ active + toSpawn <= PoolMin
  /\ mpc \in {"scale", "spawn", "rescue"} => active <= mActive
  /\ mpc = "spawn" => mDesired <= PoolMax

\* The pool's account is even before anything is spawned (adaptive.go:219-238).
LEMMA BudgetInit == Init => Budget
  BY PoolSizes DEF Init, Budget, Most

\* The numbers in the pool's account are integers, for the arithmetic below.
LEMMA BudgetTypes ==
  ASSUME TypeOK
  PROVE  /\ active \in Int /\ mActive \in Int /\ mDesired \in Int /\ toSpawn \in Int
         /\ PoolMin \in Int /\ PoolMax \in Int
<1>1. active \in Int /\ mActive \in Int /\ mDesired \in Int
  BY DEF TypeOK, PoolType, MonitorType
<1>2. toSpawn \in 0 .. PoolMin
  BY DEF TypeOK, MainType
<1>. QED
  BY <1>1, <1>2, PoolSizes

\* A worker never adds to the pool and never sends main back to spawning.
LEMMA BudgetWorker ==
  ASSUME TypeOK, Budget, NEW w \in Worker, WorkerStep(w)
  PROVE  Budget'
<1>0. active \in Int /\ mActive \in Int /\ toSpawn \in Int /\ PoolMin \in Int /\ PoolMax \in Int
  BY BudgetTypes
<1> SUFFICES /\ active' <= active /\ active' \in Int
             /\ main' = "spawn" => main = "spawn"
             /\ UNCHANGED <<mpc, mActive, mDesired, toSpawn>>
  <2> SUFFICES ASSUME /\ active' <= active /\ active' \in Int
                      /\ main' = "spawn" => main = "spawn"
                      /\ UNCHANGED <<mpc, mActive, mDesired, toSpawn>>
               PROVE  Budget'
    OBVIOUS
  <2>1. Most(PoolMin, PoolMax) \in Int
    BY <1>0 DEF Most
  <2>2. active' <= Most(PoolMin, PoolMax)
    BY <1>0, <2>1 DEF Budget
  <2>3. main' = "spawn" => mpc' = "off" /\ active' + toSpawn' <= PoolMin
    <3>1. main' = "spawn" => mpc = "off" /\ active + toSpawn <= PoolMin
      BY DEF Budget
    <3>2. \A a, b, c, d \in Int : a <= b /\ b + c <= d => a + c <= d
      OBVIOUS
    <3>3. active + toSpawn <= PoolMin => active' + toSpawn <= PoolMin
      BY <1>0, <3>2
    <3>. QED
      BY <3>1, <3>3
  <2>4. mpc' \in {"scale", "spawn", "rescue"} => active' <= mActive'
    BY <1>0 DEF Budget
  <2>. QED
    BY <2>2, <2>3, <2>4 DEF Budget
<1> USE <1>0 DEF poolVars, monitorVars, mainVars
<1>1. CASE CheckStop(w)
  BY <1>1 DEF CheckStop
<1>2. CASE RetireIfSurplus(w)
  BY <1>2 DEF RetireIfSurplus
<1>3. CASE PeekCursor(w)
  BY <1>3 DEF PeekCursor
<1>4. CASE ClaimForPeer(w)
  BY <1>4 DEF ClaimForPeer
<1>5. CASE ClaimBatch(w)
  BY <1>5 DEF ClaimBatch
<1>6. CASE Register(w)
  BY <1>6 DEF Register
<1>7. CASE FetchFromPeer(w)
  BY <1>7 DEF FetchFromPeer
<1>8. CASE PeerFails(w)
  BY <1>8 DEF PeerFails
<1>9. CASE Respond(w)
  BY <1>9 DEF Respond
<1>10. CASE RequestFails(w)
  BY <1>10 DEF RequestFails
<1>11. CASE StorePiece(w)
  BY <1>11 DEF StorePiece
<1>12. CASE StoreFails(w)
  BY <1>12 DEF StoreFails
<1>13. CASE Account(w)
  BY <1>13 DEF Account
<1>14. CASE Release(w)
  BY <1>14 DEF Release
<1>15. CASE Fail(w)
  BY <1>15 DEF Fail
<1>16. CASE Exit(w)
  BY <1>16 DEF Exit
<1>17. CASE Done(w)
  BY <1>17 DEF Done
<1>. QED
  BY <1>1, <1>2, <1>3, <1>4, <1>5, <1>6, <1>7, <1>8, <1>9, <1>10, <1>11, <1>12,
     <1>13, <1>14, <1>15, <1>16, <1>17 DEF WorkerStep

\* No other step lifts the pool over the limit.
LEMMA BudgetOutside ==
  ASSUME TypeOK, Budget, MonitorStep \/ Tick \/ MainStep \/ Cancel
  PROVE  Budget'
<1>0. /\ active \in Int /\ mActive \in Int /\ mDesired \in Int /\ toSpawn \in Int
      /\ PoolMin \in Int /\ PoolMax \in Int
  BY BudgetTypes
<1> USE <1>0 DEF Budget, poolVars, monitorVars, mainVars
<1>1. CASE MonitorStop
  BY <1>1 DEF MonitorStop
<1>2. CASE ScaleUp
  BY <1>2 DEF ScaleUp, GrownTo, Least
<1>3. CASE ScaleDown
  BY <1>3 DEF ScaleDown, AfterScale
<1>4. CASE KeepSize
  BY <1>4 DEF KeepSize, AfterScale
<1>5. CASE SpawnGrown
  BY <1>5 DEF SpawnGrown, SpawnWorker, Most
<1>6. CASE SpawnedAll
  BY <1>6 DEF SpawnedAll, AfterScale
<1>7. CASE FindStraggler
  BY <1>7 DEF FindStraggler
<1>8. CASE Rescue
  BY <1>8 DEF Rescue, SpawnWorker, Most, RoomFor
<1>9. CASE ScanOver
  BY <1>9 DEF ScanOver
<1>10. CASE SendProgress
  BY <1>10 DEF SendProgress
<1>11. CASE Tick
  BY <1>11 DEF Tick
<1>12. CASE SpawnInitial
  BY <1>12 DEF SpawnInitial, SpawnWorker, Most
<1>13. CASE StartMonitor
  BY <1>13 DEF StartMonitor
<1>14. CASE Wait
  BY <1>14 DEF Wait
<1>15. CASE Wake
  BY <1>15 DEF Wake
<1>16. CASE Join
  BY <1>16 DEF Join
<1>17. CASE ReturnFirstError
  BY <1>17 DEF ReturnFirstError, ReturnError
<1>18. CASE WritePiece
  BY <1>18 DEF WritePiece
<1>19. CASE AssembleFails
  BY <1>19 DEF AssembleFails, ReturnError
<1>20. CASE Verify
  BY <1>20 DEF Verify, ReturnError
<1>21. CASE Close
  BY <1>21 DEF Close
<1>22. CASE Cancel
  BY <1>22 DEF Cancel
<1>. QED
  BY <1>1, <1>2, <1>3, <1>4, <1>5, <1>6, <1>7, <1>8,
     <1>9, <1>10, <1>11, <1>12, <1>13, <1>14, <1>15, <1>16,
     <1>17, <1>18, <1>19, <1>20, <1>21, <1>22 DEF MonitorStep, MainStep

\* The workers that run and those the monitor or the caller has decided to
\* spawn never exceed the pool's limit (adaptive.go:363-365, 389-404, 428-432).
THEOREM BudgetInvariance == Spec => []Budget
<1>1. Init => Budget
  BY BudgetInit
<1>2. TypeOK /\ Budget /\ [Next]_vars => Budget'
  <2>1. TypeOK /\ Budget /\ UNCHANGED vars => Budget'
    BY DEF Budget, vars, poolVars, monitorVars, mainVars
  <2>. QED
    BY <2>1, BudgetWorker, BudgetOutside DEF Next
<1>. QED
  BY <1>1, <1>2, TypeCorrect, PTL DEF Spec

\* The pool never outgrows the larger limit, however the monitor's reads of
\* activeWorkers interleave with workers that leave.
THEOREM PoolStaysBounded == Spec => []WorkerCeiling
<1>1. Budget => WorkerCeiling
  BY DEF Budget, WorkerCeiling
<1>. QED
  BY <1>1, BudgetInvariance, PTL

-----------------------------------------------------------------------------
(* The straggler table. *)

\* A worker enters its own batch into the straggler table and takes out only
\* that entry (adaptive.go:291-317, 338-352).
LEMMA HeldWorker ==
  ASSUME TypeOK, InFlightHeld, BatchShape, NEW w \in Worker, WorkerStep(w)
  PROVE  InFlightHeld'
<1>a. WorkerType /\ ShapeOf(w)
  BY DEF TypeOK, BatchShape
<1>b. \A v \in Worker \ {w} : Untouched(v)
  BY <1>a, OthersUntouched
<1>c. ASSUME inFlight' \subseteq inFlight, first'[w] = first[w], Busy(w) => Busy(w)'
      PROVE  InFlightHeld'
  BY <1>b, <1>c DEF InFlightHeld, Untouched, Busy
<1>d. ASSUME inFlight' \subseteq inFlight, ~Busy(w)
      PROVE  InFlightHeld'
  BY <1>b, <1>d DEF InFlightHeld, Untouched, Busy
<1> USE DEF Goto, sharedVars, batchVars
<1>1. CASE CheckStop(w)
  BY <1>1, <1>d DEF CheckStop, Busy
<1>2. CASE RetireIfSurplus(w)
  BY <1>2, <1>d DEF RetireIfSurplus, Busy
<1>3. CASE PeekCursor(w)
  BY <1>3, <1>d DEF PeekCursor, Busy
<1>4. CASE ClaimForPeer(w)
  BY <1>4, <1>d DEF ClaimForPeer, Busy
<1>5. CASE ClaimBatch(w)
  BY <1>5, <1>d DEF ClaimBatch, Busy
<1>6. CASE Register(w)
  <2>1. first'[w] = first[w] /\ inFlight' = inFlight \cup {first[w]}
    BY <1>6 DEF Register
  <2>2. Busy(w)'
    BY <1>6, <1>a DEF Register, Busy, WorkerType
  <2>3. ~Busy(w)
    BY <1>6 DEF Register, Busy
  <2>. QED
    BY <2>1, <2>2, <2>3, <1>b DEF InFlightHeld, Untouched, Busy
<1>7. CASE FetchFromPeer(w)
  BY <1>7, <1>a, <1>c DEF FetchFromPeer, Busy, WorkerType
<1>8. CASE PeerFails(w)
  BY <1>8, <1>a, <1>c DEF PeerFails, Busy, WorkerType
<1>9. CASE Respond(w)
  BY <1>9, <1>a, <1>c DEF Respond, Busy, WorkerType
<1>10. CASE RequestFails(w)
  BY <1>10, <1>a, <1>c DEF RequestFails, BatchBreaks, Busy, WorkerType
<1>11. CASE StorePiece(w)
  BY <1>11, <1>a, <1>c DEF StorePiece, Busy, WorkerType
<1>12. CASE StoreFails(w)
  BY <1>12, <1>a, <1>c DEF StoreFails, BatchBreaks, Busy, WorkerType
<1>13. CASE Account(w)
  BY <1>13, <1>a, <1>c DEF Account, Busy, WorkerType
<1>14. CASE Release(w)
  <2>1. inFlight' = inFlight \ {first[w]}
    BY <1>14 DEF Release, WithoutEntry
  <2>2. ASSUME NEW p \in inFlight'
        PROVE  \E v \in Worker : first'[v] = p /\ Busy(v)'
    <3>1. PICK v \in Worker : first[v] = p /\ Busy(v)
      BY <2>1, <2>2 DEF InFlightHeld
    <3>2. v # w
      BY <2>1, <2>2, <3>1
    <3>. QED
      BY <3>1, <3>2, <1>b DEF Untouched, Busy
  <2>. QED
    BY <2>2 DEF InFlightHeld
<1>15. CASE Fail(w)
  <2>1. CASE w \in viaPeer
    BY <1>15, <2>1, <1>a, <1>c DEF Fail, Busy, WorkerType
  <2>2. CASE w \notin viaPeer
    BY <1>15, <2>2, <1>d DEF Fail, Busy
  <2>. QED
    BY <2>1, <2>2
<1>16. CASE Exit(w)
  BY <1>16, <1>d DEF Exit, Busy
<1>17. CASE Done(w)
  BY <1>17, <1>d DEF Done, Busy
<1>. QED
  BY <1>1, <1>2, <1>3, <1>4, <1>5, <1>6, <1>7, <1>8, <1>9, <1>10, <1>11, <1>12,
     <1>13, <1>14, <1>15, <1>16, <1>17 DEF WorkerStep

\* The monitor's scan and the calling goroutine leave the table's owners alone
\* (adaptive.go:420-436).
LEMMA HeldOutside == ASSUME TypeOK, InFlightHeld, OutsideStep PROVE InFlightHeld'
<1>1. CASE UNCHANGED workerVars
  BY <1>1 DEF OutsideStep, workerVars, batchVars, InFlightHeld, Busy
<1>2. ASSUME NEW w \in Worker, Spawned(w) PROVE InFlightHeld'
  <2>1. ~Busy(w) /\ UNCHANGED <<first, viaPeer, inFlight>>
    BY <1>2 DEF Spawned, batchVars, Busy, OutsideStep
  <2>2. \A v \in Worker \ {w} : pc'[v] = pc[v]
    BY <1>2 DEF Spawned, TypeOK, WorkerType
  <2>. QED
    BY <2>1, <2>2 DEF InFlightHeld, Busy
<1>. QED
  BY <1>1, <1>2 DEF OutsideStep

\* A straggler in the table always belongs to a worker still on that batch.
THEOREM StragglersAreOwned == Spec => []InFlightHeld
<1>1. Init => InFlightHeld
  BY DEF Init, InFlightHeld
<1>2. TypeOK /\ BatchShape /\ InFlightHeld /\ [Next]_vars => InFlightHeld'
  BY HeldWorker, HeldOutside, OutsideSteps, StutterOutside DEF Next
<1>. QED
  BY <1>1, <1>2, TypeInvariance, PTL DEF Spec
-----------------------------------------------------------------------------
(* The output.  Seen from the store, the output file and the return value,  *)
(* a step is of one of five kinds.                                          *)

\* Worker w stores a piece: the one it was asked for, unless from a full body.
Stores(w) ==
  /\ pc[w] \in {"peer", "store"}
  /\ main # "done"
  /\ \/ store' = [store EXCEPT ![next[w]] = next[w]]
     \/ w \in full /\ store' = [store EXCEPT ![next[w]] = next[w] - first[w]]

Quiet == UNCHANGED <<store, out, result>> /\ (main' = main \/ main' \notin {"close", "done"})

Returns == /\ main \in {"failing", "assemble"}
           /\ main' = "done" /\ result' = "error" /\ UNCHANGED <<store, out>>

Passes == /\ main = "assemble" /\ main' = "close"
          /\ Unwritten = {} /\ (HasSHA => HashMatches)
          /\ UNCHANGED <<store, out, result>>

Kinds == \/ Quiet /\ main # "done" /\ main' # "done"
         \/ Quiet /\ main = "done" /\ main' = main
         \/ \E w \in Worker : Stores(w) /\ UNCHANGED <<out, result, main>>
         \/ WritePiece
         \/ Returns
         \/ Passes
         \/ Close

\* What a worker's step can do to the store, the output and the return value.
LEMMA KindsWorker ==
  ASSUME TypeOK, NEW w \in Worker, WorkerStep(w)
  PROVE  Kinds
<1> USE DEF Kinds, Quiet, sharedVars, mainVars
<1>1. CASE CheckStop(w)
  BY <1>1 DEF CheckStop
<1>2. CASE RetireIfSurplus(w)
  BY <1>2 DEF RetireIfSurplus
<1>3. CASE PeekCursor(w)
  BY <1>3 DEF PeekCursor
<1>4. CASE ClaimForPeer(w)
  BY <1>4 DEF ClaimForPeer
<1>5. CASE ClaimBatch(w)
  BY <1>5 DEF ClaimBatch
<1>6. CASE Register(w)
  BY <1>6 DEF Register
<1>7. CASE FetchFromPeer(w)
  BY <1>7 DEF FetchFromPeer, Stores, StoreOpen
<1>8. CASE PeerFails(w)
  BY <1>8 DEF PeerFails
<1>9. CASE Respond(w)
  BY <1>9 DEF Respond
<1>10. CASE RequestFails(w)
  BY <1>10 DEF RequestFails
<1>11. CASE StorePiece(w)
  BY <1>11 DEF StorePiece, Stores, StoreOpen, Content
<1>12. CASE StoreFails(w)
  BY <1>12 DEF StoreFails
<1>13. CASE Account(w)
  BY <1>13 DEF Account
<1>14. CASE Release(w)
  BY <1>14 DEF Release
<1>15. CASE Fail(w)
  BY <1>15 DEF Fail
<1>16. CASE Exit(w)
  BY <1>16 DEF Exit
<1>17. CASE Done(w)
  BY <1>17 DEF Done
<1>. QED
  BY <1>1, <1>2, <1>3, <1>4, <1>5, <1>6, <1>7, <1>8, <1>9, <1>10, <1>11, <1>12,
     <1>13, <1>14, <1>15, <1>16, <1>17 DEF WorkerStep

\* What the other goroutines' steps can do to them.
LEMMA KindsOutside ==
  ASSUME TypeOK, MonitorStep \/ Tick \/ MainStep \/ Cancel
  PROVE  Kinds
<1> USE DEF Kinds, Quiet, sharedVars, mainVars
<1>1. CASE MonitorStop
  BY <1>1 DEF MonitorStop
<1>2. CASE ScaleUp
  BY <1>2 DEF ScaleUp
<1>3. CASE ScaleDown
  BY <1>3 DEF ScaleDown
<1>4. CASE KeepSize
  BY <1>4 DEF KeepSize
<1>5. CASE SpawnGrown
  BY <1>5 DEF SpawnGrown
<1>6. CASE SpawnedAll
  BY <1>6 DEF SpawnedAll
<1>7. CASE FindStraggler
  BY <1>7 DEF FindStraggler
<1>8. CASE Rescue
  BY <1>8 DEF Rescue
<1>9. CASE ScanOver
  BY <1>9 DEF ScanOver
<1>10. CASE SendProgress
  BY <1>10 DEF SendProgress
<1>11. CASE Tick
  BY <1>11 DEF Tick
<1>12. CASE SpawnInitial
  BY <1>12 DEF SpawnInitial
<1>13. CASE StartMonitor
  BY <1>13 DEF StartMonitor
<1>14. CASE Wait
  BY <1>14 DEF Wait
<1>15. CASE Wake
  BY <1>15 DEF Wake
<1>16. CASE Join
  BY <1>16 DEF Join
<1>17. CASE ReturnFirstError
  BY <1>17 DEF ReturnFirstError, ReturnError, Returns, Passes
<1>18. CASE WritePiece
  BY <1>18 DEF WritePiece
<1>19. CASE AssembleFails
  BY <1>19 DEF AssembleFails, ReturnError, Returns, Passes
<1>20. CASE Verify
  BY <1>20 DEF Verify, Rejected, ReturnError, Returns, Passes
<1>21. CASE Close
  BY <1>21 DEF Close
<1>22. CASE Cancel
  BY <1>22 DEF Cancel
<1>. QED
  BY <1>1, <1>2, <1>3, <1>4, <1>5, <1>6, <1>7, <1>8,
     <1>9, <1>10, <1>11, <1>12, <1>13, <1>14, <1>15, <1>16,
     <1>17, <1>18, <1>19, <1>20, <1>21, <1>22 DEF MonitorStep, MainStep

\* Every step of the engine is of one of the kinds the refinement looks at.
LEMMA KindsOfSteps == TypeOK /\ [Next]_vars => Kinds
<1>1. UNCHANGED vars => Kinds
  BY DEF Kinds, Quiet, vars, sharedVars, mainVars
<1>. QED
  BY <1>1, KindsWorker, KindsOutside DEF Next

\* A worker stores only a piece that is not stored.
LEMMA StoreIsFresh ==
  ASSUME TypeOK, BatchShape, ClaimsExclusive, NEW w \in Worker, pc[w] \in {"peer", "store"}
  PROVE  next[w] \in Piece /\ store[next[w]] = NoData
<1>1. next[w] <= last[w]
  BY DEF BatchShape, ShapeOf
<1>2. next[w] \in 0 .. N /\ last[w] \in -1 .. N - 1 /\ N \in Nat
  BY SizesAssumption DEF TypeOK, WorkerType
<1>3. next[w] \in Pending(w) /\ next[w] \in Piece
  BY <1>1, <1>2 DEF Pending, Piece
<1>. QED
  BY <1>3 DEF ClaimsExclusive

\* A stored piece keeps its bytes in every step (adaptive.go:295-297, 530-545).
LEMMA StoredStays ==
  ASSUME TypeOK, BatchShape, ClaimsExclusive, Kinds
  PROVE  \A p \in Piece : store[p] # NoData => store'[p] = store[p]
<1>1. CASE UNCHANGED store
  BY <1>1
<1>2. ASSUME NEW w \in Worker, Stores(w)
      PROVE  \A p \in Piece : store[p] # NoData => store'[p] = store[p]
  <2>1. next[w] \in Piece /\ store[next[w]] = NoData
    BY <1>2, StoreIsFresh DEF Stores
  <2>2. \A p \in Piece \ {next[w]} : store'[p] = store[p]
    BY <1>2 DEF Stores, TypeOK, SharedType
  <2>. QED
    BY <2>1, <2>2
<1>. QED
  BY <1>1, <1>2 DEF Kinds, Quiet, WritePiece, sharedVars, Returns, Passes, Close

\* No piece is stored twice: what a worker, a peer or a reassembly read stays.
THEOREM PiecesStay == Spec => StoredOnce
<1>1. TypeOK /\ BatchShape /\ ClaimsExclusive /\ [Next]_vars
        => [\A p \in Piece : store[p] # NoData => store'[p] = store[p]]_vars
  BY KindsOfSteps, StoredStays
<1>. QED
  BY <1>1, TypeInvariance, ClaimsAreExclusive, PTL DEF Spec, StoredOnce

\* What the output needs: trusted bytes are the right ones, the output is a
\* copy of the store, and main closes or returns nil only behind the checks.
Contents == Ranged /\ "fullbody" \notin Faults
              => full = {} /\ \A p \in Piece : store[p] \in {p, NoData}
Copied == \A p \in Piece : out[p] # NoData => out[p] = store[p]
Returned ==
  /\ main # "done" => result = "none"
  /\ main = "close" \/ result = "ok" => Unwritten = {} /\ (HasSHA => HashMatches)

\* Where sources honour ranges no worker ever splits a whole-file body
\* (adaptive.go:514-528).
LEMMA FullWorker ==
  ASSUME Ranged, "fullbody" \notin Faults, full = {}, NEW w \in Worker, WorkerStep(w)
  PROVE  full' = {}
<1> USE DEF batchVars
<1>1. CASE CheckStop(w)
  BY <1>1 DEF CheckStop
<1>2. CASE RetireIfSurplus(w)
  BY <1>2 DEF RetireIfSurplus
<1>3. CASE PeekCursor(w)
  BY <1>3 DEF PeekCursor
<1>4. CASE ClaimForPeer(w)
  BY <1>4 DEF ClaimForPeer
<1>5. CASE ClaimBatch(w)
  BY <1>5 DEF ClaimBatch
<1>6. CASE Register(w)
  BY <1>6 DEF Register
<1>7. CASE FetchFromPeer(w)
  BY <1>7 DEF FetchFromPeer
<1>8. CASE PeerFails(w)
  BY <1>8 DEF PeerFails
<1>9. CASE Respond(w)
  BY <1>9 DEF Respond
<1>10. CASE RequestFails(w)
  BY <1>10 DEF RequestFails
<1>11. CASE StorePiece(w)
  BY <1>11 DEF StorePiece
<1>12. CASE StoreFails(w)
  BY <1>12 DEF StoreFails
<1>13. CASE Account(w)
  BY <1>13 DEF Account
<1>14. CASE Release(w)
  BY <1>14 DEF Release, ClearBatch
<1>15. CASE Fail(w)
  BY <1>15 DEF Fail
<1>16. CASE Exit(w)
  BY <1>16 DEF Exit, ClearBatch
<1>17. CASE Done(w)
  BY <1>17 DEF Done
<1>. QED
  BY <1>1, <1>2, <1>3, <1>4, <1>5, <1>6, <1>7, <1>8, <1>9, <1>10, <1>11, <1>12,
     <1>13, <1>14, <1>15, <1>16, <1>17 DEF WorkerStep

\* Where sources honour ranges the store holds, under every index, nothing or
\* that piece (adaptive.go:530-545).
LEMMA ContentsStep ==
  ASSUME TypeOK, BatchShape, ClaimsExclusive, Contents, [Next]_vars
  PROVE  Contents'
<1> SUFFICES ASSUME Ranged, "fullbody" \notin Faults
             PROVE  full' = {} /\ \A p \in Piece : store'[p] \in {p, NoData}
  BY DEF Contents, Ranged
<1>0. full = {} /\ \A p \in Piece : store[p] \in {p, NoData}
  BY DEF Contents
<1>1. full' = {}
  <2>1. CASE \E w \in Worker : WorkerStep(w)
    BY <2>1, <1>0, FullWorker
  <2>2. CASE OutsideStep
    BY <2>2, <1>0 DEF OutsideStep, Spawned, workerVars, batchVars
  <2>. QED
    BY <2>1, <2>2, OutsideSteps, StutterOutside DEF Next
<1>2. \A p \in Piece : store'[p] \in {p, NoData}
  <2>0. Kinds
    BY KindsOfSteps
  <2>1. CASE UNCHANGED store
    BY <2>1, <1>0
  <2>2. ASSUME NEW w \in Worker, Stores(w)
        PROVE  \A p \in Piece : store'[p] \in {p, NoData}
    <3>1. store' = [store EXCEPT ![next[w]] = next[w]]
      BY <2>2, <1>0 DEF Stores
    <3>. QED
      BY <3>1, <1>0 DEF TypeOK, SharedType
  <2>. QED
    BY <2>0, <2>1, <2>2 DEF Kinds, Quiet, WritePiece, sharedVars, Returns, Passes, Close
<1>. QED
  BY <1>1, <1>2

\* What is in the output is what the store held (adaptive.go:464-472).
LEMMA CopiedStep ==
  ASSUME TypeOK, BatchShape, ClaimsExclusive, Copied, [Next]_vars
  PROVE  Copied'
<1>0. Kinds
  BY KindsOfSteps
<1>1. \A p \in Piece : store[p] # NoData => store'[p] = store[p]
  BY <1>0, StoredStays
<1>2. CASE UNCHANGED out
  <2>1. ASSUME NEW p \in Piece, out[p] # NoData PROVE out[p] = store'[p]
    BY <2>1, <1>1 DEF Copied
  <2>. QED
    BY <2>1, <1>2 DEF Copied
<1>3. CASE WritePiece
  <2>1. PICK p \in Piece : out' = [out EXCEPT ![p] = store[p]]
    BY <1>3 DEF WritePiece, Unwritten
  <2>2. UNCHANGED store
    BY <1>3 DEF WritePiece, sharedVars
  <2>. QED
    BY <2>1, <2>2 DEF Copied, TypeOK, MainType
<1>. QED
  BY <1>0, <1>2, <1>3 DEF Kinds, Quiet, Returns, Passes, Close

\* The return value is nil only behind a complete output that passed the hash
\* check (adaptive.go:455-497).
LEMMA ReturnedStep ==
  ASSUME TypeOK, Returned, [Next]_vars
  PROVE  Returned'
<1>0. Kinds
  BY KindsOfSteps
<1>1. CASE UNCHANGED <<out, result>> /\ (main' = main \/ main' \notin {"close", "done"}) /\ (main' # "done" => main # "done")
  BY <1>1 DEF Returned, Unwritten, HashMatches
<1>2. CASE WritePiece
  BY <1>2 DEF WritePiece, Returned
<1>3. CASE Returns
  BY <1>3 DEF Returns, Returned
<1>4. CASE Passes
  BY <1>4 DEF Passes, Returned, Unwritten, HashMatches
<1>5. CASE Close
  BY <1>5 DEF Close, Returned, Unwritten, HashMatches
<1>. QED
  BY <1>0, <1>1, <1>2, <1>3, <1>4, <1>5 DEF Kinds, Quiet

OutputInv == Contents /\ Copied /\ Returned

\* The output invariant holds always: contents, copies and the return value
\* agree (adaptive.go:452-497).
THEOREM OutputInvariance == Spec => []OutputInv
<1>1. Init => OutputInv
  <2>1. Init => Contents
    BY DEF Init, Contents
  <2>2. Init => Copied /\ Returned
    BY DEF Init, Copied, Returned
  <2>. QED
    BY <2>1, <2>2 DEF OutputInv
<1>2. TypeOK /\ BatchShape /\ ClaimsExclusive /\ OutputInv /\ [Next]_vars => OutputInv'
  BY ContentsStep, CopiedStep, ReturnedStep DEF OutputInv
<1>. QED
  BY <1>1, <1>2, TypeInvariance, ClaimsAreExclusive, PTL DEF Spec

\* A complete output of trusted bytes, or one whose hash matches, is the file.
LEMMA CompleteIsFile ==
  ASSUME TypeOK, OutputInv, BytesTrusted, main = "close" \/ result = "ok"
  PROVE  HashMatches
<1>1. CASE HasSHA
  BY <1>1 DEF OutputInv, Returned
<1>2. CASE Ranged /\ "fullbody" \notin Faults
  <2>1. ASSUME NEW p \in Piece PROVE out[p] = p
    <3>1. out[p] # NoData
      BY DEF OutputInv, Returned, Unwritten
    <3>2. out[p] = store[p]
      BY <3>1 DEF OutputInv, Copied
    <3>3. store[p] \in {p, NoData}
      BY <1>2 DEF OutputInv, Contents
    <3>. QED
      BY <3>1, <3>2, <3>3
  <2>. QED
    BY <2>1 DEF HashMatches, TypeOK, MainType
<1>. QED
  BY <1>1, <1>2 DEF BytesTrusted

\* A nil return means that the output is the file, whatever faults happened.
THEOREM ReturnedFileIsRight == Spec => []OutputIsFile
<1>1. TypeOK /\ OutputInv => OutputIsFile
  BY CompleteIsFile DEF OutputIsFile, HashMatches
<1>. QED
  BY <1>1, TypeCorrect, OutputInvariance, PTL

\* The channel is closed by the successful return alone, and the monitor's
\* crash comes behind it (adaptive.go:439, 496-497).
Closing == /\ closed => result = "ok"
           /\ crash = "send on closed channel" => closed

ClosesNothing == /\ "progress" \in raised' => "progress" \in raised
                 /\ "progress" \in raised => "progress" \in raised'
                 /\ crash' \in {crash, "WaitGroup is reused"}
                 /\ result' = result \/ main # "done"

\* No step of a worker closes the channel (adaptive.go:249-357).
LEMMA WorkersCloseNothing ==
  ASSUME NEW w \in Worker, WorkerStep(w)
  PROVE  ClosesNothing
<1> USE DEF ClosesNothing, mainVars
<1>1. CASE CheckStop(w)
  BY <1>1 DEF CheckStop
<1>2. CASE RetireIfSurplus(w)
  BY <1>2 DEF RetireIfSurplus
<1>3. CASE PeekCursor(w)
  BY <1>3 DEF PeekCursor
<1>4. CASE ClaimForPeer(w)
  BY <1>4 DEF ClaimForPeer
<1>5. CASE ClaimBatch(w)
  BY <1>5 DEF ClaimBatch
<1>6. CASE Register(w)
  BY <1>6 DEF Register
<1>7. CASE FetchFromPeer(w)
  BY <1>7 DEF FetchFromPeer
<1>8. CASE PeerFails(w)
  BY <1>8 DEF PeerFails
<1>9. CASE Respond(w)
  BY <1>9 DEF Respond
<1>10. CASE RequestFails(w)
  BY <1>10 DEF RequestFails
<1>11. CASE StorePiece(w)
  BY <1>11 DEF StorePiece
<1>12. CASE StoreFails(w)
  BY <1>12 DEF StoreFails
<1>13. CASE Account(w)
  BY <1>13 DEF Account
<1>14. CASE Release(w)
  BY <1>14 DEF Release
<1>15. CASE Fail(w)
  BY <1>15 DEF Fail, FailRaises
<1>16. CASE Exit(w)
  BY <1>16 DEF Exit
<1>17. CASE Done(w)
  BY <1>17 DEF Done
<1>. QED
  BY <1>1, <1>2, <1>3, <1>4, <1>5, <1>6, <1>7, <1>8, <1>9, <1>10, <1>11,
     <1>12, <1>13, <1>14, <1>15, <1>16, <1>17 DEF WorkerStep

\* No other step does, but the send of the monitor and the close themselves
\* (adaptive.go:363-498).
LEMMA OthersCloseNothing ==
  ASSUME MonitorStep \/ Tick \/ MainStep \/ Cancel, ~SendProgress, ~Close
  PROVE  ClosesNothing
<1> USE DEF ClosesNothing, mainVars
<1>1. CASE MonitorStop
  BY <1>1 DEF MonitorStop
<1>2. CASE ScaleUp
  BY <1>2 DEF ScaleUp
<1>3. CASE ScaleDown
  BY <1>3 DEF ScaleDown
<1>4. CASE KeepSize
  BY <1>4 DEF KeepSize
<1>5. CASE SpawnGrown
  BY <1>5 DEF SpawnGrown
<1>6. CASE SpawnedAll
  BY <1>6 DEF SpawnedAll
<1>7. CASE FindStraggler
  BY <1>7 DEF FindStraggler
<1>8. CASE Rescue
  BY <1>8 DEF Rescue
<1>9. CASE ScanOver
  BY <1>9 DEF ScanOver
<1>10. CASE Tick
  BY <1>10 DEF Tick
<1>11. CASE SpawnInitial
  BY <1>11 DEF SpawnInitial
<1>12. CASE StartMonitor
  BY <1>12 DEF StartMonitor
<1>13. CASE Wait
  BY <1>13 DEF Wait
<1>14. CASE Wake
  BY <1>14 DEF Wake
<1>15. CASE Join
  BY <1>15 DEF Join
<1>16. CASE ReturnFirstError
  BY <1>16 DEF ReturnFirstError, ReturnError
<1>17. CASE WritePiece
  BY <1>17 DEF WritePiece
<1>18. CASE AssembleFails
  BY <1>18 DEF AssembleFails, ReturnError
<1>19. CASE Verify
  BY <1>19 DEF Verify, ReturnError
<1>20. CASE Cancel
  BY <1>20 DEF Cancel
<1>. QED
  BY <1>1, <1>2, <1>3, <1>4, <1>5, <1>6, <1>7, <1>8, <1>9, <1>10, <1>11,
     <1>12, <1>13, <1>14, <1>15, <1>16, <1>17, <1>18, <1>19, <1>20 DEF MonitorStep, MainStep

\* A crash of the monitor costs the return value and no data: it comes only
\* after the output was written and compared with its hash.
THEOREM CrashComesLate == Spec => []CrashLosesNoData
<1>1. Init => Closing
  BY DEF Init, Closing, closed
<1>2. ASSUME Closing, Returned, [Next]_vars
      PROVE  Closing'
  <2>1. CASE ClosesNothing
    BY <1>2, <2>1 DEF ClosesNothing, Closing, Returned, closed
  <2>2. CASE SendProgress
    BY <1>2, <2>2 DEF SendProgress, Closing, closed
  <2>3. CASE Close
    BY <1>2, <2>3 DEF Close, Closing, closed
  <2>4. CASE UNCHANGED vars
    BY <1>2, <2>4 DEF vars, mainVars, Closing, closed
  <2>. QED
    BY <1>2, <2>1, <2>2, <2>3, <2>4, WorkersCloseNothing, OthersCloseNothing DEF Next
<1>3. Closing /\ Returned => CrashLosesNoData
  BY DEF Closing, Returned, CrashLosesNoData, Rejected
<1>4. OutputInv => Returned
  BY DEF OutputInv
<1>. QED
  BY <1>1, <1>2, <1>3, <1>4, OutputInvariance, PTL DEF Spec

-----------------------------------------------------------------------------
(* The engine implements Download. *)

Got == {p \in Piece : store[p] = p}
Written == IF Unwritten = Piece THEN "none" ELSE IF HashMatches THEN "whole" ELSE "partial"

\* The engine's initial states are initial states of Download.
LEMMA RefinementInit == Init => Abstract!Init
<1> SUFFICES ASSUME Init PROVE Abstract!Init
  OBVIOUS
<1>1. Got = {}
  BY NoDataAssumption DEF Init, Got, Piece
<1>2. Unwritten = Piece
  BY DEF Init, Unwritten
<1>. QED
  BY <1>1, <1>2 DEF Init, Got, Abstract!Init

\* Storing a piece adds to what was collected.
LEMMA StoresCollects ==
  ASSUME TypeOK, BatchShape, ClaimsExclusive, Returned, Kinds,
         NEW w \in Worker, Stores(w), UNCHANGED <<out, result, main>>
  PROVE  Abstract!Collect
<1>1. \A p \in Piece : store[p] # NoData => store'[p] = store[p]
  BY StoredStays
<1>2. Got \subseteq Got'
  BY <1>1, NoDataAssumption DEF Got, Piece
<1>3. Got' = Got \cup Got' /\ Got' \in SUBSET Piece
  BY <1>2 DEF Got
<1>4. result = "none"
  BY DEF Returned, Stores
<1>5. UNCHANGED Written
  BY DEF Written, Unwritten, HashMatches
<1>. QED
  BY <1>3, <1>4, <1>5 DEF Abstract!Collect, Got, Written

\* Writing a piece never makes the output whole from an incomplete store.
LEMMA WritePieceWrites ==
  ASSUME TypeOK, OutputInv, WritePiece, Copied'
  PROVE  Abstract!Write
<1>1. UNCHANGED <<store, result>>
  BY DEF WritePiece, sharedVars
<1>2. result = "none"
  BY DEF WritePiece, OutputInv, Returned
<1>3. PICK p \in Piece : out'[p] # NoData
  BY DEF WritePiece, Unwritten, TypeOK, MainType
<1>4. Unwritten' # Piece
  BY <1>3 DEF Unwritten
<1>5. Written' \in {"partial", "whole"}
  BY <1>4 DEF Written
<1>6. ASSUME HashMatches' PROVE Got = Piece
  <2>1. ASSUME NEW q \in Piece PROVE store[q] = q
    <3>1. out'[q] = q /\ q # NoData
      BY <1>6, NoDataAssumption DEF HashMatches, Piece
    <3>. QED
      BY <3>1, <1>1 DEF Copied
  <2>. QED
    BY <2>1 DEF Got
<1>7. Written' = "whole" => Got = Piece
  BY <1>4, <1>6 DEF Written
<1>8. Got' = Got
  BY <1>1 DEF Got
<1>. QED
  BY <1>1, <1>2, <1>5, <1>7, <1>8 DEF Abstract!Write, Got, Written

\* Every step of the engine is a step of Download or a stutter, where the bytes
\* are trusted or hashed (adaptive.go:219-498).
LEMMA RefinementStep ==
  ASSUME TypeOK, BatchShape, ClaimsExclusive, OutputInv, Copied', BytesTrusted, [Next]_vars
  PROVE  [Abstract!Next]_(Abstract!vars)
<1>0. Kinds
  BY KindsOfSteps
<1>1. CASE UNCHANGED <<store, out, result>>
  BY <1>1 DEF Abstract!vars, Unwritten, HashMatches
<1>2. ASSUME NEW w \in Worker, Stores(w), UNCHANGED <<out, result, main>>
      PROVE  Abstract!Next
  BY <1>0, <1>2, StoresCollects DEF OutputInv, Abstract!Next
<1>3. CASE WritePiece
  BY <1>3, WritePieceWrites DEF Abstract!Next
<1>4. CASE Returns
  <2>1. result = "none"
    BY <1>4 DEF Returns, OutputInv, Returned
  <2>2. UNCHANGED <<Got, Written>> /\ result' = "error"
    BY <1>4 DEF Returns, Got, Written, Unwritten, HashMatches
  <2>. QED
    BY <2>1, <2>2 DEF Abstract!Next, Abstract!Fail, Got, Written
<1>5. CASE Close
  <2>1. result = "none" /\ HashMatches /\ Unwritten = {}
    BY <1>5, CompleteIsFile DEF Close, OutputInv, Returned
  <2>2. 0 \in Piece
    BY SizesAssumption DEF Piece
  <2>3. Written = "whole"
    BY <2>1, <2>2 DEF Written
  <2>4. UNCHANGED <<Got, Written>> /\ result' = "ok"
    BY <1>5 DEF Close, sharedVars, Got, Written, Unwritten, HashMatches
  <2>. QED
    BY <2>1, <2>3, <2>4 DEF Abstract!Next, Abstract!Succeed, Got, Written
<1>. QED
  BY <1>0, <1>1, <1>2, <1>3, <1>4, <1>5 DEF Kinds, Quiet, Passes

\* DownloadAdaptive implements Download whenever its sources' bytes can be
\* trusted: pieces are only added, the output is whole only from all of them,
\* and it returns nil only with the whole file.
THEOREM Implementation == ASSUME BytesTrusted PROVE Spec => ImplementsDownload
<1>1. Init => Abstract!Init
  BY RefinementInit
<1>2. /\ TypeOK /\ BatchShape /\ ClaimsExclusive /\ OutputInv /\ Copied'
      /\ [Next]_vars
      => [Abstract!Next]_(Abstract!vars)
  BY RefinementStep
<1>3. OutputInv => Copied
  BY DEF OutputInv
<1>. QED
  BY <1>1, <1>2, <1>3, TypeInvariance, ClaimsAreExclusive, OutputInvariance, PTL
     DEF Spec, ImplementsDownload, Abstract!Spec
-----------------------------------------------------------------------------
(* A pool that cannot shrink.  As long as pieces are unclaimed and nothing   *)
(* failed or was cancelled, no worker has left, so the caller cannot have    *)
(* found the pool empty; and once it has, every piece is stored.             *)

Calm == cursor < N /\ ~failed /\ ~ctxDone

Steady ==
  /\ stopped => failed
  /\ main = "spawn" => mpc = "off"
  /\ main # "spawn" => toSpawn = 0
  /\ Calm => /\ active + toSpawn = PoolMin /\ desired = PoolMin
             /\ mpc # "spawn"
             /\ mpc \in {"scale", "rescue"} => mActive = PoolMin
             /\ \A w \in Worker : pc[w] \notin {"exit", "done"} /\ seen[w] <= PoolMin
             /\ toSpawn < PoolMin => \E w \in Worker : pc[w] # "idle"

\* What the caller finds once the pool has joined, and what it returns.
Late == {"joined", "failing", "assemble", "close", "done"}
Stored == \A p \in Piece : store[p] # NoData
Complete ==
  /\ main \in Late => failed \/ ctxDone \/ Stored
  /\ main = "failing" => failed
  /\ result = "error" /\ "disk" \notin Faults => failed \/ ctxDone \/ Unwritten = {}

\* The numbers a fixed pool compares are integers.
LEMMA PoolNumbers ==
  ASSUME TypeOK
  PROVE  /\ cursor \in 0 .. N /\ N \in Nat
         /\ active \in Int /\ desired \in Int /\ mActive \in Int
         /\ toSpawn \in 0 .. PoolMin /\ PoolMin \in Nat \ {0}
         /\ pc \in [Worker -> WorkerLabels] /\ seen \in [Worker -> Int]
<1>1. toSpawn \in 0 .. PoolMin
  BY DEF TypeOK, MainType
<1>. QED
  BY <1>1, PoolSizes, SizesAssumption
     DEF TypeOK, SharedType, PoolType, WorkerType, MonitorType

\* While the pool is calm no worker step leads out of it: nobody sees a surplus
\* or a drained cursor (adaptive.go:255-290, 324-330).
LEMMA SteadyWorker ==
  ASSUME TypeOK, BatchShape, Steady, NEW w \in Worker, WorkerStep(w)
  PROVE  Steady'
<1> USE PoolNumbers DEF Steady, Calm, failed, ctxDone, stopped, Goto, poolVars,
        monitorVars, mainVars, sharedVars, BatchShape
<1>1. CASE CheckStop(w)
  BY <1>1 DEF CheckStop
<1>2. CASE RetireIfSurplus(w)
  BY <1>2 DEF RetireIfSurplus, Surplus
<1>3. CASE PeekCursor(w)
  BY <1>3 DEF PeekCursor
<1>4. CASE ClaimForPeer(w)
  BY <1>4 DEF ClaimForPeer
<1>5. CASE ClaimBatch(w)
  BY <1>5 DEF ClaimBatch, BatchEnd, CursorAfter, Least
<1>6. CASE Register(w)
  BY <1>6 DEF Register
<1>7. CASE FetchFromPeer(w)
  BY <1>7 DEF FetchFromPeer
<1>8. CASE PeerFails(w)
  BY <1>8 DEF PeerFails
<1>9. CASE Respond(w)
  BY <1>9 DEF Respond
<1>10. CASE RequestFails(w)
  BY <1>10 DEF RequestFails, BatchBreaks
<1>11. CASE StorePiece(w)
  BY <1>11 DEF StorePiece
<1>12. CASE StoreFails(w)
  BY <1>12 DEF StoreFails, BatchBreaks
<1>13. CASE Account(w)
  BY <1>13 DEF Account
<1>14. CASE Release(w)
  BY <1>14 DEF Release, ShapeOf
<1>15. CASE Fail(w)
  BY <1>15 DEF Fail, FailRaises
<1>16. CASE Exit(w)
  BY <1>16 DEF Exit
<1>17. CASE Done(w)
  BY <1>17 DEF Done
<1>. QED
  BY <1>1, <1>2, <1>3, <1>4, <1>5, <1>6, <1>7, <1>8, <1>9, <1>10, <1>11,
     <1>12, <1>13, <1>14, <1>15, <1>16, <1>17 DEF WorkerStep

\* The monitor finds the pool at its size and leaves it so; the caller cannot
\* change it after it has spawned all (adaptive.go:363-365, 389-432).
LEMMA SteadyOutside ==
  ASSUME TypeOK, Steady, PoolMin = PoolMax, MonitorStep \/ Tick \/ MainStep \/ Cancel
  PROVE  Steady'
<1> USE PoolNumbers DEF Steady, Calm, failed, ctxDone, stopped, poolVars, monitorVars,
        mainVars, sharedVars, workerVars
<1>1. CASE MonitorStop
  BY <1>1 DEF MonitorStop
<1>2. CASE ScaleUp
  BY <1>2 DEF ScaleUp, RoomFor
<1>3. CASE ScaleDown
  BY <1>3 DEF ScaleDown, AfterScale
<1>4. CASE KeepSize
  BY <1>4 DEF KeepSize, AfterScale
<1>5. CASE SpawnGrown
  BY <1>5 DEF SpawnGrown
<1>6. CASE SpawnedAll
  BY <1>6 DEF SpawnedAll, AfterScale
<1>7. CASE FindStraggler
  BY <1>7 DEF FindStraggler
<1>8. CASE Rescue
  BY <1>8 DEF Rescue, RoomFor, workerVars
<1>9. CASE ScanOver
  BY <1>9 DEF ScanOver
<1>10. CASE SendProgress
  <2>1. /\ mpc = "send" /\ mpc' = "select"
        /\ UNCHANGED <<active, desired, cursor, raised, pc, seen, main, toSpawn>>
    BY <1>10, Zenon DEF SendProgress
  <2>. QED
    BY <2>1
<1>11. CASE Tick
  BY <1>11 DEF Tick
<1>12. CASE SpawnInitial
  BY <1>12 DEF SpawnInitial, SpawnWorker, Goto
<1>13. CASE StartMonitor
  BY <1>13 DEF StartMonitor
<1>14. CASE Wait
  BY <1>14 DEF Wait
<1>15. CASE Wake
  <2>1. /\ main = "waking" /\ main' \in {"waking", "joined"}
        /\ UNCHANGED <<active, desired, cursor, raised, pc, seen, mpc, mActive, toSpawn>>
    BY <1>15, Zenon DEF Wake
  <2>2. UNCHANGED Calm
    BY <2>1
  <2>. QED
    BY <2>1, <2>2
<1>16. CASE Join
  BY <1>16 DEF Join
<1>17. CASE ReturnFirstError
  BY <1>17 DEF ReturnFirstError, ReturnError
<1>18. CASE WritePiece
  BY <1>18 DEF WritePiece
<1>19. CASE AssembleFails
  BY <1>19 DEF AssembleFails, ReturnError
<1>20. CASE Verify
  BY <1>20 DEF Verify, ReturnError
<1>21. CASE Close
  BY <1>21 DEF Close
<1>22. CASE Cancel
  BY <1>22 DEF Cancel
<1>. QED
  BY <1>1, <1>2, <1>3, <1>4, <1>5, <1>6, <1>7, <1>8, <1>9, <1>10, <1>11,
     <1>12, <1>13, <1>14, <1>15, <1>16, <1>17, <1>18, <1>19, <1>20,
     <1>21, <1>22 DEF MonitorStep, MainStep

\* A pool that cannot shrink stays at its size while there is work and nothing
\* went wrong.
LEMMA SteadyInvariance == ASSUME PoolMin = PoolMax PROVE Spec => []Steady
<1>1. Init => Steady
  <2> SUFFICES ASSUME Init PROVE Steady
    OBVIOUS
  <2>1. PoolMin \in Nat \ {0}
    BY PoolSizes
  <2>. QED
    BY <2>1 DEF Init, Steady, Calm, stopped
<1>2. TypeOK /\ BatchShape /\ Steady /\ [Next]_vars => Steady'
  <2>1. Steady /\ UNCHANGED vars => Steady'
    BY DEF Steady, Calm, failed, ctxDone, stopped, vars, poolVars, sharedVars, workerVars,
           monitorVars, mainVars
  <2>. QED
    BY <2>1, SteadyWorker, SteadyOutside DEF Next
<1>. QED
  BY <1>1, <1>2, TypeInvariance, PTL DEF Spec

\* The caller finds the pool empty only when no worker owes a piece and, of a
\* fixed pool, when everything was claimed (adaptive.go:452).
LEMMA EmptyPoolStored ==
  ASSUME TypeOK, BatchShape, NoPieceLost, Steady, main # "spawn", Running = {}
  PROVE  failed \/ ctxDone \/ Stored
<1> USE PoolNumbers
<1>1. \A w \in Worker : pc[w] = "idle"
  BY DEF Running
<1>2. \A w \in Worker : Pending(w) = {}
  <2>1. \A w \in Worker : next[w] = 0 /\ last[w] = -1
    BY <1>1 DEF BatchShape, ShapeOf, FreeLabels
  <2>. QED
    BY <2>1 DEF Pending
<1>3. ~Calm
  BY <1>1 DEF Steady
<1>4. CASE cursor = N
  BY <1>2, <1>4 DEF NoPieceLost, Stored, Piece
<1>. QED
  BY <1>3, <1>4 DEF Calm

\* Nothing that was raised is taken back.
LEMMA CausesKept == [Next]_vars => raised \subseteq raised'
<1> SUFFICES ASSUME [Next]_vars PROVE raised \subseteq raised'
  OBVIOUS
<1>1. ASSUME NEW w \in Worker, WorkerStep(w) PROVE raised \subseteq raised'
  <2>1. CASE CheckStop(w)
    BY <1>1, <2>1 DEF CheckStop
  <2>2. CASE RetireIfSurplus(w)
    BY <1>1, <2>2 DEF RetireIfSurplus
  <2>3. CASE PeekCursor(w)
    BY <1>1, <2>3 DEF PeekCursor
  <2>4. CASE ClaimForPeer(w)
    BY <1>1, <2>4 DEF ClaimForPeer
  <2>5. CASE ClaimBatch(w)
    BY <1>1, <2>5 DEF ClaimBatch
  <2>6. CASE Register(w)
    BY <1>1, <2>6 DEF Register
  <2>7. CASE FetchFromPeer(w)
    BY <1>1, <2>7 DEF FetchFromPeer
  <2>8. CASE PeerFails(w)
    BY <1>1, <2>8 DEF PeerFails
  <2>9. CASE Respond(w)
    BY <1>1, <2>9 DEF Respond
  <2>10. CASE RequestFails(w)
    BY <1>1, <2>10 DEF RequestFails
  <2>11. CASE StorePiece(w)
    BY <1>1, <2>11 DEF StorePiece
  <2>12. CASE StoreFails(w)
    BY <1>1, <2>12 DEF StoreFails
  <2>13. CASE Account(w)
    BY <1>1, <2>13 DEF Account
  <2>14. CASE Release(w)
    BY <1>1, <2>14 DEF Release
  <2>15. CASE Fail(w)
    BY <1>1, <2>15 DEF Fail
  <2>16. CASE Exit(w)
    BY <1>1, <2>16 DEF Exit
  <2>17. CASE Done(w)
    BY <1>1, <2>17 DEF Done
  <2>. QED
    BY <1>1, <2>1, <2>2, <2>3, <2>4, <2>5, <2>6, <2>7, <2>8, <2>9, <2>10, <2>11,
       <2>12, <2>13, <2>14, <2>15, <2>16, <2>17 DEF WorkerStep
<1>2. ASSUME MonitorStep \/ Tick \/ MainStep \/ Cancel PROVE raised \subseteq raised'
  <2>1. CASE MonitorStop
    BY <2>1 DEF MonitorStop
  <2>2. CASE ScaleUp
    BY <2>2 DEF ScaleUp
  <2>3. CASE ScaleDown
    BY <2>3 DEF ScaleDown
  <2>4. CASE KeepSize
    BY <2>4 DEF KeepSize
  <2>5. CASE SpawnGrown
    BY <2>5 DEF SpawnGrown
  <2>6. CASE SpawnedAll
    BY <2>6 DEF SpawnedAll
  <2>7. CASE FindStraggler
    BY <2>7 DEF FindStraggler
  <2>8. CASE Rescue
    BY <2>8 DEF Rescue
  <2>9. CASE ScanOver
    BY <2>9 DEF ScanOver
  <2>10. CASE SendProgress
    BY <2>10, Zenon DEF SendProgress
  <2>11. CASE Tick
    BY <2>11 DEF Tick
  <2>12. CASE SpawnInitial
    BY <2>12 DEF SpawnInitial
  <2>13. CASE StartMonitor
    BY <2>13 DEF StartMonitor
  <2>14. CASE Wait
    BY <2>14 DEF Wait
  <2>15. CASE Wake
    BY <2>15, Zenon DEF Wake
  <2>16. CASE Join
    BY <2>16 DEF Join
  <2>17. CASE ReturnFirstError
    BY <2>17 DEF ReturnFirstError, ReturnError
  <2>18. CASE WritePiece
    BY <2>18 DEF WritePiece
  <2>19. CASE AssembleFails
    BY <2>19 DEF AssembleFails, ReturnError
  <2>20. CASE Verify
    BY <2>20 DEF Verify, ReturnError
  <2>21. CASE Close
    BY <2>21 DEF Close
  <2>22. CASE Cancel
    BY <2>22 DEF Cancel
  <2>. QED
    BY <1>2, <2>1, <2>2, <2>3, <2>4, <2>5, <2>6, <2>7, <2>8, <2>9, <2>10, <2>11,
       <2>12, <2>13, <2>14, <2>15, <2>16, <2>17, <2>18, <2>19, <2>20,
       <2>21, <2>22 DEF MonitorStep, MainStep
<1>. QED
  BY <1>1, <1>2 DEF Next, vars

\* A cause stays a cause, and what is stored stays.
LEMMA CausesStay ==
  ASSUME TypeOK, BatchShape, ClaimsExclusive, [Next]_vars
  PROVE  failed \/ ctxDone \/ Stored => (failed \/ ctxDone \/ Stored)'
  BY CausesKept, KindsOfSteps, StoredStays DEF Stored, failed, ctxDone

\* How the caller gets on: it joins an empty pool, and returns in four ways.
MainMoves ==
  \/ main' = main \/ main' \notin Late
  \/ main \in {"wait", "waking"} /\ Running = {} /\ main' = "joined"
  \/ Join \/ ReturnFirstError \/ AssembleFails \/ Verify \/ Close

\* No other step moves the caller (adaptive.go:452-498).
LEMMA MainSteps == TypeOK /\ [Next]_vars => MainMoves
<1> SUFFICES ASSUME TypeOK, [Next]_vars PROVE MainMoves
  OBVIOUS
<1> USE DEF MainMoves, Late, mainVars
<1>1. ASSUME NEW w \in Worker, WorkerStep(w) PROVE MainMoves
  <2>1. CASE CheckStop(w)
    BY <1>1, <2>1 DEF CheckStop
  <2>2. CASE RetireIfSurplus(w)
    BY <1>1, <2>2 DEF RetireIfSurplus
  <2>3. CASE PeekCursor(w)
    BY <1>1, <2>3 DEF PeekCursor
  <2>4. CASE ClaimForPeer(w)
    BY <1>1, <2>4 DEF ClaimForPeer
  <2>5. CASE ClaimBatch(w)
    BY <1>1, <2>5 DEF ClaimBatch
  <2>6. CASE Register(w)
    BY <1>1, <2>6 DEF Register
  <2>7. CASE FetchFromPeer(w)
    BY <1>1, <2>7 DEF FetchFromPeer
  <2>8. CASE PeerFails(w)
    BY <1>1, <2>8 DEF PeerFails
  <2>9. CASE Respond(w)
    BY <1>1, <2>9 DEF Respond
  <2>10. CASE RequestFails(w)
    BY <1>1, <2>10 DEF RequestFails
  <2>11. CASE StorePiece(w)
    BY <1>1, <2>11 DEF StorePiece
  <2>12. CASE StoreFails(w)
    BY <1>1, <2>12 DEF StoreFails
  <2>13. CASE Account(w)
    BY <1>1, <2>13 DEF Account
  <2>14. CASE Release(w)
    BY <1>1, <2>14 DEF Release
  <2>15. CASE Fail(w)
    BY <1>1, <2>15 DEF Fail
  <2>16. CASE Exit(w)
    BY <1>1, <2>16 DEF Exit
  <2>17. CASE Done(w)
    BY <1>1, <2>17 DEF Done
  <2>. QED
    BY <1>1, <2>1, <2>2, <2>3, <2>4, <2>5, <2>6, <2>7, <2>8, <2>9, <2>10, <2>11,
       <2>12, <2>13, <2>14, <2>15, <2>16, <2>17 DEF WorkerStep
<1>2. ASSUME MonitorStep \/ Tick \/ MainStep \/ Cancel PROVE MainMoves
  <2>1. CASE MonitorStop
    BY <2>1 DEF MonitorStop
  <2>2. CASE ScaleUp
    BY <2>2 DEF ScaleUp
  <2>3. CASE ScaleDown
    BY <2>3 DEF ScaleDown
  <2>4. CASE KeepSize
    BY <2>4 DEF KeepSize
  <2>5. CASE SpawnGrown
    BY <2>5 DEF SpawnGrown
  <2>6. CASE SpawnedAll
    BY <2>6 DEF SpawnedAll
  <2>7. CASE FindStraggler
    BY <2>7 DEF FindStraggler
  <2>8. CASE Rescue
    BY <2>8 DEF Rescue
  <2>9. CASE ScanOver
    BY <2>9 DEF ScanOver
  <2>10. CASE SendProgress
    BY <2>10, Zenon DEF SendProgress
  <2>11. CASE Tick
    BY <2>11 DEF Tick
  <2>12. CASE SpawnInitial
    BY <2>12 DEF SpawnInitial
  <2>13. CASE StartMonitor
    BY <2>13 DEF StartMonitor
  <2>14. CASE Wait
    BY <2>14 DEF Wait
  <2>15. CASE Wake
    <3>1. CASE Running = {}
      BY <2>15, <3>1, Zenon DEF Wake
    <3>2. CASE Running # {}
      BY <2>15, <3>2, Zenon DEF Wake
    <3>. QED
      BY <3>1, <3>2
  <2>16. CASE Join
    BY <2>16
  <2>17. CASE ReturnFirstError
    BY <2>17
  <2>18. CASE WritePiece
    BY <2>18 DEF WritePiece
  <2>19. CASE AssembleFails
    BY <2>19
  <2>20. CASE Verify
    BY <2>20
  <2>21. CASE Close
    BY <2>21
  <2>22. CASE Cancel
    BY <2>22 DEF Cancel
  <2>. QED
    BY <1>2, <2>1, <2>2, <2>3, <2>4, <2>5, <2>6, <2>7, <2>8, <2>9, <2>10, <2>11,
       <2>12, <2>13, <2>14, <2>15, <2>16, <2>17, <2>18, <2>19, <2>20,
       <2>21, <2>22 DEF MonitorStep, MainStep
<1>. QED
  BY <1>1, <1>2 DEF Next, vars

\* A joined pool has stored every piece, unless something went wrong; an error
\* that is returned has a cause.
LEMMA CompleteStep ==
  ASSUME TypeOK, BatchShape, NoPieceLost, ClaimsExclusive, OutputInv, Steady, Complete,
         [Next]_vars
  PROVE  Complete'
<1>0. MainMoves /\ Kinds
  BY MainSteps, KindsOfSteps
<1>1. failed \/ ctxDone \/ Stored => (failed \/ ctxDone \/ Stored)'
  BY CausesStay
<1>2. failed => failed'
  BY CausesKept DEF failed
<1>3. main' \in Late => (failed \/ ctxDone \/ Stored)'
  <2>1. main \in Late => failed \/ ctxDone \/ Stored
    BY DEF Complete, Late
  <2>2. main \in {"wait", "waking"} /\ Running = {} => failed \/ ctxDone \/ Stored
    BY EmptyPoolStored
  <2>3. Join \/ ReturnFirstError \/ AssembleFails \/ Verify \/ Close => main \in Late
    BY DEF Join, ReturnFirstError, AssembleFails, Verify, Close, Late
  <2>. QED
    BY <1>0, <1>1, <2>1, <2>2, <2>3 DEF MainMoves
<1>4. main' = "failing" => failed'
  BY <1>0, <1>2 DEF MainMoves, Late, Complete, Join, ReturnFirstError, AssembleFails, Verify,
     Close, ReturnError, failed
<1>5. result' = "error" /\ "disk" \notin Faults => (failed \/ ctxDone \/ Unwritten = {})'
  <2> SUFFICES ASSUME result' = "error", "disk" \notin Faults
               PROVE  failed \/ ctxDone \/ Unwritten' = {}
    BY CausesKept DEF failed, ctxDone
  <2>1. CASE UNCHANGED <<out, result>>
    BY <2>1 DEF Complete, Unwritten
  <2>2. CASE WritePiece
    BY <2>2 DEF WritePiece, OutputInv, Returned
  <2>3. CASE Returns
    <3>1. ReturnFirstError \/ AssembleFails \/ Verify \/ Close
      BY <1>0, <2>3 DEF MainMoves, Returns, Late, Join
    <3>2. UNCHANGED Unwritten
      BY <2>3 DEF Returns, Unwritten
    <3>3. CASE ReturnFirstError
      BY <3>3 DEF ReturnFirstError, Complete
    <3>4. CASE AssembleFails
      <4>1. main = "assemble" /\ ~Stored
        BY <3>4 DEF AssembleFails, Stored, Unwritten
      <4>. QED
        BY <4>1 DEF Complete, Late
    <3>5. CASE Verify
      BY <3>2, <3>5 DEF Verify
    <3>6. CASE Close
      BY <2>3, <3>6 DEF Close, Returns
    <3>. QED
      BY <3>1, <3>3, <3>4, <3>5, <3>6
  <2>4. CASE Close
    BY <2>4 DEF Close
  <2>. QED
    BY <1>0, <2>1, <2>2, <2>3, <2>4 DEF Kinds, Quiet, Passes
<1>. QED
  BY <1>3, <1>4, <1>5 DEF Complete

\* A pool that cannot shrink, on a disk that works, ends with an error only when a
\* batch failed, the caller cancelled or everything was written and the hash is
\* wrong: workers that retire, failing peers and stragglers leave no hole
\* (adaptive.go:263-320, 459-470).
THEOREM ErrorsHaveCauses == Spec => []ErrorHasCause
<1>1. ASSUME PoolMin = PoolMax PROVE Spec => []Complete
  <2>1. Init => Complete
    BY DEF Init, Complete, Late
  <2>2. /\ TypeOK /\ BatchShape /\ NoPieceLost /\ ClaimsExclusive /\ OutputInv
        /\ Steady /\ Complete /\ [Next]_vars
        => Complete'
    BY CompleteStep
  <2>3. Spec => []Steady
    BY <1>1, SteadyInvariance
  <2>. QED
    BY <2>1, <2>2, <2>3, TypeInvariance, NothingLost, ClaimsAreExclusive,
       OutputInvariance, PTL DEF Spec
<1>2. CASE PoolMin = PoolMax
  <2>1. Spec => []Complete
    BY <1>1, <1>2
  <2>2. Complete => ErrorHasCause
    BY DEF Complete, ErrorHasCause
  <2>. QED
    BY <2>1, <2>2, PTL
<1>3. CASE PoolMin # PoolMax
  <2>1. ErrorHasCause
    BY <1>3 DEF ErrorHasCause
  <2>. QED
    BY <2>1, PTL
<1>. QED
  BY <1>2, <1>3
=============================================================================
