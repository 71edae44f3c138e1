--------------------------- MODULE ChunkPlanProofs ---------------------------
(***************************************************************************)
(* Theorems about ChunkPlan, for every file size, number of connections    *)
(* and piece size.  The inductive invariant says where the chunks made so  *)
(* far lie (at multiples of the chunk size), that the loop has as much     *)
(* file left as it has chunks left, and how far a batch has been cut.      *)
(***************************************************************************)
EXTENDS ChunkPlan, TLAPS

\* Chunk k starts at a multiple of the size, and is a full one unless it is
\* the last.
Placed(k) ==
  /\ chunks[k].first = (k - 1) * size
  /\ k < Len(chunks) => chunks[k].last = k * size - 1

\* What the loop knows: chunks are left to make, and what is left of the file
\* starts where the next multiple does.
LoopInv ==
  /\ size \in Nat \ {0} /\ n \in Nat \ {0}
  /\ Len(chunks) < n
  /\ Start = Len(chunks) * size /\ Start < total
  /\ IF planner = "Plan" THEN n * size <= total ELSE n * size >= total

\* What holds once all chunks are made.
PlannedInv ==
  /\ size \in Nat \ {0}
  /\ Len(chunks) >= 1
  /\ chunks[Len(chunks)].last = total - 1
  /\ (Len(chunks) - 1) * size < total
  /\ planner = "Plan" => Len(chunks) = n
  /\ planner = "PlanQueue" => Len(chunks) * size >= total

Cutting == {"cut", "short", "stored"}

\* A batch is a range of pieces.
BatchInv ==
  pc \in Cutting =>
    /\ planner = "PlanQueue"
    /\ from \in 1 .. to /\ to \in 1 .. Len(chunks)
    /\ pc = "cut" => cur \in from .. to

\* A file without bytes is planned as one chunk without bytes.
EmptyInv ==
  total <= 0 /\ planner = "PlanQueue" /\ pc # "setup" =>
    chunks = <<Chunk(0, total - 1)>> /\ pc # "loop"

PlanInv ==
  /\ pc = "setup" => chunks = <<>>
  /\ EmptyInv
  /\ total > 0 =>
       /\ \A k \in 1 .. Len(chunks) : Placed(k)
       /\ pc # "setup" /\ planner = "Plan" /\ total >= ChunkCount => n = ChunkCount
       /\ pc = "loop" => LoopInv
       /\ pc \notin {"setup", "loop"} => PlannedInv

CutInv == BatchInv /\ CutsAtPieces /\ NoPanic

\* Rounding up makes enough pieces.
LEMMA RoundUp ==
  ASSUME NEW t \in Nat \ {0}, NEW s \in Nat \ {0}
  PROVE  LET q == (t + s - 1) \div s IN q \in Nat \ {0} /\ q * s >= t
  OBVIOUS

\* Rounding down makes chunks that fit.
LEMMA RoundDown ==
  ASSUME NEW t \in Nat, NEW s \in Nat \ {0}
  PROVE  t \div s \in Nat /\ s * (t \div s) <= t /\ (t >= s => t \div s # 0)
  OBVIOUS

\* Multiples are in the order of their factors.
LEMMA Multiples ==
  ASSUME NEW a \in Int, NEW b \in Int, NEW s \in Nat \ {0}
  PROVE  /\ a < b => a * s + s <= b * s
         /\ a <= b => a * s <= b * s
         /\ (a + 1) * s = a * s + s
         /\ (a + 1 - 1) * s = a * s
         /\ a \in Nat => a * s \in Nat
  OBVIOUS

\* What appending a chunk does to the sequence.
LEMMA Appending ==
  ASSUME NEW s \in Seq(Chunks), NEW c \in Chunks
  PROVE  /\ Append(s, c) \in Seq(Chunks)
         /\ Len(Append(s, c)) = Len(s) + 1
         /\ Append(s, c)[Len(s) + 1] = c
         /\ Append(s, c) # <<>>
         /\ \A k \in 1 .. Len(s) : Append(s, c)[k] = s[k]
  OBVIOUS

\* The elements of a sequence of chunks have two integer bounds.
LEMMA Elements ==
  ASSUME NEW s \in Seq(Chunks), NEW k \in 1 .. Len(s)
  PROVE  s[k].first \in Int /\ s[k].last \in Int
<1>1. s[k] \in Chunks
  OBVIOUS
<1>. QED
  BY <1>1 DEF Chunks

\* A chunk of the plan has two integer bounds.
LEMMA ChunkTypes ==
  ASSUME TypeOK
  PROVE  /\ Len(chunks) \in Nat
         /\ \A k \in 1 .. Len(chunks) : chunks[k].first \in Int /\ chunks[k].last \in Int
         /\ chunks # <<>> => Len(chunks) \in 1 .. Len(chunks)
         /\ Start \in Int
         /\ size \in Int => End \in Int
         /\ total \in Int
<1> USE DEF TypeOK, Chunks
<1>1. total \in Int
  BY SizesAssumption
<1>2. Len(chunks) \in Nat /\ (chunks # <<>> => Len(chunks) \in 1 .. Len(chunks))
  OBVIOUS
<1>3. \A k \in 1 .. Len(chunks) : chunks[k].first \in Int /\ chunks[k].last \in Int
  BY Elements
<1>4. Start \in Int
  BY <1>2, <1>3 DEF Start
<1>. QED
  BY <1>1, <1>2, <1>3, <1>4 DEF End

\* The invariant holds initially.
LEMMA InitHolds == Init => TypeOK /\ PlanInv /\ CutInv
<1> SUFFICES ASSUME Init PROVE TypeOK /\ PlanInv /\ CutInv
  OBVIOUS
<1>1. TypeOK
  BY DEF Init, TypeOK
<1>2. PlanInv
  BY DEF Init, PlanInv, EmptyInv
<1>3. CutInv
  BY DEF Init, CutInv, NoPanic, BatchInv, CutsAtPieces, Cutting
<1>. QED
  BY <1>1, <1>2, <1>3

\* The setup of Plan establishes the loop's invariant.
LEMMA PlanSetupHolds ==
  ASSUME TypeOK, PlanInv, CutInv, PlanSetup
  PROVE  TypeOK' /\ PlanInv' /\ CutInv'
<1> USE DEF PlanSetup, planVars, batchVars
<1>1. ChunkCount \in Nat \ {0} /\ total \in Int
  BY AsksAssumption, SizesAssumption DEF TypeOK, ChunkCount
<1>2. size' \in Int /\ n' \in Int
  BY <1>1
<1>3. TypeOK'
  BY <1>2 DEF TypeOK
<1>4. chunks = <<>> /\ Start' = 0 /\ Len(chunks) = 0
  BY DEF PlanInv, Start
<1>5. ASSUME total > 0
      PROVE  /\ size' \in Nat \ {0} /\ n' \in Nat \ {0}
             /\ n' * size' <= total
             /\ total >= ChunkCount => n' = ChunkCount
  <2> total \in Nat \ {0}
    BY <1>1, <1>5
  <2>1. CASE total \div ChunkCount = 0
    BY <1>1, <2>1, RoundDown
  <2>2. CASE total \div ChunkCount # 0
    BY <1>1, <2>2, RoundDown
  <2>. QED
    BY <2>1, <2>2
<1>6. total > 0 => LoopInv'
  BY <1>4, <1>5 DEF LoopInv
<1>7. PlanInv'
  BY <1>4, <1>5, <1>6 DEF PlanInv, EmptyInv, ChunkCount
<1>8. CutInv'
  BY DEF CutInv, NoPanic, BatchInv, CutsAtPieces, Cutting
<1>. QED
  BY <1>3, <1>7, <1>8

\* The setup of PlanQueue establishes the loop's invariant, or is done.
LEMMA QueueSetupHolds ==
  ASSUME TypeOK, PlanInv, CutInv, QueueSetup
  PROVE  TypeOK' /\ PlanInv' /\ CutInv'
<1> USE DEF QueueSetup, planVars, batchVars
<1>1. PieceSize \in Nat \ {0} /\ total \in Int
  BY AsksAssumption, SizesAssumption, DefaultAssumption DEF TypeOK, PieceSize
<1>2. chunks = <<>> /\ Len(chunks) = 0
  BY DEF PlanInv
<1>3. CASE total <= PieceSize
  <2>1. Chunk(0, total - 1) \in Chunks
    BY <1>1 DEF Chunk, Chunks
  <2>2. chunks' = <<Chunk(0, total - 1)>> /\ Len(chunks') = 1 /\ chunks'[1] = Chunk(0, total - 1)
    BY <1>3
  <2>. UNCHANGED <<planner, total, asked, from, to, cur, base, body, offset>>
    OBVIOUS
  <2>3. TypeOK'
    <3>1. from' \in 0 .. 1 /\ to' \in 0 .. 1 /\ cur' \in 0 .. 1
      BY <1>2 DEF TypeOK
    <3>2. chunks' \in Seq(Chunks)
      BY <2>1, <2>2
    <3>. QED
      BY <1>1, <1>3, <2>2, <3>1, <3>2 DEF TypeOK
  <2>4. total > 0 => PlannedInv'
    BY <1>1, <1>3, <2>2 DEF PlannedInv, Chunk
  <2>5. \A k \in 1 .. Len(chunks') : Placed(k)'
    BY <1>1, <1>3, <2>2 DEF Placed, Chunk
  <2>6. PlanInv'
    BY <1>3, <2>2, <2>4, <2>5 DEF PlanInv, EmptyInv
  <2>7. CutInv'
    BY <1>3 DEF CutInv, NoPanic, BatchInv, CutsAtPieces, Cutting
  <2>. QED
    BY <2>3, <2>6, <2>7
<1>4. CASE ~(total <= PieceSize)
  <2>0. total \in Nat \ {0}
    BY <1>1, <1>4
  <2>1. Pieces \in Nat \ {0} /\ Pieces * PieceSize >= total
    BY <1>1, <2>0, RoundUp DEF Pieces
  <2>2. TypeOK'
    BY <1>1, <1>4, <2>1 DEF TypeOK
  <2>3. Start' = 0
    BY <1>2, <1>4 DEF Start
  <2>4. LoopInv'
    BY <1>1, <1>2, <1>4, <2>0, <2>1, <2>3 DEF LoopInv
  <2>5. PlanInv'
    BY <1>1, <1>2, <1>4, <2>4 DEF PlanInv, EmptyInv
  <2>6. CutInv'
    BY <1>4 DEF CutInv, NoPanic, BatchInv, CutsAtPieces, Cutting
  <2>. QED
    BY <2>2, <2>5, <2>6
<1>. QED
  BY <1>3, <1>4

\* One more chunk: it lies on the next multiple, and the loop ends exactly at
\* the end of the file.
LEMMA AddChunkHolds ==
  ASSUME TypeOK, PlanInv, CutInv, AddChunk
  PROVE  TypeOK' /\ PlanInv' /\ CutInv'
<1> DEFINE i == Len(chunks)
           c == Chunk(Start, End)
<1>1. /\ i \in Nat /\ Start \in Int /\ End \in Int /\ total \in Int
      /\ \A k \in 1 .. i : chunks[k].first \in Int /\ chunks[k].last \in Int
      /\ i # 0 => i \in 1 .. i
  BY ChunkTypes DEF TypeOK
<1>2. c \in Chunks /\ c.first = Start /\ c.last = End
  BY <1>1 DEF Chunk, Chunks
<1>3. /\ chunks' = Append(chunks, c) /\ chunks' \in Seq(Chunks)
      /\ Len(chunks') = i + 1 /\ chunks'[i + 1] = c /\ chunks' # <<>>
      /\ \A k \in 1 .. i : chunks'[k] = chunks[k]
  BY <1>2, Appending DEF AddChunk, TypeOK
<1>4. Start' = End + 1
  BY <1>2, <1>3 DEF Start
<1>5. TypeOK'
  BY <1>3 DEF TypeOK, AddChunk, planVars, batchVars
<1>6. ~(total <= 0 /\ planner = "PlanQueue")
  BY DEF PlanInv, EmptyInv, AddChunk
<1>7. ASSUME total > 0
      PROVE  /\ \A k \in 1 .. Len(chunks') : Placed(k)'
             /\ pc' = "loop" => LoopInv'
             /\ pc' # "loop" => PlannedInv'
  <2>1. LoopInv
    BY <1>7 DEF PlanInv, AddChunk
  <2>2. /\ size \in Nat \ {0} /\ n \in Nat \ {0} /\ i < n /\ Start = i * size
        /\ Start < total
        /\ planner = "Plan" => n * size <= total
        /\ planner # "Plan" => n * size >= total
    BY <2>1 DEF LoopInv
  <2>3. /\ (i + 1) * size = i * size + size
        /\ i + 1 < n => (i + 1) * size + size <= n * size
        /\ n <= i + 1 => n * size <= (i + 1) * size
        /\ (i + 1 - 1) * size = i * size
    BY <1>1, <2>2, Multiples
  <2>4. /\ UNCHANGED <<planVars, size, n, batchVars>>
        /\ pc' = IF End + 1 >= total \/ i + 1 >= n THEN "planned" ELSE "loop"
    BY DEF AddChunk
  <2>5. \/ End = Start + size - 1 /\ End < total - 1 /\ i + 1 < n /\ pc' = "loop"
        \/ End = total - 1 /\ pc' = "planned" /\ (planner = "Plan" => i + 1 = n)
             /\ (planner # "Plan" => (i + 1) * size >= total)
    <3>1. CASE planner = "Plan" /\ i = n - 1
      BY <1>1, <2>2, <2>3, <2>4, <3>1 DEF End, LastChunk
    <3>2. CASE planner = "Plan" /\ i # n - 1
      <4>1. i + 1 < n /\ (i + 1) * size + size <= total
        BY <1>1, <2>2, <2>3, <3>2
      <4>2. End = Start + size - 1
        BY <1>1, <2>2, <2>3, <3>2, <4>1 DEF End, LastChunk
      <4>. QED
        BY <1>1, <2>2, <2>3, <2>4, <4>1, <4>2
    <3>3. CASE planner # "Plan"
      <4>1. End = IF Start + size - 1 > total - 1 THEN total - 1 ELSE Start + size - 1
        BY <3>3 DEF End, LastChunk
      <4>2. i + 1 >= n => (i + 1) * size >= total
        <5>1. (i + 1) * size \in Int /\ n * size \in Int
          BY <1>1, <2>2
        <5>2. n * size >= total
          BY <2>2, <3>3
        <5>3. i + 1 >= n => n * size <= (i + 1) * size
          BY <1>1, <2>2, <2>3
        <5>4. \A x, y, z \in Int : x >= z /\ x <= y => y >= z
          OBVIOUS
        <5>. QED
          BY <1>1, <5>1, <5>2, <5>3, <5>4
      <4>. QED
        BY <1>1, <2>2, <2>3, <2>4, <3>3, <4>1, <4>2
    <3>. QED
      BY <3>1, <3>2, <3>3
  <2>6. ASSUME NEW k \in {i + 1} PROVE Placed(k)'
    <3>1. k = i + 1 /\ chunks'[k].first = i * size /\ size' = size /\ Len(chunks') = i + 1
      BY <1>2, <1>3, <2>2, <2>4
    <3>. QED
      BY <1>1, <2>3, <3>1 DEF Placed
  <2>7. ASSUME NEW k \in 1 .. i PROVE Placed(k)'
    <3>1. Placed(k)
      BY <1>7 DEF PlanInv
    <3>2. k < i => Placed(k)'
      BY <1>1, <1>3, <2>4, <3>1 DEF Placed
    <3>3. k = i => chunks[k].last = i * size - 1
      BY <1>1, <2>2 DEF Start
    <3>4. k = i => Placed(k)'
      BY <1>1, <1>3, <2>4, <3>1, <3>3 DEF Placed
    <3>. QED
      BY <1>1, <3>2, <3>4
  <2>8. \A k \in 1 .. Len(chunks') : Placed(k)'
    <3> SUFFICES ASSUME NEW k \in 1 .. Len(chunks') PROVE Placed(k)'
      OBVIOUS
    <3>1. k \in {i + 1} \/ k \in 1 .. i
      BY <1>1, <1>3
    <3>. QED
      BY <2>6, <2>7, <3>1
  <2>9. CASE pc' = "loop"
    BY <1>1, <1>3, <1>4, <2>2, <2>3, <2>4, <2>5, <2>8, <2>9 DEF LoopInv, planVars
  <2>10. CASE pc' = "planned"
    BY <1>1, <1>2, <1>3, <1>4, <2>2, <2>3, <2>4, <2>5, <2>8, <2>10
       DEF PlannedInv, planVars, TypeOK
  <2>. QED
    BY <2>4, <2>8, <2>9, <2>10
<1>8. PlanInv'
  BY <1>3, <1>6, <1>7 DEF PlanInv, EmptyInv, AddChunk, planVars, ChunkCount
<1>9. CutInv'
  BY DEF AddChunk, CutInv, NoPanic, BatchInv, CutsAtPieces, Cutting
<1>. QED
  BY <1>5, <1>8, <1>9

\* Where the pieces of a grid lie, once it is planned.
LEMMA PiecesLie ==
  ASSUME TypeOK, PlanInv, total > 0, pc \notin {"setup", "loop"}, planner = "PlanQueue",
         NEW k \in 1 .. Len(chunks)
  PROVE  /\ chunks[k].first = (k - 1) * size
         /\ chunks[k].last = (IF k * size < total THEN k * size ELSE total) - 1
         /\ chunks[k].first <= chunks[k].last
<1>1. /\ PlannedInv /\ Placed(k)
  BY DEF PlanInv
<1>2. size \in Nat \ {0} /\ Len(chunks) \in Nat /\ total \in Int /\ k \in Int
  BY <1>1, ChunkTypes DEF PlannedInv
<1>3. (k - 1) * size + size = k * size
  BY <1>2
<1>4. CASE k = Len(chunks)
  BY <1>1, <1>2, <1>3, <1>4 DEF Placed, PlannedInv
<1>5. CASE k < Len(chunks)
  <2>1. k * size <= (Len(chunks) - 1) * size
    BY <1>2, <1>5, Multiples
  <2>2. k * size \in Int /\ (Len(chunks) - 1) * size \in Int
    BY <1>2
  <2>. QED
    BY <1>1, <1>2, <1>3, <1>5, <2>1, <2>2 DEF Placed, PlannedInv
<1>. QED
  BY <1>2, <1>4, <1>5

\* Later pieces end later and start later.
LEMMA PiecesOrdered ==
  ASSUME TypeOK, PlanInv, total > 0, pc \notin {"setup", "loop"}, planner = "PlanQueue",
         NEW a \in 1 .. Len(chunks), NEW b \in 1 .. Len(chunks), a <= b
  PROVE  /\ chunks[a].first <= chunks[b].first
         /\ chunks[a].last <= chunks[b].last
         /\ BatchLength(a, b) \in Nat \ {0}
         /\ a < b => chunks[a].last + 1 = chunks[a + 1].first
<1>1. /\ chunks[a].first = (a - 1) * size /\ chunks[b].first = (b - 1) * size
      /\ chunks[a].last = (IF a * size < total THEN a * size ELSE total) - 1
      /\ chunks[b].last = (IF b * size < total THEN b * size ELSE total) - 1
      /\ chunks[b].first <= chunks[b].last
  BY PiecesLie
<1>2. size \in Nat \ {0} /\ Len(chunks) \in Nat /\ total \in Int
  BY ChunkTypes DEF PlanInv, PlannedInv
<1>3. (a - 1) * size <= (b - 1) * size /\ a * size <= b * size
  BY <1>2, Multiples
<1>4. (a - 1) * size \in Int /\ (b - 1) * size \in Int /\ a * size \in Int /\ b * size \in Int
  BY <1>2
<1>5. BatchLength(a, b) \in Nat \ {0}
  BY <1>1, <1>2, <1>3, <1>4 DEF BatchLength
<1>6. a < b => chunks[a].last + 1 = chunks[a + 1].first
  <2> SUFFICES ASSUME a < b PROVE chunks[a].last + 1 = chunks[a + 1].first
    OBVIOUS
  <2>1. a + 1 \in 1 .. Len(chunks) /\ a < Len(chunks)
    BY <1>2
  <2>2. Placed(a) /\ Placed(a + 1)
    BY <2>1 DEF PlanInv
  <2>3. (a + 1 - 1) * size = a * size /\ a * size \in Int
    BY <1>2
  <2>4. chunks[a].last = a * size - 1 /\ chunks[a + 1].first = a * size
    BY <2>1, <2>2, <2>3 DEF Placed
  <2>. QED
    BY <2>3, <2>4
<1>. QED
  BY <1>1, <1>2, <1>3, <1>4, <1>5, <1>6

\* The length of a batch of a file without bytes, or without a known size.
LEMMA EmptyBatch ==
  ASSUME TypeOK, EmptyInv, total <= 0, pc # "setup", planner = "PlanQueue",
         NEW a \in 1 .. Len(chunks), NEW b \in 1 .. Len(chunks)
  PROVE  BatchLength(a, b) \in Nat
<1>1. chunks = <<Chunk(0, total - 1)>>
  BY DEF EmptyInv
<1>2. total \in {0, -1}
  BY SizesAssumption DEF TypeOK
<1>3. chunks[a] = Chunk(0, total - 1) /\ chunks[b] = Chunk(0, total - 1)
  BY <1>1
<1>. QED
  BY <1>2, <1>3 DEF BatchLength, Chunk

\* A batch step leaves the plan alone.
LEMMA PlanStays ==
  ASSUME PlanInv, UNCHANGED <<planVars, size, n, chunks>>,
         pc \notin {"setup", "loop"}, pc' \notin {"setup", "loop"}
  PROVE  PlanInv'
  BY DEF PlanInv, EmptyInv, PlannedInv, Placed, ChunkCount, planVars

\* Requesting a batch starts cutting at its first piece.
LEMMA RequestBatchHolds ==
  ASSUME TypeOK, PlanInv, CutInv, RequestBatch
  PROVE  TypeOK' /\ PlanInv' /\ CutInv'
<1>1. PlanInv'
  BY PlanStays DEF RequestBatch
<1>2. PICK a \in 1 .. Len(chunks), b \in 1 .. Len(chunks) :
        /\ a <= b
        /\ from' = a /\ to' = b /\ cur' = a
        /\ base' \in {chunks[a].first, 0}
        /\ body' \in {BatchLength(a, b), BatchLength(a, b) \div 2,
                     FileLength, FileLength \div 2}
  BY DEF RequestBatch
<1>3. /\ pc = "planned" /\ planner = "PlanQueue" /\ offset' = 0 /\ pc' = "cut"
      /\ UNCHANGED <<planner, total, asked, size, n, chunks>>
  BY DEF RequestBatch, planVars
<1>4. BatchLength(a, b) \in Nat /\ FileLength \in Nat
  BY <1>2, <1>3, PiecesOrdered, EmptyBatch, ChunkTypes, SizesAssumption
     DEF PlanInv, FileLength, TypeOK
<1>6. \A m \in Nat : m \div 2 \in Nat
  OBVIOUS
<1>7. base' \in Int /\ body' \in Nat
  BY <1>2, <1>4, <1>6, ChunkTypes
<1>8. TypeOK'
  BY <1>2, <1>3, <1>7, ChunkTypes DEF TypeOK
<1>9. BatchInv'
  BY <1>2, <1>3, ChunkTypes DEF BatchInv
<1>10. CutsAtPieces'
  BY <1>2, <1>3, <1>7, ChunkTypes DEF CutsAtPieces
<1>. QED
  BY <1>1, <1>3, <1>8, <1>9, <1>10 DEF CutInv, NoPanic

\* A body is too short for the next piece only when it is too short for the batch.
LEMMA ShortBodyHolds ==
  ASSUME TypeOK, PlanInv, CutInv, ShortBody
  PROVE  TypeOK' /\ PlanInv' /\ CutInv'
<1>1. PlanInv'
  BY PlanStays DEF ShortBody
<1>2. /\ pc = "cut" /\ CutEnd > body /\ pc' = "short"
      /\ UNCHANGED <<planner, total, asked, size, n, chunks, from, to, cur, base, body, offset>>
  BY DEF ShortBody, planVars, batchVars
<1>3. TypeOK'
  BY <1>2 DEF TypeOK
<1>4. /\ planner = "PlanQueue" /\ from \in 1 .. to /\ to \in 1 .. Len(chunks)
      /\ cur \in from .. to
  BY <1>2 DEF CutInv, BatchInv, Cutting
<1>5. BatchLength(from, to)' = BatchLength(from, to)
  BY <1>2 DEF BatchLength
<1>6. BatchInv'
  BY <1>2, <1>4 DEF BatchInv
<1>7. ASSUME total > 0 PROVE body < BatchLength(from, to)
  <2>1. /\ cur \in 1 .. Len(chunks) /\ from \in 1 .. Len(chunks) /\ cur <= to
    BY <1>4, ChunkTypes
  <2>2. chunks[cur].last <= chunks[to].last
    BY <1>2, <1>4, <1>7, <2>1, PiecesOrdered
  <2>3. offset = chunks[cur].first - chunks[from].first
    BY <1>2, <1>7 DEF CutInv, CutsAtPieces
  <2>4. /\ chunks[cur].first \in Int /\ chunks[cur].last \in Int
        /\ chunks[from].first \in Int /\ chunks[to].last \in Int /\ body \in Int
    BY <1>4, <2>1, ChunkTypes DEF TypeOK
  <2>5. CutEnd = chunks[cur].last + 1 - chunks[from].first
    BY <2>3, <2>4 DEF CutEnd, Size
  <2>6. total \in Int
    BY ChunkTypes
  <2>. QED
    BY <1>2, <1>7, <2>2, <2>4, <2>5, <2>6 DEF BatchLength
<1>8. CutsAtPieces'
  BY <1>2, <1>5, <1>7 DEF CutsAtPieces
<1>. QED
  BY <1>1, <1>2, <1>3, <1>6, <1>8 DEF CutInv, NoPanic

\* Cutting a piece off leads to where the next one begins, or to the end of the batch.
LEMMA CutPieceHolds ==
  ASSUME TypeOK, PlanInv, CutInv, CutPiece
  PROVE  TypeOK' /\ PlanInv' /\ CutInv'
<1>0. pc = "cut" /\ CutEnd <= body /\ pc' \in {"panic", "cut", "stored"}
  BY DEF CutPiece
<1>1. PlanInv'
  BY <1>0, PlanStays DEF CutPiece
<1>2. UNCHANGED <<planner, total, asked, size, n, chunks, from, to, base, body>>
  BY DEF CutPiece, planVars
<1>3. /\ planner = "PlanQueue" /\ from \in 1 .. to /\ to \in 1 .. Len(chunks)
      /\ cur \in from .. to
      /\ cur \in 1 .. Len(chunks) /\ from \in 1 .. Len(chunks)
  BY <1>0, ChunkTypes DEF CutInv, BatchInv, Cutting
<1>4. BatchLength(from, to)' = BatchLength(from, to)
  BY <1>2 DEF BatchLength
<1>5. CutEnd \in Int /\ offset \in Nat /\ base \in Int /\ body \in Nat /\ cur \in Nat
  BY <1>3, ChunkTypes DEF CutEnd, Size, TypeOK
<1>6. CASE CutEnd < offset
  <2>1. pc' = "panic" /\ UNCHANGED <<cur, offset>>
    BY <1>0, <1>6 DEF CutPiece
  <2>2. ~(total > 0)
    BY <1>0, <1>3, <1>5, <1>6, PiecesLie, ChunkTypes DEF CutEnd, Size
  <2>4. total # 0
    <3>1. SUFFICES ASSUME total = 0 PROVE FALSE
      OBVIOUS
    <3>2. chunks = <<Chunk(0, -1)>>
      BY <1>0, <1>3, <3>1 DEF PlanInv, EmptyInv
    <3>3. chunks[cur] = Chunk(0, -1)
      BY <1>3, <3>2
    <3>. QED
      BY <1>5, <1>6, <3>3 DEF CutEnd, Size, Chunk
  <2>5. ~(total >= 0)
    BY <2>2, <2>4, ChunkTypes
  <2>3. TypeOK'
    BY <1>2, <2>1 DEF TypeOK
  <2>. QED
    BY <1>1, <1>2, <2>1, <2>2, <2>3, <2>5 DEF CutInv, NoPanic, BatchInv, CutsAtPieces, Cutting
<1>7. CASE ~(CutEnd < offset)
  <2>1. /\ offset' = CutEnd
        /\ cur' = IF cur = to THEN cur ELSE cur + 1
        /\ pc' = IF cur = to THEN "stored" ELSE "cut"
    BY <1>0, <1>7 DEF CutPiece, LastCut
  <2>2. TypeOK'
    BY <1>2, <1>3, <1>5, <1>7, <2>1 DEF TypeOK
  <2>3. BatchInv'
    BY <1>2, <1>3, <1>4, <2>1 DEF BatchInv
  <2>4. ASSUME total > 0
        PROVE  IF cur = to
                 THEN CutEnd = BatchLength(from, to) /\ body >= BatchLength(from, to)
                 ELSE /\ CutEnd = chunks[cur + 1].first - chunks[from].first
                      /\ base + CutEnd = chunks[cur + 1].first <=> base = chunks[from].first
    <3>1. offset = chunks[cur].first - chunks[from].first
      BY <1>0, <2>4 DEF CutInv, CutsAtPieces
    <3>0. /\ chunks[cur].first \in Int /\ chunks[cur].last \in Int
          /\ chunks[from].first \in Int
      BY <1>3, ChunkTypes
    <3>2. CutEnd = chunks[cur].last + 1 - chunks[from].first
      BY <3>0, <3>1 DEF CutEnd, Size
    <3>3. CASE cur = to
      BY <1>0, <1>3, <1>5, <2>4, <3>2, <3>3, ChunkTypes DEF BatchLength
    <3>4. CASE cur # to
      <4>1. cur < to
        BY <1>3, <3>4
      <4>2. chunks[cur].last + 1 = chunks[cur + 1].first
        BY <1>0, <1>3, <2>4, <4>1, PiecesOrdered
      <4>3. CutEnd = chunks[cur + 1].first - chunks[from].first
        BY <3>0, <3>2, <4>2
      <4>4. base + CutEnd = chunks[cur + 1].first <=> base = chunks[from].first
        BY <1>5, <3>0, <3>2, <4>2
      <4>. QED
        BY <3>4, <4>3, <4>4
    <3>. QED
      BY <3>3, <3>4
  <2>5. CutsAtPieces'
    BY <1>2, <1>4, <2>1, <2>4 DEF CutsAtPieces
  <2>. QED
    BY <1>1, <2>1, <2>2, <2>3, <2>5 DEF CutInv, NoPanic
<1>. QED
  BY <1>6, <1>7

\* Every step preserves the invariant.
LEMMA StepHolds == TypeOK /\ PlanInv /\ CutInv /\ [Next]_vars => (TypeOK /\ PlanInv /\ CutInv)'
<1> SUFFICES ASSUME TypeOK, PlanInv, CutInv, [Next]_vars
             PROVE  TypeOK' /\ PlanInv' /\ CutInv'
  OBVIOUS
<1>1. CASE UNCHANGED vars
  <2>1. UNCHANGED <<planner, total, asked, pc, size, n, chunks, from, to, cur, base, body, offset>>
    BY <1>1 DEF vars, planVars, batchVars
  <2>2. TypeOK'
    BY <2>1 DEF TypeOK
  <2>3. PlanInv'
    BY <2>1 DEF PlanInv, EmptyInv, LoopInv, PlannedInv, Placed, Start, ChunkCount
  <2>4. CutInv'
    BY <2>1 DEF CutInv, NoPanic, BatchInv, CutsAtPieces, BatchLength
  <2>. QED
    BY <2>2, <2>3, <2>4
<1>. QED
  BY <1>1, PlanSetupHolds, QueueSetupHolds, AddChunkHolds, RequestBatchHolds,
     ShortBodyHolds, CutPieceHolds DEF Next

\* The inductive invariant holds always.
THEOREM Invariance == Spec => [](TypeOK /\ PlanInv /\ CutInv)
  BY InitHolds, StepHolds, PTL DEF Spec

\* The plan's shape follows from the invariant.
LEMMA PlanFacts ==
  ASSUME TypeOK, PlanInv
  PROVE  CoversFile /\ OnGrid /\ OneChunkPerConnection
<1>1. ASSUME Planned PROVE CoversFile
  <2>1. /\ PlannedInv /\ (\A k \in 1 .. Len(chunks) : Placed(k)) /\ total > 0
        /\ pc \notin {"setup", "loop"}
    BY <1>1 DEF PlanInv, Planned
  <2>2. /\ size \in Nat \ {0} /\ Len(chunks) \in Nat \ {0} /\ total \in Int
        /\ chunks[Len(chunks)].last = total - 1
        /\ (Len(chunks) - 1) * size < total
    BY <2>1, ChunkTypes DEF PlannedInv
  <2>3. chunks # <<>>
    BY <2>2
  <2>4. chunks[1].first = 0
    BY <2>1, <2>2 DEF Placed
  <2>5. ASSUME NEW k \in 1 .. Len(chunks) PROVE chunks[k].first <= chunks[k].last
    <3>1. Placed(k) /\ k * size = (k - 1) * size + size
      BY <2>1, <2>2
    <3>2. CASE k = Len(chunks)
      BY <2>2, <3>1, <3>2 DEF Placed
    <3>3. CASE k < Len(chunks)
      BY <2>2, <3>1, <3>3 DEF Placed
    <3>. QED
      BY <2>2, <3>2, <3>3
  <2>6. ASSUME NEW k \in 1 .. Len(chunks) - 1
        PROVE  chunks[k + 1].first = chunks[k].last + 1
    <3>1. k \in 1 .. Len(chunks) /\ k + 1 \in 1 .. Len(chunks) /\ k < Len(chunks)
      BY <2>2
    <3>2. Placed(k) /\ Placed(k + 1)
      BY <2>1, <3>1
    <3>3. (k + 1 - 1) * size = k * size /\ k * size \in Int
      BY <2>2
    <3>4. chunks[k].last = k * size - 1 /\ chunks[k + 1].first = k * size
      BY <3>1, <3>2, <3>3 DEF Placed
    <3>. QED
      BY <3>3, <3>4
  <2>. QED
    BY <2>2, <2>3, <2>4, <2>5, <2>6 DEF CoversFile
<1>2. OnGrid
  BY PiecesLie DEF OnGrid, Planned
<1>3. OneChunkPerConnection
  BY DEF OneChunkPerConnection, Planned, PlanInv, PlannedInv
<1>. QED
  BY <1>1, <1>2, <1>3 DEF CoversFile

\* Every variable keeps its type.
THEOREM TypeCorrect == Spec => []TypeOK
  BY Invariance, PTL

\* Whatever the size of a file and however it is cut, the chunks cover it
\* without a gap or an overlap.
THEOREM EveryFileIsCovered == Spec => []CoversFile
  BY Invariance, PlanFacts, PTL

\* A piece's bytes depend on its index, the piece size and the file size only.
THEOREM PiecesAreOnGrid == Spec => []OnGrid
  BY Invariance, PlanFacts, PTL

\* Plan makes as many chunks as there are connections, when there are as many bytes.
THEOREM EveryConnectionHasAChunk == Spec => []OneChunkPerConnection
  BY Invariance, PlanFacts, PTL

\* A batch's body is cut at the lengths of its pieces, whatever body came; what
\* is stored under an index are the piece's own bytes exactly if the body begins
\* where the batch does, and all of the batch is stored exactly if there are
\* bytes enough (adaptive.go:521, 530-545).
THEOREM BatchesAreCutAtPieces == Spec => []CutsAtPieces
<1>1. CutInv => CutsAtPieces
  BY DEF CutInv
<1>. QED
  BY <1>1, Invariance, PTL

\* A body of a file of known size, the empty one included, is cut without a panic.
THEOREM SlicesNeverPanic == Spec => []NoPanic
<1>1. CutInv => NoPanic
  BY DEF CutInv
<1>. QED
  BY <1>1, Invariance, PTL
=============================================================================
