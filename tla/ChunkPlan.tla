------------------------------ MODULE ChunkPlan ------------------------------
(***************************************************************************)
(* chunk.Plan and chunk.PlanQueue (internal/chunk/chunk.go), and the loop  *)
(* of fetchAndStoreBatch (internal/engine/adaptive.go) that cuts the body  *)
(* of a batch into the pieces PlanQueue planned.  One step is one          *)
(* iteration of a loop; an offset counts bytes.                            *)
(*                                                                         *)
(* AdaptiveEngine and QueueEngine count in pieces; what makes that sound   *)
(* is here: the pieces follow each other without a gap, cover the file,    *)
(* and a batch's body is cut at their lengths.  Whether what is cut off    *)
(* are the pieces' own bytes depends on where the body begins, which the   *)
(* loop does not look at.                                                  *)
(***************************************************************************)
EXTENDS Integers, Sequences

CONSTANTS
  Sizes,        \* the sizes a probe may report; -1 when the source does not say
  Asks,         \* what callers pass for the number of chunks or the piece size
  DefaultPiece  \* the piece size PlanQueue takes when it is given none

ASSUME SizesAssumption == Sizes \subseteq Nat \cup {-1}
ASSUME AsksAssumption == Asks \subseteq Int /\ 1 \in Asks
ASSUME DefaultAssumption == DefaultPiece \in Nat \ {0}

VARIABLES
  planner,  \* the function that was called: "Plan" or "PlanQueue"
  total,    \* totalSize
  asked,    \* its second argument, n or pieceSize
  pc,       \* where it is, or where the loop over the batch is
  size,     \* chunkSize or pieceSize
  n,        \* how many chunks it means to make
  chunks,   \* the chunks made so far: first and last byte
  from, to, \* the batch being cut: its first and its last piece
  cur,      \* the piece to cut next
  base,     \* the byte of the file at which the body begins
  body,     \* the length of the body that came
  offset    \* how much of it is used

planVars  == <<planner, total, asked>>
batchVars == <<from, to, cur, base, body, offset>>
vars == <<planVars, pc, size, n, chunks, batchVars>>

\* The engines ask for one chunk when the source reports no size (94-98).
Init ==
  /\ planner \in {"Plan", "PlanQueue"}
  /\ total \in Sizes /\ asked \in Asks
  /\ planner = "Plan" /\ total <= 0 => asked = 1
  /\ pc = "setup"
  /\ size = 0 /\ n = 0 /\ chunks = <<>>
  /\ from = 0 /\ to = 0 /\ cur = 0 /\ base = 0 /\ body = 0 /\ offset = 0
-----------------------------------------------------------------------------
Chunk(first, last) == [first |-> first, last |-> last]

\* Mutant of Size: the two ends are taken off instead of counted in.
EndsOut(c) == c.last - c.first - 1

\* Chunk.Size (22-24).
Size(c) == c.last - c.first + 1

\* Where the next chunk starts.
Start == IF chunks = <<>> THEN 0 ELSE chunks[Len(chunks)].last + 1

\* Lines 29-31.
ChunkCount == IF asked < 1 THEN 1 ELSE asked

\* Lines 29-36: no more chunks than bytes.
PlanSetup ==
  /\ pc = "setup" /\ planner = "Plan"
  /\ IF total \div ChunkCount = 0
       THEN size' = total /\ n' = 1
       ELSE size' = total \div ChunkCount /\ n' = ChunkCount
  /\ pc' = "loop"
  /\ UNCHANGED <<planVars, chunks, batchVars>>

\* Lines 67-69.
PieceSize == IF asked <= 0 THEN DefaultPiece ELSE asked

\* Line 74: rounds up.
Pieces == (total + PieceSize - 1) \div PieceSize

\* Lines 67-74: a single piece, or as many as it takes.
QueueSetup ==
  /\ pc = "setup" /\ planner = "PlanQueue"
  /\ size' = PieceSize
  /\ IF total <= PieceSize
       THEN /\ chunks' = <<Chunk(0, total - 1)>>
            /\ pc' = "planned"
            /\ n' = 1
       ELSE /\ n' = Pieces
            /\ pc' = "loop"
            /\ UNCHANGED chunks
  /\ UNCHANGED <<planVars, batchVars>>

\* Mutant of LastChunk: the clamp is missing.
NeverLast == FALSE

\* Line 42: Plan's last chunk takes the rest.
LastChunk == planner = "Plan" /\ Len(chunks) = n - 1

\* Mutant of End: one byte too many in every chunk but the last.
EndBehind == LET end == Start + size
             IN IF LastChunk \/ end > total - 1 THEN total - 1 ELSE end

\* Lines 41-44 and 78-81.
End == LET end == Start + size - 1
       IN IF LastChunk \/ end > total - 1 THEN total - 1 ELSE end

\* Lines 40-56 and 77-87: one more chunk.
AddChunk ==
  /\ pc = "loop"
  /\ chunks' = Append(chunks, Chunk(Start, End))
  /\ pc' = IF End + 1 >= total \/ Len(chunks) + 1 >= n THEN "planned" ELSE "loop"
  /\ UNCHANGED <<planVars, size, n, batchVars>>
-----------------------------------------------------------------------------
(* fetchAndStoreBatch: one request for the bytes from the first piece's    *)
(* start to the last piece's end, and the body cut into the pieces.        *)

\* The bytes from piece a to piece b, and those of the whole file; when the
\* size is not known, whatever the source sends.
BatchLength(a, b) == IF total < 0 THEN 1 ELSE chunks[b].last - chunks[a].first + 1
FileLength == IF total < 0 THEN 1 ELSE total

\* Lines 505-528: request a batch of consecutive pieces.  A 206 brings the
\* batch, a 200 the file from its first byte (521), and either body may end
\* early without an error.
RequestBatch ==
  /\ pc = "planned" /\ planner = "PlanQueue"
  /\ \E a, b \in 1 .. Len(chunks) :
       /\ a <= b
       /\ from' = a /\ to' = b /\ cur' = a
       /\ \/ /\ base' = chunks[a].first
             /\ body' \in {BatchLength(a, b), BatchLength(a, b) \div 2}
          \/ /\ base' = 0
             /\ body' \in {FileLength, FileLength \div 2}
  /\ offset' = 0
  /\ pc' = "cut"
  /\ UNCHANGED <<planVars, size, n, chunks>>

\* Mutant of CutEnd: cuts one byte too few.
CutShort == offset + Size(chunks[cur]) - 1

\* Lines 533 and 541.
CutEnd == offset + Size(chunks[cur])

\* Lines 534-536: the body is too short.
ShortBody ==
  /\ pc = "cut"
  /\ CutEnd > body
  /\ pc' = "short"
  /\ UNCHANGED <<planVars, size, n, chunks, batchVars>>

\* Line 531: that was the batch's last piece.
LastCut == cur = to

\* Lines 531-545: cut off the next piece; a slice that ends before it starts
\* is a run-time panic.
CutPiece ==
  /\ pc = "cut"
  /\ CutEnd <= body
  /\ IF CutEnd < offset
       THEN pc' = "panic" /\ UNCHANGED <<cur, offset>>
       ELSE /\ offset' = CutEnd
            /\ IF LastCut
                 THEN pc' = "stored" /\ UNCHANGED cur
                 ELSE pc' = "cut" /\ cur' = cur + 1
  /\ UNCHANGED <<planVars, size, n, chunks, from, to, base, body>>

Finished == pc \in {"stored", "short", "panic"} \/ (pc = "planned" /\ planner = "Plan")

Next ==
  \/ PlanSetup \/ QueueSetup \/ AddChunk
  \/ RequestBatch \/ ShortBody \/ CutPiece
  \/ Finished /\ UNCHANGED vars

Spec == Init /\ [][Next]_vars
FairSpec == Spec /\ WF_vars(Next)
-----------------------------------------------------------------------------
(* Properties. *)

Chunks == [first : Int, last : Int]

\* Every variable has its type; no index leaves the chunks.
TypeOK ==
  /\ planner \in {"Plan", "PlanQueue"}
  /\ total \in Sizes /\ asked \in Asks
  /\ pc \in {"setup", "loop", "planned", "cut", "short", "stored", "panic"}
  /\ size \in Int /\ n \in Int
  /\ chunks \in Seq(Chunks)
  /\ from \in 0 .. Len(chunks) /\ to \in 0 .. Len(chunks) /\ cur \in 0 .. Len(chunks)
  /\ base \in Int /\ body \in Nat /\ offset \in Nat

\* The chunks of a file of known size.
Planned == pc \notin {"setup", "loop"} /\ total > 0

\* The chunks follow each other from the first byte of the file to the last,
\* no gap, no overlap, no chunk without a byte (chunk.go:28-58, 66-89).
CoversFile ==
  Planned =>
    /\ chunks # <<>>
    /\ chunks[1].first = 0
    /\ chunks[Len(chunks)].last = total - 1
    /\ \A k \in 1 .. Len(chunks) : chunks[k].first <= chunks[k].last
    /\ \A k \in 1 .. Len(chunks) - 1 : chunks[k + 1].first = chunks[k].last + 1

\* Two downloads that plan the same file with the same piece size agree on
\* every piece, so that a piece's index means the same bytes to all peers.
OnGrid ==
  Planned /\ planner = "PlanQueue" =>
    \A k \in 1 .. Len(chunks) :
      /\ chunks[k].first = (k - 1) * size
      /\ chunks[k].last = (IF k * size < total THEN k * size ELSE total) - 1

\* Plan makes as many chunks as it was asked for when there are enough bytes
\* (fewer would leave connections idle).
OneChunkPerConnection ==
  Planned /\ planner = "Plan" /\ total >= ChunkCount => Len(chunks) = ChunkCount

\* A batch's body is cut at the lengths of its pieces.  The bytes stored under
\* an index are the bytes planned for it exactly if the body begins where the
\* batch does: from a 200, which is accepted, only a batch at the start of the
\* file gets its own.  All pieces of a batch are stored exactly if the body has
\* as many bytes as they (adaptive.go:521, 530-545).
CutsAtPieces ==
  total > 0 =>
    /\ pc = "cut" => /\ offset = chunks[cur].first - chunks[from].first
                     /\ base + offset = chunks[cur].first <=> base = chunks[from].first
    /\ pc = "stored" => offset = BatchLength(from, to) /\ body >= BatchLength(from, to)
    /\ pc = "short" => body < BatchLength(from, to)

\* The slice expression panics for no file of known size; for one of unknown
\* size, planned as the piece [0,-2], it does (adaptive.go:536).
NoPanic == total >= 0 => pc # "panic"
=============================================================================
