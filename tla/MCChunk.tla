------------------------------ MODULE MCChunk ------------------------------
(* Small instances of ChunkPlan for TLC. *)
EXTENDS ChunkPlan

\* What a source may report, without and with a size.
AnySize == -1 .. 13
SmallAsks == -1 .. 6
=============================================================================
