---------------------------- MODULE MCAdaptive ----------------------------
(* Small instances of AdaptiveEngine for TLC. *)
EXTENDS AdaptiveEngine, TLC

\* Worker slots are interchangeable (for the runs without liveness).
WorkerSymmetry == Permutations(Worker)
=============================================================================
