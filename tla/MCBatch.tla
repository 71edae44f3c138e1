------------------------------- MODULE MCBatch -------------------------------
(***************************************************************************)
(* Instances of BatchSizing for TLC.                                       *)
(***************************************************************************)
EXTENDS BatchSizing, TLC

Symmetry == Permutations(Worker)
=============================================================================
