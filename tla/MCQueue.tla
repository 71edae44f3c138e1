------------------------------ MODULE MCQueue ------------------------------
(* Small instances of QueueEngine for TLC. *)
EXTENDS QueueEngine
=============================================================================
