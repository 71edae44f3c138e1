------------------------------ MODULE MCFixed ------------------------------
(* Small instances of FixedEngine for TLC. *)
EXTENDS FixedEngine
=============================================================================
