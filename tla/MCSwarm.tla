------------------------------- MODULE MCSwarm -------------------------------
(***************************************************************************)
(* Instances of Swarm for TLC.                                             *)
(***************************************************************************)
EXTENDS Swarm, TLC

CONSTANTS d1, d2, a1, a2, f1, g1

\* Two downloads of one file.
MCFile == (d1 :> f1) @@ (d2 :> f1)
MCGrid == (d1 :> g1) @@ (d2 :> g1)
MCAddr == (d1 :> a1) @@ (d2 :> a2)
=============================================================================
