------------------------------ MODULE MCServer -------------------------------
(***************************************************************************)
(* Instances of JobServer for TLC.                                         *)
(***************************************************************************)
EXTENDS JobServer, TLC

CONSTANTS r1, r2, n1

\* A browser's download and another client's, of files with the same name; the
\* client may name an output, a path that is a default of the first job.
MCName == (r1 :> n1) @@ (r2 :> n1)
MCOutput == (r1 :> {NoOutput}) @@ (r2 :> {NoOutput, <<1, n1>>})
=============================================================================
