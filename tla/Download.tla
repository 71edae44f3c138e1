------------------------------ MODULE Download ------------------------------
(***************************************************************************)
(* What a call of Engine.Download, Engine.DownloadQueue or                 *)
(* Engine.DownloadAdaptive promises its caller, whatever the workers,      *)
(* peers and retries behind it do: the pieces of the file are collected,   *)
(* a piece once collected is never lost or replaced by other bytes, the    *)
(* output is written from the collected pieces only, and the call returns  *)
(* nil only when the output is the whole file.  It may return an error at  *)
(* any time, and it returns once.                                          *)
(***************************************************************************)
CONSTANT Piece   \* the pieces the file is cut into

VARIABLES
  got,      \* the pieces whose right bytes are stored
  output,   \* "none": nothing written, "partial", "whole": the file itself
  result    \* "none": still running, "ok": returned nil, "error": returned an error

vars == <<got, output, result>>

Init == /\ got = {}
        /\ output = "none"
        /\ result = "none"

\* Some more pieces arrive; what was collected stays.
Collect == /\ result = "none"
           /\ \E more \in SUBSET Piece : got' = got \cup more
           /\ UNCHANGED <<output, result>>

\* The output file is being written; it is the whole file only from all the pieces.
Write == /\ result = "none"
         /\ output' \in {"partial", "whole"}
         /\ output' = "whole" => got = Piece
         /\ UNCHANGED <<got, result>>

Succeed == /\ result = "none"
           /\ output = "whole"
           /\ result' = "ok"
           /\ UNCHANGED <<got, output>>

\* An error leaves whatever was written so far at the output path.
Fail == /\ result = "none"
        /\ result' = "error"
        /\ UNCHANGED <<got, output>>

Next == Collect \/ Write \/ Succeed \/ Fail

Spec == Init /\ [][Next]_vars
=============================================================================
