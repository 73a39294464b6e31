------------------------- MODULE MCReadingSetupRun -------------------------
(* Instances of ReadingSetupRun for TLC. *)
EXTENDS ReadingSetupRun, TLC

\* Runs, requests and workers are interchangeable: only used for safety.
Symmetry == Permutations(Runs) \cup Permutations(Requests) \cup Permutations(Workers)
=============================================================================
