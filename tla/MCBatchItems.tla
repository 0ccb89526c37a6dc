---------------------------- MODULE MCBatchItems ----------------------------
(* Small instances of BatchItems for TLC. *)
EXTENDS BatchItems, TLC

\* Items and workers are interchangeable: safety runs only.
Symmetry == Permutations(Items) \cup Permutations(Workers)
=============================================================================
