-------------------------- MODULE MCCircuitBreaker --------------------------
(* Small instances of CircuitBreaker for TLC. *)
EXTENDS CircuitBreaker, TLC

\* Callers and pages are interchangeable: safety runs only.
Symmetry == Permutations(Callers) \cup Permutations(Pages)
=============================================================================
