-------------------------- MODULE MCCircuitBreaker --------------------------
(* Small instances of CircuitBreaker for TLC. *)
EXTENDS CircuitBreaker, TLC

\* The classes that do not panic are interchangeable, and so are the workers.
Symmetry == Permutations(Classes \ Panicking) \cup Permutations(Workers)
=============================================================================
