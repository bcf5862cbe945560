--------------------------- MODULE MCMemoryEngine ---------------------------
(* Small instances of MemoryEngine for TLC. *)
EXTENDS MemoryEngine, TLC

\* JIDs are interchangeable, and so are the workers.
Symmetry == Permutations(JIDs) \cup Permutations(Workers)
=============================================================================
