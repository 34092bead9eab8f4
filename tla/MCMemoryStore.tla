--------------------------- MODULE MCMemoryStore ---------------------------
(* MemoryStore on a small instance. *)
EXTENDS MemoryStore, TLC

\* People, calls and identifiers are interchangeable.
Symmetry == Permutations(Owner) \cup Permutations(Call) \cup Permutations(KeyID)
=============================================================================
