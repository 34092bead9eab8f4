------------------------------ MODULE MCPortal ------------------------------
(* Portal on a small instance. *)
EXTENDS Portal, TLC

\* Tabs, people and keys are interchangeable.
Symmetry == Permutations(Tab) \cup Permutations(Person) \cup Permutations(Key)
=============================================================================
