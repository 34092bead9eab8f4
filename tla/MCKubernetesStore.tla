------------------------- MODULE MCKubernetesStore -------------------------
(* KubernetesStore on a small instance. *)
EXTENDS KubernetesStore, TLC

\* People, calls and identifiers of one sort are interchangeable.
Symmetry ==
    Permutations(Owner) \cup Permutations(Call) \cup Permutations(KeyID \ Bootstrap)
=============================================================================
