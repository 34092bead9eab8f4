--------------------------- MODULE MCAvatarCache ---------------------------
(* AvatarCache on a small instance. *)
EXTENDS AvatarCache, TLC

\* People and sign-ins of one sort are interchangeable.
Symmetry == Permutations(User) \cup Permutations(Proc)
=============================================================================
