------------------------------ MODULE MCSignIn ------------------------------
(* SignIn on a small instance. *)
EXTENDS SignIn, TLC

\* One key, then the new one accepted everywhere, then sealing, then alone.
TwoPhase == <<<<"k1">>, <<"k1", "k2">>, <<"k2", "k1">>, <<"k2">>>>

\* README.md: prepend the new key, deploy, drop the old one.
Documented == <<<<"k1">>, <<"k2", "k1">>, <<"k2">>>>

\* Tabs, pods, tokens and addresses are interchangeable.
Symmetry ==
    Permutations(Tab) \cup Permutations(Pod) \cup Permutations(Flow) \cup Permutations(Path)
=============================================================================
