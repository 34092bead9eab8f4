------------------------------ MODULE MCPages ------------------------------
(* Pages on every list of up to MaxKeys keys or MaxModels models. *)
EXTENDS Pages, TLC

CONSTANTS MaxKeys, MaxModels, MaxMain

\* Objects are numbered, and a list has each of them once.
Lists(Items(_), max) ==
    UNION {{s \in [1..n -> Items(n)] :
              \A a, b \in 1..n : s[a][3] = s[b][3] => a = b} : n \in 0..max}

\* Keys carry different ids, and several may share a creation time.
KeyItems(n) == {k \in (1..MaxMain) \X (1..n) \X (1..n) : k[2] = k[3]}
AllKeyLists == Lists(KeyItems, MaxKeys)

\* Two objects of the catalog may share their display and routing names.
ModelItems(n) == (1..MaxMain) \X (1..MaxMain) \X (1..n)
AllModelLists == Lists(ModelItems, MaxModels)

-----------------------------------------------------------------------------
\* Two models, the second under its own path and with a label; the second and
\* another one of the same token; no model, and no default either.
Model(id, label, kind, path) == [id |-> id, label |-> label, kind |-> kind, path |-> path]
First == Model(1, 0, "", "")
Second == Model(2, 12, "reasoning", "/muse")
Twin == Model(3, 13, "coding", "")

Params(list_) == [model |-> 0, models |-> list_, key |-> None]
AllOffers == {Params(<<First, Second>>), Params(<<Second, Twin>>), Params(<<>>)}

\* Both tokens, a client with a file and one without, both shells.
AllPicks == {"a", "b", "codex", "curl"} \cup Shells

Slugs == 1 :> "a" @@ 2 :> "b" @@ 3 :> "b" @@ ModelName :> "model-name"

\* TLC evaluates a definition that is only a name once.
TheKeyLists == AllKeyLists
TheModelLists == AllModelLists
TheOffers == AllOffers
TheSlugs == Slugs
=============================================================================
