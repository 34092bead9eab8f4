----------------------------- MODULE MCStartup -----------------------------
(* Startup with environments near those of a deployment and of a developer. *)
EXTENDS Startup

\* What a setting may be changed to.
Other ==
    [port |-> {"bad"}, base |-> {"unset", "broken", "plain", "loopback", "public"},
     inference |-> {"plain", "public"}, models |-> {<<>>, <<"good", "bad path">>},
     grafana |-> {"bad"}, mode |-> {"unset", "memory", "kubernetes", "other"},
     namespace |-> BOOLEAN, allow |-> {"true", "typo"}, kubeconfig |-> {"bad"},
     catalog |-> BOOLEAN, tenant |-> {"unset", "wrong", "right"}, client |-> BOOLEAN,
     secret |-> BOOLEAN, avatars |-> {"false", "typo"}, fake |-> {"unset", "true", "typo"},
     keys |-> {<<"blank">>, <<"good", "short">>, <<"blank", "good">>},
     brand |-> {{"logo"}}, assets |-> {"unset", "good", "bad"}]

\* The settings that decide together, and what each may be changed to.
Joint == {"base", "mode", "namespace", "catalog", "tenant", "avatars", "fake"}
Changes(S) == UNION {{s} \X Other[s] : s \in S}
Changed(envs, changes) == {[x[1] EXCEPT ![x[2][1]] = x[2][2]] : x \in envs \X changes}

AnyChange == Changes(DOMAIN Other)
JointChange == Changes(Joint)
Bases == {Production, Development}
JointOnce == Changed(Bases, JointChange)
ListOnce == Changed(Bases, Changes({"keys", "models"}))
UpToTwo ==
    UNION {Bases, Changed(Bases, AnyChange), Changed(JointOnce, JointChange),
           Changed(ListOnce, Changes({"port", "mode"}))}
Environments == UpToTwo     \* evaluated once, not for every step
=============================================================================
