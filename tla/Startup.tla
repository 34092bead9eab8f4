------------------------------ MODULE Startup ------------------------------
(***************************************************************************)
(* cmd/ai-account/main.go: how a process of the portal comes up, and what  *)
(* it has put together when it takes over from the one before.             *)
(*                                                                         *)
(* run goes through its steps in order and exits at the first that fails;  *)
(* whoever runs it (a kubelet, a developer) starts it again, and may       *)
(* change a setting.  A process that listens and is ready takes over from  *)
(* the one that served.                                                    *)
(***************************************************************************)
EXTENDS Config

CONSTANTS
    Env,        \* the environments an operator may choose
    Home,       \* the cluster the pods run in
    Context,    \* the clusters a kubeconfig may point at
    None        \* no cluster, no app

\* The settings of a deployment (config_test.go: productionEnv), with the production
\* keystore, and those of a developer (README.md: Quick start).
Production ==
    [port |-> "unset", base |-> "public", inference |-> "unset", models |-> <<"good">>,
     grafana |-> "unset", mode |-> "kubernetes", namespace |-> TRUE, allow |-> "unset",
     kubeconfig |-> "good", catalog |-> TRUE, tenant |-> "right", client |-> TRUE,
     secret |-> TRUE, avatars |-> "unset", fake |-> "unset", keys |-> <<"good">>,
     brand |-> {}, assets |-> "unset"]

Development ==
    [Production EXCEPT !.base = "loopback", !.mode = "memory", !.namespace = FALSE,
                       !.catalog = FALSE, !.tenant = "unset", !.client = FALSE,
                       !.secret = FALSE, !.fake = "true", !.assets = "good"]

ASSUME EnvAssumption == Env \subseteq Environment

\* The settings are variables of their own: an operator who may choose a value of
\* one may choose it in a deployment and in development.
ASSUME ChoiceAssumption ==
    \A b \in {Production, Development}, e \in Env :
      \A s \in DOMAIN b : [b EXCEPT ![s] = e[s]] \in Env

ASSUME NoneAssumption == None \notin Context \cup {Home}

VARIABLES
    env,        \* the environment of the process
    place,      \* where it runs: "cluster", "laptop", or "broken": a pod whose
                \* service account cannot be read
    context,    \* the cluster the kubeconfig points at, None in a pod
    pc,         \* the step it is at
    report,     \* the settings the last failure was about
    made,       \* what it has built so far
    live        \* the App that serves, None without one

outside == <<env, place, context>>
vars == <<outside, pc, report, made, live>>

Cluster == Context \cup {Home}

\* store, clusters of keystore and catalog, photo cache, sign-in and whether it
\* asks for the photo.  A Go interface may hold a "typed nil".
Nothing == [store |-> "nil", cluster |-> None, catalog |-> None, photos |-> "nil",
            auth |-> "nil", asks |-> FALSE]

Made == [store : {"nil", "memory", "kubernetes", "none"}, cluster : Cluster \cup {None},
         catalog : Cluster \cup {None}, photos : {"nil", "photos"},
         auth : {"nil", "fake", "entra"}, asks : BOOLEAN]

Step(here, ok, next) ==
    /\ pc = here
    /\ pc' = IF ok THEN next ELSE "exited"
    /\ UNCHANGED <<outside, live>>

Init ==
    /\ env \in Env
    /\ place \in {"cluster", "laptop", "broken"}
    /\ context \in IF place = "laptop" THEN Context ELSE {None}
    /\ pc = "load" /\ report = {} /\ made = Nothing
    /\ live = None

-----------------------------------------------------------------------------
Load ==
    /\ report' = Errors(env)
    /\ Step("load", report' = {}, "brand")
    /\ UNCHANGED made

\* A wrong part of the branding stops the process, one at a time.
ResolveBrand ==
    /\ report' = IF env.brand = {} THEN {} ELSE {"brand"}
    /\ Step("brand", env.brand = {}, "sealer")
    /\ UNCHANGED made

NewSealer == Step("sealer", Cfg(env).keys # "none", "store") /\ UNCHANGED <<report, made>>

\* A plausible bug: a pod without a service account uses a kubeconfig.
RESTConfigGuesses(c) ==
    IF place = "cluster" THEN Home
    ELSE IF c.kubeconfig = "good" THEN context ELSE None

\* RESTConfig: in the cluster by the service account; elsewhere by a kubeconfig,
\* if that is allowed.
RESTConfig(c) ==
    IF place = "cluster" THEN Home
    ELSE IF place = "laptop" /\ c.allow /\ c.kubeconfig = "good" THEN context
    ELSE None

BuildKeyStore ==
    LET c == Cfg(env)
        cluster == IF c.mode = "kubernetes" THEN RESTConfig(c) ELSE None
    IN  /\ Step("store", c.mode # "kubernetes" \/ (cluster # None /\ c.namespace), "catalog")
        /\ made' = [made EXCEPT !.store = c.mode, !.cluster = cluster]
        /\ UNCHANGED report

\* A second connection, resolved anew; none when the feature is off.
BuildCatalog ==
    LET c == Cfg(env)
        on == c.mode = "kubernetes" /\ c.catalog
        cluster == IF on THEN RESTConfig(c) ELSE None
    IN  /\ Step("catalog", on => cluster # None, "photos")
        /\ made' = [made EXCEPT !.catalog = cluster]
        /\ UNCHANGED report

\* A plausible bug: a photo cache whatever the sign-in is.
MakePhotosAlways ==
    /\ Step("photos", TRUE, "auth")
    /\ made' = [made EXCEPT !.photos = IF Cfg(env).avatars THEN "photos" ELSE "nil"]
    /\ UNCHANGED report

MakePhotos ==
    /\ Step("photos", TRUE, "auth")
    /\ made' = [made EXCEPT !.photos =
           IF Cfg(env).avatars /\ ~Cfg(env).fake THEN "photos" ELSE "nil"]
    /\ UNCHANGED report

\* A plausible bug: the nil pointer is put into the interface as it is.
asInterfaceTyped(p) == IF p = "nil" THEN "typed nil" ELSE p

\* capturer and photoStore: a nil pointer becomes a nil interface.
asInterface(p) == p

\* A plausible bug: the tenant's discovery document is read for either sign-in.
FakeAuthDiscovers ==
    /\ Cfg(env).fake
    /\ Step("auth", Cfg(env).tenant = "right", "assets")
    /\ made' = [made EXCEPT !.auth = "fake"]
    /\ UNCHANGED report

FakeAuth ==
    /\ Cfg(env).fake
    /\ Step("auth", TRUE, "assets")
    /\ made' = [made EXCEPT !.auth = "fake"]
    /\ UNCHANGED report

\* A plausible bug: discovery is left for the first sign-in.
DiscoverLater ==
    /\ ~Cfg(env).fake
    /\ Step("auth", TRUE, "assets")
    /\ made' = [made EXCEPT !.auth = "entra", !.asks = asInterface(made.photos) # "nil"]
    /\ UNCHANGED report

\* Discovery succeeds for a tenant that exists.
Discover ==
    /\ ~Cfg(env).fake /\ Cfg(env).tenant = "right"
    /\ Step("auth", TRUE, "assets")
    /\ made' = [made EXCEPT !.auth = "entra", !.asks = asInterface(made.photos) # "nil"]
    /\ UNCHANGED report

\* No such tenant, no answer, or discoveryTimeout.
DiscoveryFails ==
    /\ ~Cfg(env).fake
    /\ Step("auth", FALSE, "assets")
    /\ UNCHANGED <<report, made>>

\* The templates are parsed, and the App assembled.
NewApp == Step("assets", env.assets # "bad", "listen") /\ UNCHANGED <<report, made>>

\* The port is free or not.
Listen == \E free \in BOOLEAN : Step("listen", free, "running") /\ UNCHANGED <<report, made>>

\* A plausible bug: the banner follows the keystore.
AppOfBanner(e, m) ==
    [store |-> m.store, cluster |-> m.cluster, catalog |-> m.catalog,
     photos |-> asInterface(m.photos), auth |-> m.auth, asks |-> m.asks,
     dev |-> m.store = "memory", allow |-> Cfg(e).allow, tenant |-> Cfg(e).tenant,
     base |-> Cfg(e).base, inference |-> Cfg(e).inference]

\* The App that httpapp.New makes of them.
AppOf(e, m) ==
    [store |-> m.store, cluster |-> m.cluster, catalog |-> m.catalog,
     photos |-> asInterface(m.photos), auth |-> m.auth, asks |-> m.asks,
     dev |-> Cfg(e).fake, allow |-> Cfg(e).allow, tenant |-> Cfg(e).tenant,
     base |-> Cfg(e).base, inference |-> Cfg(e).inference]

\* The readiness probe is answered: the process takes over.
BecomeReady ==
    /\ pc = "running"
    /\ pc' = "serving" /\ live' = AppOf(env, made)
    /\ UNCHANGED <<outside, report, made>>

-----------------------------------------------------------------------------
NewProcess == pc' = "load" /\ report' = {} /\ made' = Nothing

\* Whoever runs the process starts it again,
Restart ==
    /\ pc = "exited"
    /\ NewProcess
    /\ UNCHANGED <<outside, live>>

\* ... after changing a setting, if need be; the process that serves stays.
Edit(s, value) ==
    /\ pc \in {"exited", "running", "serving"}
    /\ env' = [env EXCEPT ![s] = value] /\ env' # env /\ env' \in Env
    /\ NewProcess
    /\ UNCHANGED <<place, context, live>>

\* The process dies, as does the one that serves while another starts.
Crash ==
    /\ pc \in {"running", "serving"}
    /\ pc' = "exited"
    /\ live' = IF pc = "serving" THEN None ELSE live
    /\ UNCHANGED <<outside, report, made>>

PredecessorDies ==
    /\ pc # "serving" /\ live # None
    /\ live' = None
    /\ UNCHANGED <<outside, pc, report, made>>

\* kubectl config use-context.
UseContext(c) ==
    /\ place = "laptop" /\ context # c
    /\ context' = c
    /\ UNCHANGED <<env, place, pc, report, made, live>>

\* The values an operator knows for the settings.
Setting == UNION {DOMAIN e : e \in Env}
Choices == UNION {{<<s, e[s]>> : s \in DOMAIN e} : e \in Env}

Start ==
    \/ Load \/ ResolveBrand \/ NewSealer \/ BuildKeyStore \/ BuildCatalog \/ MakePhotos
    \/ FakeAuth \/ Discover \/ DiscoveryFails \/ NewApp \/ Listen

Next ==
    \/ Start \/ BecomeReady \/ Restart \/ Crash \/ PredecessorDies
    \/ \E choice \in Choices : Edit(choice[1], choice[2])
    \/ \E c \in Context : UseContext(c)

Spec == Init /\ [][Next]_vars

\* The process goes on and is started again; the tenant's discovery document,
\* a free port and the keystore are not for ever out of reach.
Fairness ==
    /\ WF_vars(Start) /\ WF_vars(Restart)
    /\ SF_vars(Discover) /\ SF_vars(Listen /\ pc' = "running") /\ SF_vars(BecomeReady)

FairSpec == Spec /\ Fairness

-----------------------------------------------------------------------------
(* Properties.                                                             *)

\* fake.go: "it cannot be combined with the Kubernetes keystore, and it requires
\* a loopback public URL.  Every page it serves carries a development banner."
DevStaysLocal ==
    live # None =>
      /\ live.dev = (live.auth = "fake")
      /\ live.dev => live.store = "memory" /\ isLoopback(live.base)

\* client.go: a portal in a cluster uses that cluster for its keys and for its
\* models; outside, none that it was not allowed to use.
RightCluster ==
    live # None /\ live.store = "kubernetes" =>
      /\ live.cluster # None
      /\ IF place = "cluster"
           THEN live.cluster = Home /\ live.catalog \in {Home, None}
           ELSE live.allow /\ place = "laptop"

\* main.go: a feature that is switched off is nowhere seen as on.  The sign-in
\* asks Graph for the photo exactly if the pages have a cache to show it from,
\* and the pages offer the models only of a keystore's cluster.
OffIsOff ==
    live # None =>
      /\ live.photos # "typed nil"
      /\ live.asks = (live.photos # "nil")
      /\ live.catalog # None => live.store = "kubernetes"

\* main.go: "a tenant misconfiguration is a failed rollout rather than a broken
\* login page"; and the guides of what serves have an address for the models.
SignInWorks ==
    live # None =>
      /\ live.auth = "fake" \/ (live.auth = "entra" /\ live.tenant = "right")
      /\ live.inference # "none"

\* The environments that Load accepts.
Accepted == {e \in Env : Errors(e) = {}}

\* config.go: "It collects every problem it finds rather than stopping at the
\* first": a start that fails names every setting that will have to change,
\* whatever else is changed.
NamesTheHopeless ==
    report # {} =>
      \A s \in Setting : (\A e \in Accepted : e[s] # env[s]) => s \in report

\* What a process needs to come up, once the network allows.
Sound ==
    LET c == Cfg(env)
    IN  /\ Errors(env) = {} /\ env.brand = {} /\ env.assets # "bad"
        /\ c.fake \/ c.tenant = "right"
        /\ c.mode = "kubernetes" => RESTConfig(c) # None

\* A process with sound settings serves in the end, whatever fails on its way.
StartsAtLast == pc = "load" /\ Sound ~> pc = "serving" \/ ~Sound
=============================================================================
