--------------------------- MODULE StartupProofs ---------------------------
(***************************************************************************)
(* Whatever the environments an operator may choose and however often the  *)
(* process is started, edited and killed: a portal that serves has been    *)
(* put together from one accepted environment, step after step.            *)
(***************************************************************************)
EXTENDS Startup, TLAPS

USE EnvAssumption, NoneAssumption

\* Where a process is once it has taken a step.
HasLoaded == {"brand", "sealer", "store", "catalog", "photos", "auth", "assets", "listen",
              "running", "serving"}
HasStore == HasLoaded \ {"brand", "sealer", "store"}
HasCatalog == HasStore \ {"catalog"}
HasPhotos == HasCatalog \ {"photos"}
HasAuth == HasPhotos \ {"auth"}

TypeOK ==
    /\ env \in Environment
    /\ place \in {"cluster", "laptop", "broken"}
    /\ place = "laptop" => context \in Context
    /\ pc \in HasLoaded \cup {"load", "exited"}
    /\ made \in Made

\* A cluster that RESTConfig may give a process with this environment.
Permitted(cluster) ==
    IF place = "cluster" THEN cluster = Home
    ELSE cluster # None /\ Cfg(env).allow /\ place = "laptop"

\* What each step has checked, and left in made.
StageInv ==
    /\ pc \in HasLoaded => Errors(env) = {}
    /\ pc \in HasStore =>
         /\ made.store = Cfg(env).mode
         /\ made.store = "kubernetes" => Permitted(made.cluster)
    /\ pc \in HasCatalog /\ made.catalog # None =>
         made.store = "kubernetes" /\ Permitted(made.catalog)
    /\ pc \in HasPhotos =>
         made.photos = IF Cfg(env).avatars /\ ~Cfg(env).fake THEN "photos" ELSE "nil"
    /\ pc \in (HasLoaded \cup {"load"}) \ HasAuth => ~made.asks
    /\ pc \in HasAuth =>
         /\ made.asks = (made.photos # "nil")
         /\ IF Cfg(env).fake THEN made.auth = "fake"
            ELSE made.auth = "entra" /\ Cfg(env).tenant = "right"

LiveInv == DevStaysLocal /\ RightCluster /\ OffIsOff /\ SignInWorks

IInv == TypeOK /\ StageInv /\ LiveInv

-----------------------------------------------------------------------------
\* What it takes for Load to accept an environment.
LEMMA Acceptance ==
    ASSUME NEW e \in Environment, Errors(e) = {}
    PROVE  /\ Cfg(e).mode \in {"memory", "kubernetes"}
           /\ Cfg(e).base # "none" /\ Cfg(e).inference # "none"
           /\ ~checkDevGuards(Cfg(e))
<1>. DEFINE wrong == IsWrong(e)
<1>1. {"base", "inference", "mode", "fake"} \subseteq DOMAIN wrong
  BY DEF IsWrong
<1>2. /\ wrong["base"] = (Cfg(e).base = "none")
      /\ wrong["inference"] = (e.inference # "unset" /\ Cfg(e).inference = "none")
      /\ wrong["mode"] = (Cfg(e).mode = "none")
      /\ wrong["fake"] = checkDevGuards(Cfg(e))
  BY DEF IsWrong
<1>3. \A s \in {"base", "inference", "mode", "fake"} : ~wrong[s]
  <2>. HIDE DEF wrong
  <2>1. Errors(e) = {s \in DOMAIN wrong : wrong[s]}
    BY DEF Errors, wrong
  <2>. QED  BY <1>1, <2>1
<1>4. e.inference = "unset" => Cfg(e).inference = Cfg(e).base
  BY DEF Cfg
<1>5. Cfg(e).mode \in {"memory", "kubernetes", "none"}
  BY DEF Cfg, keystoreMode, Environment
<1>. HIDE DEF wrong
<1>. QED  BY <1>2, <1>3, <1>4, <1>5

\* A switch is on or off.
LEMMA Switches ==
    ASSUME NEW e \in Environment
    PROVE  /\ Cfg(e).fake \in BOOLEAN /\ Cfg(e).avatars \in BOOLEAN
           /\ Cfg(e).allow \in BOOLEAN
           /\ Cfg(e).mode \in {"memory", "kubernetes", "none"}
           /\ Cfg(e).tenant = e.tenant
BY DEF Cfg, Environment, boolEnv, boolEnvDefaultTrue, keystoreMode

\* The client configuration is of a permitted cluster, if of any.
LEMMA ConfigPermitted ==
    ASSUME TypeOK
    PROVE  /\ RESTConfig(Cfg(env)) \in Cluster \cup {None}
           /\ RESTConfig(Cfg(env)) # None => Permitted(RESTConfig(Cfg(env)))
BY Switches DEF TypeOK, RESTConfig, Permitted, Cluster

\* A step that only fails, or only goes on, keeps what has been built.
LEMMA KeepsLive ==
    ASSUME LiveInv, UNCHANGED <<live, place>>
    PROVE  LiveInv'
BY DEF LiveInv, DevStaysLocal, RightCluster, OffIsOff, SignInWorks

\* A new process starts with nothing.
LEMMA NewProcessInv ==
    ASSUME IInv, NewProcess, env' \in Environment, UNCHANGED <<place, context, live>>
    PROVE  IInv'
<1>1. TypeOK'
  BY DEF IInv, TypeOK, NewProcess, Nothing, Made
<1>2. StageInv'
  BY DEF StageInv, NewProcess, Nothing, HasLoaded, HasStore, HasCatalog, HasPhotos, HasAuth
<1>. QED  BY <1>1, <1>2, KeepsLive DEF IInv

LEMMA InitIInv == Init => IInv
<1> SUFFICES ASSUME Init PROVE IInv
  OBVIOUS
<1>1. TypeOK
  BY DEF Init, TypeOK, Nothing, Made
<1>2. StageInv
  BY DEF Init, Nothing, StageInv, HasLoaded, HasStore, HasCatalog, HasPhotos, HasAuth
<1>3. LiveInv
  BY DEF Init, LiveInv, DevStaysLocal, RightCluster, OffIsOff, SignInWorks
<1>. QED  BY <1>1, <1>2, <1>3 DEF IInv

\* The environment is accepted, or the process exits.
LEMMA StepLoad ==
    ASSUME IInv, Load
    PROVE  IInv'
<1>1. TypeOK'
  BY DEF IInv, TypeOK, Load, Step, outside, HasLoaded
<1>2. StageInv'
  BY DEF IInv, Load, Step, outside, StageInv, Permitted,
         HasLoaded, HasStore, HasCatalog, HasPhotos, HasAuth
<1>3. LiveInv'
  BY KeepsLive DEF IInv, Load, Step, outside
<1>. QED  BY <1>1, <1>2, <1>3 DEF IInv

\* The branding.
LEMMA StepResolveBrand ==
    ASSUME IInv, ResolveBrand
    PROVE  IInv'
<1>1. TypeOK'
  BY DEF IInv, TypeOK, ResolveBrand, Step, outside, HasLoaded
<1>2. StageInv'
  BY DEF IInv, ResolveBrand, Step, outside, StageInv, Permitted,
         HasLoaded, HasStore, HasCatalog, HasPhotos, HasAuth
<1>3. LiveInv'
  BY KeepsLive DEF IInv, ResolveBrand, Step, outside
<1>. QED  BY <1>1, <1>2, <1>3 DEF IInv

\* The session keys.
LEMMA StepNewSealer ==
    ASSUME IInv, NewSealer
    PROVE  IInv'
<1>1. TypeOK'
  BY DEF IInv, TypeOK, NewSealer, Step, outside, HasLoaded
<1>2. StageInv'
  BY DEF IInv, NewSealer, Step, outside, StageInv, Permitted,
         HasLoaded, HasStore, HasCatalog, HasPhotos, HasAuth
<1>3. LiveInv'
  BY KeepsLive DEF IInv, NewSealer, Step, outside
<1>. QED  BY <1>1, <1>2, <1>3 DEF IInv

\* The keystore, on a permitted cluster.
LEMMA StepBuildKeyStore ==
    ASSUME IInv, BuildKeyStore
    PROVE  IInv'
<1> DEFINE c == Cfg(env)
           cluster == IF c.mode = "kubernetes" THEN RESTConfig(c) ELSE None
<1>1. /\ pc = "store" /\ pc' \in {"catalog", "exited"}
      /\ pc' = "catalog" => c.mode # "kubernetes" \/ cluster # None
      /\ made' = [made EXCEPT !.store = c.mode, !.cluster = cluster]
      /\ UNCHANGED <<env, place, context, live>>
  BY DEF BuildKeyStore, Step, outside
<1>2. /\ c.mode \in {"memory", "kubernetes", "none"}
      /\ cluster \in Cluster \cup {None}
      /\ c.mode = "kubernetes" /\ cluster # None => Permitted(cluster)
  BY Switches, ConfigPermitted DEF IInv, TypeOK
<1>3. /\ made' \in Made /\ made'.store = c.mode /\ made'.cluster = cluster
      /\ made'.asks = made.asks
  BY <1>1, <1>2 DEF IInv, TypeOK, Made
<1>4. TypeOK'
  BY <1>1, <1>3 DEF IInv, TypeOK, HasLoaded
<1>5. StageInv'
  <2>1. pc \in HasLoaded /\ pc \notin HasAuth
    BY <1>1 DEF HasLoaded, HasStore, HasCatalog, HasPhotos, HasAuth
  <2>. QED  BY <1>1, <1>2, <1>3, <2>1
            DEF IInv, StageInv, HasLoaded, HasStore, HasCatalog, HasPhotos, HasAuth, Permitted
<1>6. LiveInv'
  BY <1>1, KeepsLive DEF IInv
<1>. QED  BY <1>4, <1>5, <1>6 DEF IInv

\* The catalog's own connection, of a keystore in a cluster only.
LEMMA StepBuildCatalog ==
    ASSUME IInv, BuildCatalog
    PROVE  IInv'
<1> DEFINE c == Cfg(env)
           on == c.mode = "kubernetes" /\ c.catalog
           cluster == IF on THEN RESTConfig(c) ELSE None
<1>1. /\ pc = "catalog" /\ pc' \in {"photos", "exited"}
      /\ made' = [made EXCEPT !.catalog = cluster]
      /\ UNCHANGED <<env, place, context, live>>
  BY DEF BuildCatalog, Step, outside
<1>2. /\ cluster \in Cluster \cup {None}
      /\ cluster # None => c.mode = "kubernetes" /\ Permitted(cluster)
  BY ConfigPermitted DEF IInv
<1>3. /\ made' \in Made /\ made'.catalog = cluster
      /\ made'.store = made.store /\ made'.cluster = made.cluster /\ made'.asks = made.asks
  BY <1>1, <1>2 DEF IInv, TypeOK, Made
<1>4. TypeOK'
  BY <1>1, <1>3 DEF IInv, TypeOK, HasLoaded
<1>5. StageInv'
  BY <1>1, <1>2, <1>3
     DEF IInv, StageInv, HasLoaded, HasStore, HasCatalog, HasPhotos, HasAuth, Permitted
<1>6. LiveInv'
  BY <1>1, KeepsLive DEF IInv
<1>. QED  BY <1>4, <1>5, <1>6 DEF IInv

\* The photo cache.
LEMMA StepMakePhotos ==
    ASSUME IInv, MakePhotos
    PROVE  IInv'
<1> DEFINE p == IF Cfg(env).avatars /\ ~Cfg(env).fake THEN "photos" ELSE "nil"
<1>1. /\ pc = "photos" /\ pc' = "auth" /\ made' = [made EXCEPT !.photos = p]
      /\ UNCHANGED <<env, place, context, live>>
  BY DEF MakePhotos, Step, outside
<1>2. /\ made' \in Made /\ made'.photos = p /\ made'.asks = made.asks
      /\ made'.store = made.store /\ made'.cluster = made.cluster
      /\ made'.catalog = made.catalog
  BY <1>1 DEF IInv, TypeOK, Made
<1>3. TypeOK'
  BY <1>1, <1>2 DEF IInv, TypeOK, HasLoaded
<1>4. StageInv'
  BY <1>1, <1>2
     DEF IInv, StageInv, HasLoaded, HasStore, HasCatalog, HasPhotos, HasAuth, Permitted
<1>5. LiveInv'
  BY <1>1, KeepsLive DEF IInv
<1>. QED  BY <1>3, <1>4, <1>5 DEF IInv

\* The sign-in, either of the two; when it can be built.
LEMMA StepAuth ==
    ASSUME IInv, FakeAuth \/ Discover
    PROVE  IInv'
<1>1. /\ pc = "auth" /\ pc' = "assets"
      /\ UNCHANGED <<env, place, context, live>>
  BY DEF FakeAuth, Discover, Step, outside
<1>2. /\ pc \in HasPhotos /\ pc' \in HasPhotos /\ pc' \in HasAuth
      /\ pc \in HasLoaded \ HasAuth
      /\ made.photos = IF Cfg(env).avatars /\ ~Cfg(env).fake THEN "photos" ELSE "nil"
      /\ ~made.asks
  BY <1>1 DEF IInv, StageInv, HasLoaded, HasStore, HasCatalog, HasPhotos, HasAuth
<1>3. /\ made' \in Made /\ made'.photos = made.photos
      /\ made'.store = made.store /\ made'.cluster = made.cluster
      /\ made'.catalog = made.catalog
  <2>1. CASE FakeAuth
    BY <2>1 DEF IInv, TypeOK, Made, FakeAuth
  <2>2. CASE Discover
    BY <2>2 DEF IInv, TypeOK, Made, Discover, asInterface
  <2>. QED  BY <2>1, <2>2
<1>4. /\ made'.asks = (made'.photos # "nil")
      /\ IF Cfg(env).fake THEN made'.auth = "fake"
         ELSE made'.auth = "entra" /\ Cfg(env).tenant = "right"
  <2>1. CASE FakeAuth
    BY <1>2, <2>1 DEF IInv, TypeOK, Made, FakeAuth
  <2>2. CASE Discover
    BY <1>2, <2>2, Switches DEF IInv, TypeOK, Made, Discover, asInterface
  <2>. QED  BY <2>1, <2>2
<1>5. TypeOK'
  BY <1>1, <1>3 DEF IInv, TypeOK, HasLoaded
<1>6. StageInv'
  BY <1>1, <1>2, <1>3, <1>4
     DEF IInv, StageInv, HasLoaded, HasStore, HasCatalog, HasPhotos, HasAuth, Permitted
<1>7. LiveInv'
  BY <1>1, KeepsLive DEF IInv
<1>. QED  BY <1>5, <1>6, <1>7 DEF IInv

\* No discovery document: the process exits.
LEMMA StepDiscoveryFails ==
    ASSUME IInv, DiscoveryFails
    PROVE  IInv'
<1>1. TypeOK'
  BY DEF IInv, TypeOK, DiscoveryFails, Step, outside, HasLoaded
<1>2. StageInv'
  BY DEF IInv, DiscoveryFails, Step, outside, StageInv, Permitted,
         HasLoaded, HasStore, HasCatalog, HasPhotos, HasAuth
<1>3. LiveInv'
  BY KeepsLive DEF IInv, DiscoveryFails, Step, outside
<1>. QED  BY <1>1, <1>2, <1>3 DEF IInv

\* The templates.
LEMMA StepNewApp ==
    ASSUME IInv, NewApp
    PROVE  IInv'
<1>1. TypeOK'
  BY DEF IInv, TypeOK, NewApp, Step, outside, HasLoaded
<1>2. StageInv'
  BY DEF IInv, NewApp, Step, outside, StageInv, Permitted,
         HasLoaded, HasStore, HasCatalog, HasPhotos, HasAuth
<1>3. LiveInv'
  BY KeepsLive DEF IInv, NewApp, Step, outside
<1>. QED  BY <1>1, <1>2, <1>3 DEF IInv

\* The port.
LEMMA StepListen ==
    ASSUME IInv, Listen
    PROVE  IInv'
<1>1. TypeOK'
  BY DEF IInv, TypeOK, Listen, Step, outside, HasLoaded
<1>2. StageInv'
  BY DEF IInv, Listen, Step, outside, StageInv, Permitted,
         HasLoaded, HasStore, HasCatalog, HasPhotos, HasAuth
<1>3. LiveInv'
  BY KeepsLive DEF IInv, Listen, Step, outside
<1>. QED  BY <1>1, <1>2, <1>3 DEF IInv

\* The process takes over: this is where what was checked step by step matters.
LEMMA StepBecomeReady ==
    ASSUME IInv, BecomeReady
    PROVE  IInv'
<1> DEFINE c == Cfg(env)
<1>1. /\ pc = "running" /\ pc' = "serving" /\ live' = AppOf(env, made)
      /\ UNCHANGED <<env, place, context, made>>
  BY DEF BecomeReady, outside
<1>2. TypeOK' /\ StageInv'
  BY <1>1 DEF IInv, TypeOK, StageInv, HasLoaded, HasStore, HasCatalog, HasPhotos, HasAuth,
              Permitted
<1>3. /\ Errors(env) = {} /\ made.store = c.mode
      /\ made.store = "kubernetes" => Permitted(made.cluster)
      /\ made.catalog # None => made.store = "kubernetes" /\ Permitted(made.catalog)
      /\ made.asks = (made.photos # "nil") /\ made.photos \in {"nil", "photos"}
      /\ IF c.fake THEN made.auth = "fake"
         ELSE made.auth = "entra" /\ c.tenant = "right"
  BY <1>1 DEF IInv, TypeOK, Made, StageInv, HasLoaded, HasStore, HasCatalog, HasPhotos, HasAuth
<1>4. /\ c.mode \in {"memory", "kubernetes"} /\ c.base # "none" /\ c.inference # "none"
      /\ c.fake => c.mode # "kubernetes" /\ isLoopback(c.base)
  BY <1>3, Acceptance DEF IInv, TypeOK, checkDevGuards
<1>5. /\ live'.store = made.store /\ live'.cluster = made.cluster
      /\ live'.catalog = made.catalog /\ live'.photos = made.photos
      /\ live'.auth = made.auth /\ live'.asks = made.asks
      /\ live'.dev = c.fake /\ live'.allow = c.allow /\ live'.tenant = c.tenant
      /\ live'.base = c.base /\ live'.inference = c.inference
  BY <1>1 DEF AppOf, asInterface
<1>6. DevStaysLocal'
  <2>1. c.fake \in BOOLEAN
    BY Switches DEF IInv, TypeOK
  <2>. QED  BY <1>3, <1>4, <1>5, <2>1 DEF DevStaysLocal
<1>7. RightCluster'
  <2>1. CASE place = "cluster"
    BY <1>1, <1>3, <1>5, <2>1 DEF RightCluster, Permitted, Cluster
  <2>2. CASE place # "cluster"
    BY <1>1, <1>3, <1>5, <2>2 DEF RightCluster, Permitted
  <2>. QED  BY <2>1, <2>2
<1>8. OffIsOff' /\ SignInWorks'
  BY <1>3, <1>4, <1>5 DEF OffIsOff, SignInWorks
<1>. QED  BY <1>2, <1>6, <1>7, <1>8 DEF IInv, LiveInv

\* A process started again, with the same environment or an edited one.
LEMMA StepRestart == ASSUME IInv, Restart PROVE IInv'
BY NewProcessInv DEF Restart, outside, IInv, TypeOK

LEMMA StepEdit ==
    ASSUME IInv, NEW choice \in Choices, Edit(choice[1], choice[2])
    PROVE  IInv'
BY NewProcessInv DEF Edit

\* A process dies.
LEMMA StepCrash ==
    ASSUME IInv, Crash \/ PredecessorDies
    PROVE  IInv'
<1>1. TypeOK' /\ StageInv'
  BY DEF IInv, TypeOK, StageInv, Crash, PredecessorDies, outside,
         HasLoaded, HasStore, HasCatalog, HasPhotos, HasAuth, Permitted
<1>2. live' = live \/ live' = None
  BY DEF Crash, PredecessorDies
<1>3. place' = place
  BY DEF Crash, PredecessorDies, outside
<1>4. LiveInv'
  <2>1. CASE live' = live
    BY <1>3, <2>1, KeepsLive DEF IInv
  <2>2. CASE live' = None
    BY <2>2 DEF LiveInv, DevStaysLocal, RightCluster, OffIsOff, SignInWorks
  <2>. QED  BY <1>2, <2>1, <2>2
<1>. QED  BY <1>1, <1>4 DEF IInv

\* The kubeconfig changes under a process that has resolved it, or is yet to.
LEMMA StepUseContext ==
    ASSUME IInv, NEW c \in Context, UseContext(c)
    PROVE  IInv'
<1>1. TypeOK' /\ StageInv'
  BY DEF IInv, TypeOK, StageInv, UseContext, HasLoaded, HasStore, HasCatalog, HasPhotos,
         HasAuth, Permitted
<1>2. LiveInv'
  BY KeepsLive DEF IInv, UseContext
<1>. QED  BY <1>1, <1>2 DEF IInv

LEMMA StepIInv == IInv /\ [Next]_vars => IInv'
<1> SUFFICES ASSUME IInv, [Next]_vars PROVE IInv'
  OBVIOUS
<1>1. CASE UNCHANGED vars
  <2>1. TypeOK' /\ StageInv'
    BY <1>1 DEF IInv, TypeOK, StageInv, vars, outside, Permitted
  <2>. QED  BY <1>1, <2>1, KeepsLive DEF IInv, vars, outside
<1>2. CASE Next
  BY <1>2, StepLoad, StepResolveBrand, StepNewSealer, StepBuildKeyStore, StepBuildCatalog,
     StepMakePhotos, StepAuth, StepDiscoveryFails, StepNewApp, StepListen, StepBecomeReady,
     StepRestart, StepEdit, StepCrash, StepUseContext
     DEF Next, Start
<1>. QED  BY <1>1, <1>2

\* What has been checked on the way up stays true of what serves.
THEOREM SpecIInv == Spec => []IInv
BY InitIInv, StepIInv, PTL DEF Spec

-----------------------------------------------------------------------------
\* The development sign-in never serves beside the production keystore or under
\* an address others can reach, and the banner is on exactly when it serves.
THEOREM SpecDevStaysLocal == Spec => []DevStaysLocal
<1>1. IInv => DevStaysLocal
  BY DEF IInv, LiveInv
<1>. QED  BY <1>1, SpecIInv, PTL

\* Keys and models come from the pod's own cluster, or from one that was allowed,
\* however the kubeconfig changes while the process comes up.
THEOREM SpecRightCluster == Spec => []RightCluster
<1>1. IInv => RightCluster
  BY DEF IInv, LiveInv
<1>. QED  BY <1>1, SpecIInv, PTL

\* A feature that is switched off is nowhere taken for one that is on.
THEOREM SpecOffIsOff == Spec => []OffIsOff
<1>1. IInv => OffIsOff
  BY DEF IInv, LiveInv
<1>. QED  BY <1>1, SpecIInv, PTL

\* What serves can sign its users in, and its guides name an address.
THEOREM SpecSignInWorks == Spec => []SignInWorks
<1>1. IInv => SignInWorks
  BY DEF IInv, LiveInv
<1>. QED  BY <1>1, SpecIInv, PTL

-----------------------------------------------------------------------------
(* What Load reports, and what an operator could set instead.              *)

\* Which settings are reported, one by one.
LEMMA Reported ==
    ASSUME NEW e
    PROVE  /\ "port" \in Errors(e) <=> e.port = "bad"
           /\ "base" \in Errors(e) <=> Cfg(e).base = "none"
           /\ "inference" \in Errors(e) <=> e.inference # "unset" /\ Cfg(e).inference = "none"
           /\ "models" \in Errors(e) <=> parseOnboardingModels(e.models) = "none"
           /\ "grafana" \in Errors(e) <=> e.grafana = "bad"
           /\ "mode" \in Errors(e) <=> Cfg(e).mode = "none"
           /\ "namespace" \in Errors(e) <=> Cfg(e).mode = "kubernetes" /\ ~Cfg(e).namespace
           /\ "tenant" \in Errors(e) <=> ~Cfg(e).fake /\ Cfg(e).tenant = "unset"
           /\ "client" \in Errors(e) <=> ~Cfg(e).fake /\ ~e.client
           /\ "secret" \in Errors(e) <=> ~Cfg(e).fake /\ ~e.secret
           /\ "keys" \in Errors(e) <=> Cfg(e).keys = "none"
           /\ "fake" \in Errors(e) <=> checkDevGuards(Cfg(e))
           /\ Errors(e) \subseteq {"port", "base", "inference", "models", "grafana", "mode",
                "namespace", "tenant", "client", "secret", "keys", "fake"}
<1>. DEFINE wrong == IsWrong(e)
            names == {"port", "base", "inference", "models", "grafana", "mode", "namespace",
                      "tenant", "client", "secret", "keys", "fake"}
<1>1. DOMAIN wrong = names
  BY DEF IsWrong
<1>2. /\ wrong["port"] = (e.port = "bad")
      /\ wrong["base"] = (Cfg(e).base = "none")
      /\ wrong["inference"] = (e.inference # "unset" /\ Cfg(e).inference = "none")
      /\ wrong["models"] = (parseOnboardingModels(e.models) = "none")
      /\ wrong["grafana"] = (e.grafana = "bad")
      /\ wrong["mode"] = (Cfg(e).mode = "none")
      /\ wrong["namespace"] = (Cfg(e).mode = "kubernetes" /\ ~Cfg(e).namespace)
      /\ wrong["tenant"] = (~Cfg(e).fake /\ Cfg(e).tenant = "unset")
      /\ wrong["client"] = (~Cfg(e).fake /\ ~e.client)
      /\ wrong["secret"] = (~Cfg(e).fake /\ ~e.secret)
      /\ wrong["keys"] = (Cfg(e).keys = "none")
      /\ wrong["fake"] = checkDevGuards(Cfg(e))
  BY DEF IsWrong
<1>. HIDE DEF wrong
<1>3. Errors(e) = {s \in names : wrong[s]}
  BY <1>1 DEF Errors, wrong
<1>4. \A s \in names : s \in Errors(e) <=> wrong[s]
  BY <1>3
<1>. QED  BY <1>2, <1>3, <1>4

\* What Load makes of the settings it checks.
LEMMA Parsed ==
    ASSUME NEW e
    PROVE  /\ Cfg(e).base = parseBaseURL(e.base)
           /\ Cfg(e).inference = parseBaseURL(IF e.inference = "unset" THEN e.base ELSE e.inference)
           /\ Cfg(e).mode = keystoreMode(e.mode) /\ Cfg(e).namespace = e.namespace
           /\ Cfg(e).tenant = e.tenant /\ Cfg(e).keys = parseSessionKeys(e.keys)
           /\ Cfg(e).fake = boolEnv(e.fake)
BY DEF Cfg

\* An environment that is another but for one setting.
ButFor(a, b, s) == \A t \in (DOMAIN b) \ {s} : a[t] = b[t]

\* Two lists of one good entry pass.
LEMMA GoodLists ==
    /\ parseOnboardingModels(<<"good">>) # "none" /\ parseSessionKeys(<<"good">>) # "none"
BY DEF parseOnboardingModels, parseSessionKeys

\* A value that is not reported can be kept in a deployment, unless it is one that
\* only the development sign-in or the memory keystore excuse.
LEMMA ProductionAccepted ==
    ASSUME NEW e, NEW a, NEW s \in DOMAIN Production,
           s \notin Errors(e), a[s] = e[s], ButFor(a, Production, s),
           s = "namespace" => e.namespace,
           s \in {"tenant", "client", "secret", "fake"} => ~boolEnv(e.fake)
    PROVE  Errors(a) = {}
<1>1. /\ (a.port = e.port /\ s = "port") \/ a.port = "unset"
      /\ (a.base = e.base /\ s = "base") \/ a.base = "public"
      /\ (a.inference = e.inference /\ s = "inference") \/ a.inference = "unset"
      /\ (a.models = e.models /\ s = "models") \/ a.models = <<"good">>
      /\ (a.grafana = e.grafana /\ s = "grafana") \/ a.grafana = "unset"
      /\ (a.mode = e.mode /\ s = "mode") \/ a.mode = "kubernetes"
      /\ (a.namespace = e.namespace /\ s = "namespace") \/ a.namespace = TRUE
      /\ (a.tenant = e.tenant /\ s = "tenant") \/ a.tenant = "right"
      /\ (a.client = e.client /\ s = "client") \/ a.client = TRUE
      /\ (a.secret = e.secret /\ s = "secret") \/ a.secret = TRUE
      /\ (a.fake = e.fake /\ s = "fake") \/ a.fake = "unset"
      /\ (a.keys = e.keys /\ s = "keys") \/ a.keys = <<"good">>
  BY DEF ButFor, Production
<1>2. ~boolEnv(a.fake)
  BY <1>1 DEF boolEnv
<1>3. "port" \notin Errors(a) /\ "grafana" \notin Errors(a)
  BY <1>1, Reported
<1>4. "base" \notin Errors(a) /\ "inference" \notin Errors(a)
  BY <1>1, Reported, Parsed DEF parseBaseURL
<1>5. "models" \notin Errors(a) /\ "keys" \notin Errors(a)
  BY <1>1, Reported, Parsed, GoodLists
<1>6. "mode" \notin Errors(a) /\ "namespace" \notin Errors(a)
  BY <1>1, Reported, Parsed DEF keystoreMode
<1>7. "tenant" \notin Errors(a) /\ "client" \notin Errors(a) /\ "secret" \notin Errors(a)
  BY <1>1, <1>2, Reported, Parsed
<1>8. "fake" \notin Errors(a)
  BY <1>2, Reported, Parsed DEF checkDevGuards
<1>. QED  BY <1>3, <1>4, <1>5, <1>6, <1>7, <1>8, Reported

\* Those can be kept by a developer.
LEMMA DevelopmentAccepted ==
    ASSUME NEW e, NEW a, NEW s \in {"namespace", "tenant", "client", "secret", "fake"},
           a[s] = e[s], ButFor(a, Development, s), s = "fake" => boolEnv(e.fake)
    PROVE  Errors(a) = {}
<1>1. /\ a.port = "unset" /\ a.base = "loopback" /\ a.inference = "unset"
      /\ a.models = <<"good">> /\ a.grafana = "unset" /\ a.mode = "memory"
      /\ a.keys = <<"good">>
      /\ (a.fake = e.fake /\ s = "fake") \/ a.fake = "true"
  <2>1. /\ Development.port = "unset" /\ Development.base = "loopback"
        /\ Development.inference = "unset" /\ Development.models = <<"good">>
        /\ Development.grafana = "unset" /\ Development.mode = "memory"
        /\ Development.keys = <<"good">> /\ Development.fake = "true"
    BY DEF Development, Production
  <2>2. {"port", "base", "inference", "models", "grafana", "mode", "keys", "fake"}
           \subseteq DOMAIN Development
    BY DEF Development, Production
  <2>. QED  BY <2>1, <2>2 DEF ButFor
<1>2. boolEnv(a.fake)
  BY <1>1 DEF boolEnv
<1>3. "port" \notin Errors(a) /\ "grafana" \notin Errors(a)
  BY <1>1, Reported
<1>4. "base" \notin Errors(a) /\ "inference" \notin Errors(a)
  BY <1>1, Reported, Parsed DEF parseBaseURL
<1>5. "models" \notin Errors(a) /\ "keys" \notin Errors(a)
  BY <1>1, Reported, Parsed, GoodLists
<1>6. "mode" \notin Errors(a) /\ "namespace" \notin Errors(a)
  BY <1>1, Reported, Parsed DEF keystoreMode
<1>7. "tenant" \notin Errors(a) /\ "client" \notin Errors(a) /\ "secret" \notin Errors(a)
  BY <1>2, Reported, Parsed
<1>8. "fake" \notin Errors(a)
  BY <1>1, Reported, Parsed DEF checkDevGuards, parseBaseURL, isLoopback, keystoreMode
<1>. QED  BY <1>3, <1>4, <1>5, <1>6, <1>7, <1>8, Reported

\* All environments together are a choice that ChoiceAssumption allows.
LEMMA AllAllowed ==
    ASSUME NEW b \in {Production, Development}, NEW e \in Environment, NEW s \in DOMAIN b
    PROVE  [b EXCEPT ![s] = e[s]] \in Environment
<1>1. /\ {"unset", "good"} \subseteq Checked /\ {"unset", "loopback", "public"} \subseteq Address
      /\ {"unset", "true"} \subseteq Switch
      /\ "good" \in Entry /\ "good" \in SessionKey /\ {} \in SUBSET BrandPart
  BY DEF Checked, Address, Switch, Entry, SessionKey
<1>2. <<"good">> \in Seq(Entry) /\ <<"good">> \in Seq(SessionKey)
  BY <1>1
<1>3. Production \in Environment
  BY <1>1, <1>2 DEF Production, Environment
<1>4. Development \in Environment
  <2>1. PICK d : d = [Production EXCEPT !.base = "loopback", !.mode = "memory",
                                         !.namespace = FALSE, !.catalog = FALSE]
    OBVIOUS
  <2>2. d \in Environment
    BY <1>1, <1>3, <2>1 DEF Environment
  <2>3. Development = [d EXCEPT !.tenant = "unset", !.client = FALSE, !.secret = FALSE,
                                !.fake = "true", !.assets = "good"]
    BY <2>1 DEF Development
  <2>4. [d EXCEPT !.tenant = "unset", !.client = FALSE, !.secret = FALSE,
                  !.fake = "true", !.assets = "good"] \in Environment
    BY <1>1, <2>2 DEF Environment
  <2>. QED  BY <2>3, <2>4
<1>5. PICK x \in Environment : x = b
  BY <1>3, <1>4
<1>. QED  BY <1>5 DEF Environment

\* A base with one of its settings replaced.
LEMMA Replaced ==
    ASSUME NEW b \in {Production, Development}, NEW e \in Env, NEW s \in DOMAIN b
    PROVE  \E a \in Env : a[s] = e[s] /\ ButFor(a, b, s)
<1>1. PICK a : a = [b EXCEPT ![s] = e[s]]
  OBVIOUS
<1>2. a \in Env
  BY <1>1, ChoiceAssumption
<1>3. a[s] = e[s] /\ \A t \in (DOMAIN b) \ {s} : a[t] = b[t]
  BY <1>1
<1>. QED  BY <1>2, <1>3 DEF ButFor

\* A setting that is not reported need not change.
LEMMA NotHopeless ==
    ASSUME NEW e \in Env, NEW s \in Setting, s \notin Errors(e)
    PROVE  \E a \in Accepted : a[s] = e[s]
<1>. DEFINE excused == \/ s = "namespace" /\ ~e.namespace
                       \/ s \in {"tenant", "client", "secret", "fake"} /\ boolEnv(e.fake)
<1>1. s \in DOMAIN Production /\ DOMAIN Production = DOMAIN Development
  BY EnvAssumption DEF Setting, Environment, Production, Development
<1>2. CASE excused
  <2>1. PICK a \in Env : a[s] = e[s] /\ ButFor(a, Development, s)
    BY <1>1, Replaced
  <2>2. Errors(a) = {}
    BY <1>2, <2>1, DevelopmentAccepted
  <2>. QED  BY <2>1, <2>2 DEF Accepted
<1>3. CASE ~excused
  <2>1. PICK a \in Env : a[s] = e[s] /\ ButFor(a, Production, s)
    BY <1>1, Replaced
  <2>2. Errors(a) = {}
    BY <1>1, <1>3, <2>1, ProductionAccepted
  <2>. QED  BY <2>1, <2>2 DEF Accepted
<1>. QED  BY <1>2, <1>3

\* The report is about the environment of the process: what Load found in it, or,
\* if that was nothing, its branding.
ReportInv == env \in Env /\ (report = {} \/ report = Errors(env) \/ Errors(env) = {})

LEMMA InitReport == Init => ReportInv
BY DEF Init, ReportInv

LEMMA StepReport == IInv /\ ReportInv /\ [Next]_vars => ReportInv'
<1> SUFFICES ASSUME IInv, ReportInv, [Next]_vars PROVE ReportInv'
  OBVIOUS
<1>1. CASE Load
  BY <1>1 DEF ReportInv, Load, Step, outside
<1>2. CASE ResolveBrand
  <2>1. Errors(env) = {}
    BY <1>2 DEF IInv, StageInv, HasLoaded, ResolveBrand, Step
  <2>. QED  BY <1>2, <2>1 DEF ReportInv, ResolveBrand, Step, outside
<1>3. CASE \/ NewSealer \/ BuildKeyStore \/ BuildCatalog \/ MakePhotos \/ FakeAuth \/ Discover
           \/ DiscoveryFails \/ NewApp \/ Listen \/ BecomeReady \/ Crash \/ PredecessorDies
           \/ \E c \in Context : UseContext(c)
  <2>1. UNCHANGED <<env, report>>
    BY <1>3 DEF NewSealer, BuildKeyStore, BuildCatalog, MakePhotos, FakeAuth, Discover,
       DiscoveryFails, NewApp, Listen, BecomeReady, Crash, PredecessorDies, UseContext,
       Step, outside
  <2>. QED  BY <2>1 DEF ReportInv
<1>4. CASE Restart
  BY <1>4 DEF ReportInv, Restart, NewProcess, outside
<1>5. ASSUME NEW choice \in Choices, Edit(choice[1], choice[2]) PROVE ReportInv'
  BY <1>5 DEF ReportInv, Edit, NewProcess
<1>6. CASE UNCHANGED vars
  BY <1>6 DEF ReportInv, vars, outside
<1>. QED  BY <1>1, <1>2, <1>3, <1>4, <1>5, <1>6 DEF Next, Start

\* A start that fails names every setting without whose change none succeeds
\* (config.go: "every problem it finds"), for any environments in which the
\* settings can be chosen one by one.
THEOREM SpecNamesTheHopeless == Spec => []NamesTheHopeless
<1>1. ReportInv => NamesTheHopeless
  <2> SUFFICES ASSUME ReportInv, report # {}, NEW s \in Setting,
                      \A e \in Accepted : e[s] # env[s]
               PROVE  s \in report
    BY DEF NamesTheHopeless
  <2>1. env \notin Accepted
    OBVIOUS
  <2>2. report = Errors(env)
    BY <2>1 DEF ReportInv, Accepted
  <2>. QED  BY <2>2, NotHopeless DEF ReportInv
<1>2. Spec => []ReportInv
  BY InitReport, StepReport, SpecIInv, PTL DEF Spec
<1>. QED  BY <1>1, <1>2, PTL
=============================================================================
