---------------------------- MODULE ModelCatalog ----------------------------
(***************************************************************************)
(* internal/models, the page that shows the models, and serve() in         *)
(* cmd/ai-account: a pod reads the catalog from the cluster for each       *)
(* request under a timeout, and drains its requests when it is stopped.    *)
(*                                                                         *)
(* The catalog is two readings, of the LLMInferenceServices and then of    *)
(* the engine Deployments, while the cluster changes.  The API server      *)
(* answers, refuses, or never answers.  Other requests call the keystore,  *)
(* or Entra when a sign-in completes, without a timeout, or nobody.  What  *)
(* is answered has yet to be taken by the browser.  Time is counted in     *)
(* ticks; no tick passes while a timeout is due.                           *)
(***************************************************************************)
EXTENDS Naturals

CONSTANTS
    Service,        \* LLMInferenceServices that match the selector, by name
    Request,        \* the requests one pod can serve at a time
    MaxReplicas,    \* bound: replicas of an engine
    HeaderTimeout,  \* readHeaderTimeout, in ticks
    ListTimeout,    \* listTimeout, in ticks
    WriteTimeout,   \* writeTimeout, in ticks, from the end of the header
    Grace,          \* shutdownGrace, in ticks
    None            \* no Deployment, no number of replicas, no page

ASSUME TimeAssumption ==
    /\ HeaderTimeout \in Nat /\ ListTimeout \in Nat /\ WriteTimeout \in Nat /\ Grace \in Nat
    /\ HeaderTimeout + ListTimeout < Grace
ASSUME ReplicasAssumption == MaxReplicas \in Nat

\* What deriveStatus answers.
Statuses == {"unknown", "scaled-to-zero", "loading", "ready"}

ASSUME NoneAssumption == None \notin Nat \cup Statuses

VARIABLES
    services,   \* the LLMInferenceServices there are
    engine,     \* per service: its engine Deployment, or None
    stage,      \* per request: where it is
    clock,      \* per request: ticks since its connection, then since its handler began
    found,      \* per request: the services of the first reading
    page,       \* per request: the status it shows of each service, or None
    served,     \* history, per request: services that were being served at some
                \* moment since the second reading was asked for
    pod,        \* "serving", "draining" or "gone"
    drained,    \* ticks since SIGTERM
    cut         \* history: requests that were under way when the pod went

cluster == <<services, engine>>
requests == <<stage, clock, found, page, served>>
process == <<pod, drained, cut>>
vars == <<cluster, requests, process>>

\* What is read of a Deployment: spec.replicas and status.readyReplicas.
Deployment == [replicas : 0..MaxReplicas \cup {None}, ready : 0..MaxReplicas]
Reading == {"services", "engines"}
Outside == {"keystore", "entra"}
Writing == {"answered", "writing"}
Blank == [s \in Service |-> None]

Init ==
    /\ services \in SUBSET Service
    /\ engine \in [Service -> Deployment \cup {None}]
    /\ stage = [r \in Request |-> "none"]
    /\ clock = [r \in Request |-> 0]
    /\ found = [r \in Request |-> {}]
    /\ page = [r \in Request |-> Blank]
    /\ served = [r \in Request |-> {}]
    /\ pod = "serving" /\ drained = 0 /\ cut = {}

-----------------------------------------------------------------------------
\* Somebody can be answered by the engine d at once.
Serving(d) == d # None /\ d.replicas \in 1..MaxReplicas /\ d.ready >= d.replicas

Up(e) == {s \in Service : Serving(e[s])}

\* KServe, the autoscaler and the kubelets change the engine of s.
Scale(s) ==
    /\ \E d \in Deployment \cup {None} : engine' = [engine EXCEPT ![s] = d]
    /\ served' = [r \in Request |->
           IF stage[r] = "engines" THEN served[r] \cup Up(engine') ELSE served[r]]
    /\ UNCHANGED <<services, stage, clock, found, page, process>>

\* A model is installed or removed; its engine follows on its own.
Install(s) ==
    /\ services' = IF s \in services THEN services \ {s} ELSE services \cup {s}
    /\ UNCHANGED <<engine, requests, process>>
-----------------------------------------------------------------------------
\* A plausible bug: an idle model counts as ready, with all of its replicas.
StatusIgnoresZero(d) ==
    IF d = None \/ d.replicas = None THEN "unknown"
    ELSE IF d.ready < d.replicas THEN "loading" ELSE "ready"

\* deriveStatus: from the engine's replicas, never the service's own condition.
Status(d) ==
    CASE d = None \/ d.replicas = None -> "unknown"
      [] d # None /\ d.replicas = 0 -> "scaled-to-zero"
      [] d # None /\ d.replicas \in 1..MaxReplicas ->
           IF d.ready < d.replicas THEN "loading" ELSE "ready"

To(r, at) == stage' = [stage EXCEPT ![r] = at]

\* The request is over.
End(r) ==
    /\ To(r, "none")
    /\ clock' = [clock EXCEPT ![r] = 0]
    /\ found' = [found EXCEPT ![r] = {}]
    /\ page' = [page EXCEPT ![r] = Blank]
    /\ served' = [served EXCEPT ![r] = {}]
    /\ UNCHANGED <<cluster, process>>

\* A plausible bug: the listener stays open while the pod drains.
AcceptWhileDraining(r) ==
    /\ pod # "gone" /\ stage[r] = "none"
    /\ To(r, "header")
    /\ UNCHANGED <<cluster, clock, found, page, served, process>>

\* A connection whose request is being read.
Accept(r) ==
    /\ pod = "serving" /\ stage[r] = "none"
    /\ To(r, "header")
    /\ UNCHANGED <<cluster, clock, found, page, served, process>>

\* The header is there, and the handler of its route begins.
Begin(r, at) ==
    /\ stage[r] = "header"
    /\ To(r, at)
    /\ clock' = [clock EXCEPT ![r] = 0]
    /\ UNCHANGED <<cluster, found, page, served, process>>

\* handleModels: List starts its timeout.
List(r) == Begin(r, "services")

\* A handler that reads a form, if there is one, and calls the keystore.
CallKeystore(r) == Begin(r, "keystore")

\* Complete redeems the code, and has the photo fetched.
Complete(r) == Begin(r, "entra")

\* A handler that calls nobody: static files, photos, the other pages.
OtherPage(r) == Begin(r, "writing")

\* A plausible bug: each of the two readings has a timeout of its own.
ServicesReadRestarts(r) ==
    /\ stage[r] = "services"
    /\ To(r, "engines")
    /\ found' = [found EXCEPT ![r] = services]
    /\ served' = [served EXCEPT ![r] = Up(engine)]
    /\ clock' = [clock EXCEPT ![r] = 0]
    /\ UNCHANGED <<cluster, page, process>>

ServicesRead(r) ==
    /\ stage[r] = "services"
    /\ To(r, "engines")
    /\ found' = [found EXCEPT ![r] = services]
    /\ served' = [served EXCEPT ![r] = Up(engine)]
    /\ UNCHANGED <<cluster, clock, page, process>>

\* No list of services: 503.
ServicesFailed(r) ==
    /\ stage[r] = "services"
    /\ To(r, "writing")
    /\ UNCHANGED <<cluster, clock, found, page, served, process>>

\* toModel of every service, given the engines; Blank when they are not known.
ToModels(r, engines) ==
    /\ stage[r] = "engines"
    /\ To(r, "answered")
    /\ page' = [page EXCEPT ![r] =
           [s \in Service |-> IF s \in found[r] THEN Status(engines[s]) ELSE None]]
    /\ UNCHANGED <<cluster, clock, found, served, process>>

EnginesRead(r) == ToModels(r, engine)

\* The page is shown all the same, with nothing known of any model.
EnginesFailed(r) == ToModels(r, Blank)

\* The keystore has answered, or Entra and Graph have, and so does the handler.
OutsideAnswered(r) ==
    /\ stage[r] \in Outside
    /\ To(r, "writing")
    /\ UNCHANGED <<cluster, clock, found, page, served, process>>

\* The answer is written.
Written(r) == stage[r] \in Writing /\ End(r)

\* The browser goes away; the request's context is cancelled.
Abandoned(r) == stage[r] \in Reading \cup Outside \cup {"header"} /\ End(r)

-----------------------------------------------------------------------------
\* A plausible bug: only the first reading is under the timeout.
DueFirst(r) ==
    \/ stage[r] = "header" /\ clock[r] = HeaderTimeout
    \/ stage[r] = "services" /\ clock[r] = ListTimeout
    \/ stage[r] \in Writing /\ clock[r] >= WriteTimeout

\* A timeout of the request has come.  Both readings share one; that of writing
\* began with the handler, and may have come before there is an answer.
Due(r) ==
    \/ stage[r] = "header" /\ clock[r] = HeaderTimeout
    \/ stage[r] \in Reading /\ clock[r] = ListTimeout
    \/ stage[r] \in Writing /\ clock[r] >= WriteTimeout

\* What then happens: the connection is closed, or the reading fails.
TimedOut(r) ==
    /\ Due(r)
    /\ \/ stage[r] \in Writing \cup {"header"} /\ End(r)
       \/ ServicesFailed(r) \/ EnginesFailed(r)

Busy == {r \in Request : stage[r] # "none"}

\* SIGTERM.
Terminate ==
    /\ pod = "serving" /\ pod' = "draining"
    /\ UNCHANGED <<cluster, requests, drained, cut>>

\* Shutdown returns when the requests have ended, ...
Drained ==
    /\ pod = "draining" /\ Busy = {}
    /\ pod' = "gone"
    /\ UNCHANGED <<cluster, requests, drained, cut>>

\* A plausible bug: Close where Shutdown would wait.
GraceOverAtOnce ==
    /\ pod = "draining"
    /\ pod' = "gone" /\ cut' = Busy
    /\ UNCHANGED <<cluster, requests, drained>>

\* ... or when the grace is over: what is still under way is cut off.
GraceOver ==
    /\ pod = "draining" /\ drained = Grace
    /\ pod' = "gone" /\ cut' = Busy
    /\ UNCHANGED <<cluster, requests, drained>>

\* No clock is looked at once it is past every timeout: bound of the clocks.
Longest == IF Grace < WriteTimeout THEN WriteTimeout ELSE Grace

\* A tick passes for every request and for a pod that drains.  What is due comes
\* first.
Waits(r) == stage[r] # "none" /\ clock[r] < Longest
Tick ==
    /\ pod # "gone"
    /\ \A r \in Request : ~Due(r)
    /\ pod = "draining" => Busy # {} /\ drained < Grace
    /\ clock' = [r \in Request |-> IF Waits(r) THEN clock[r] + 1 ELSE clock[r]]
    /\ drained' = IF pod = "draining" THEN drained + 1 ELSE drained
    /\ UNCHANGED <<cluster, stage, found, page, served, pod, cut>>

Handle(r) ==
    \/ Accept(r) \/ List(r) \/ CallKeystore(r) \/ Complete(r) \/ OtherPage(r)
    \/ ServicesRead(r) \/ ServicesFailed(r) \/ EnginesRead(r) \/ EnginesFailed(r)
    \/ OutsideAnswered(r) \/ Written(r) \/ Abandoned(r) \/ TimedOut(r)

Next ==
    \/ \E s \in Service : Scale(s) \/ Install(s)
    \/ pod # "gone" /\ \E r \in Request : Handle(r)
    \/ Terminate \/ Drained \/ GraceOver \/ Tick

\* Nothing is assumed of the API server, the cluster, Entra or the browser: timeouts
\* fire and time goes on.
Fairness ==
    /\ WF_vars(Tick)
    /\ WF_vars(Drained) /\ WF_vars(GraceOver)
    /\ \A r \in Request : WF_vars(pod # "gone" /\ TimedOut(r))

Spec == Init /\ [][Next]_vars
FairSpec == Spec /\ Fairness

-----------------------------------------------------------------------------
(* Properties.                                                             *)

TypeOK ==
    /\ services \in SUBSET Service
    /\ engine \in [Service -> Deployment \cup {None}]
    /\ stage \in [Request -> {"none", "header", "services", "engines", "answered", "writing",
                          "keystore", "entra"}]
    /\ clock \in [Request -> Nat]
    /\ found \in [Request -> SUBSET Service]
    /\ page \in [Request -> [Service -> Statuses \cup {None}]]
    /\ served \in [Request -> SUBSET Service]
    /\ pod \in {"serving", "draining", "gone"}
    /\ drained \in 0..Grace
    /\ cut \in SUBSET Request

\* A page that says Ready says so of a model that was being served at some
\* moment since its engine was asked for, however the cluster changed between
\* the two readings and whichever of them failed.
NeverFalseReady ==
    \A r \in Request, s \in Service :
      page[r][s] = "ready" => s \in found[r] \cap served[r]

\* A stopped pod is through with reading headers and catalogs well within the grace:
\* as soon as it can take to read both at their slowest.
DrainsInTime ==
    drained > HeaderTimeout + ListTimeout =>
      \A r \in Request : stage[r] \notin Reading \cup {"header"}

\* main.go: "draining first avoids cutting off an in-flight key creation".  What is
\* cut off all the same waits for somebody else, the API server, Entra or a browser
\* that does not take its answer, and its handler has had the grace but for the time
\* its header may have taken.
OnlyStalledAreCut ==
    \A r \in cut : stage[r] \in Outside \cup Writing /\ HeaderTimeout + clock[r] >= Grace

\* What is shown was found, and what is being asked for is watched.
PageInv ==
    \A r \in Request :
      /\ stage[r] # "answered" => page[r] = Blank
      /\ stage[r] = "engines" => Up(engine) \subseteq served[r]

\* No clock has run past its timeout, and a pod drains no longer than each of its
\* requests has taken.
ClockInv ==
    /\ \A r \in Request :
         /\ stage[r] = "none" => clock[r] = 0
         /\ stage[r] = "header" => drained <= clock[r] /\ clock[r] <= HeaderTimeout
         /\ stage[r] \in Reading => clock[r] <= ListTimeout
         /\ stage[r] \notin {"none", "header"} => drained <= HeaderTimeout + clock[r]
    /\ pod = "serving" => drained = 0
    /\ pod # "gone" => cut = {}

\* The inductive invariant.
IInv == TypeOK /\ NeverFalseReady /\ OnlyStalledAreCut /\ PageInv /\ ClockInv

\* A page of models ends, with or without an answer of the API server, and whether
\* or not the browser takes it, unless the grace ends first.
ListEnds == \A r \in Request : stage[r] \in Reading ~> stage[r] = "none" \/ r \in cut
=============================================================================
