------------------------- MODULE ModelCatalogProofs -------------------------
(***************************************************************************)
(* The page of models never shows a false Ready, and a pod that is stopped *)
(* is through with reading headers and catalogs before the grace is over:  *)
(* for any number of requests and models, and any timeouts that fit into   *)
(* the grace.  What it cuts off has waited for the keystore, for Entra or  *)
(* for its browser.                                                        *)
(***************************************************************************)
EXTENDS ModelCatalog, TLAPS

USE TimeAssumption, ReplicasAssumption, NoneAssumption

\* deriveStatus has an answer for every engine, and Ready for those that serve.
LEMMA StatusSound ==
    ASSUME NEW d \in Deployment \cup {None}
    PROVE  /\ Status(d) \in Statuses
           /\ Status(d) = "ready" => Serving(d)
<1>1. CASE d = None \/ d.replicas = None
  BY <1>1 DEF Status, Statuses
<1>2. CASE d # None /\ d.replicas # None
  <2>1. d \in Deployment /\ d.replicas \in 0..MaxReplicas /\ d.ready \in 0..MaxReplicas
    BY <1>2 DEF Deployment
  <2>2. CASE d.replicas = 0
    BY <1>2, <2>1, <2>2 DEF Status, Statuses
  <2>3. CASE d.replicas # 0
    <3>1. d.replicas \in 1..MaxReplicas
      BY <2>1, <2>3
    <3>2. Status(d) = IF d.ready < d.replicas THEN "loading" ELSE "ready"
      BY <1>2, <3>1 DEF Status
    <3>. QED  BY <1>2, <2>1, <3>1, <3>2 DEF Statuses, Serving
  <2>. QED  BY <2>2, <2>3
<1>. QED  BY <1>1, <1>2

LEMMA InitIInv == Init => IInv
<1> SUFFICES ASSUME Init PROVE IInv
  OBVIOUS
<1>1. TypeOK
  BY DEF Init, TypeOK, Blank
<1>2. NeverFalseReady
  BY DEF Init, NeverFalseReady, Blank, Statuses
<1>3. PageInv
  BY DEF Init, PageInv
<1>4. ClockInv /\ OnlyStalledAreCut
  BY DEF Init, ClockInv, OnlyStalledAreCut, Reading
<1>. QED  BY <1>1, <1>2, <1>3, <1>4 DEF IInv

\* The cluster changes.
LEMMA StepScale ==
    ASSUME IInv, NEW s \in Service, Scale(s)
    PROVE  IInv'
<1> USE DEF IInv
<1>1. engine' \in [Service -> Deployment \cup {None}]
  BY DEF TypeOK, Scale
<1>2. Up(engine') \subseteq Service
  BY DEF Up
<1>3. TypeOK'
  <2>1. served' \in [Request -> SUBSET Service]
    BY <1>2 DEF TypeOK, Scale
  <2>. QED  BY <1>1, <2>1 DEF TypeOK, Scale, cluster, process
<1>4. /\ \A r \in Request : served[r] \subseteq served'[r]
      /\ \A r \in Request : stage[r] = "engines" => Up(engine') \subseteq served'[r]
  BY DEF Scale, TypeOK
<1>5. NeverFalseReady' /\ PageInv'
  BY <1>4 DEF Scale, NeverFalseReady, PageInv, Up
<1>6. ClockInv' /\ OnlyStalledAreCut'
  BY DEF Scale, process, ClockInv, OnlyStalledAreCut
<1>. QED  BY <1>3, <1>5, <1>6

LEMMA StepInstall ==
    ASSUME IInv, NEW s \in Service, Install(s)
    PROVE  IInv'
<1> USE DEF IInv, Install, requests, process
<1>1. TypeOK'
  BY DEF TypeOK
<1>2. NeverFalseReady' /\ PageInv'
  BY DEF NeverFalseReady, PageInv, Up
<1>3. ClockInv' /\ OnlyStalledAreCut'
  BY DEF ClockInv, OnlyStalledAreCut
<1>. QED  BY <1>1, <1>2, <1>3

\* A request begins, while the pod still takes requests.
LEMMA StepAccept ==
    ASSUME IInv, NEW r \in Request, pod # "gone", Accept(r)
    PROVE  IInv'
<1> USE DEF IInv, Accept, To, cluster, process
<1>1. TypeOK'
  BY DEF TypeOK
<1>2. NeverFalseReady' /\ PageInv'
  BY DEF TypeOK, NeverFalseReady, PageInv, Up
<1>3. drained = 0 /\ clock[r] = 0 /\ stage'[r] = "header"
  BY DEF TypeOK, ClockInv
<1>4. ClockInv' /\ OnlyStalledAreCut'
  BY <1>3 DEF TypeOK, ClockInv, Reading, OnlyStalledAreCut
<1>. QED  BY <1>1, <1>2, <1>4

\* Its handler begins: what the pod has drained went by while the header was read.
LEMMA StepBegin ==
    ASSUME IInv, NEW r \in Request, pod # "gone",
           NEW at \in {"services", "keystore", "entra", "writing"}, Begin(r, at)
    PROVE  IInv'
<1> USE DEF IInv, Begin, To, cluster, process
<1>1. TypeOK'
  BY DEF TypeOK
<1>2. NeverFalseReady' /\ PageInv'
  BY DEF TypeOK, NeverFalseReady, PageInv, Up
<1>3. drained <= HeaderTimeout
  BY DEF TypeOK, ClockInv
<1>4. ClockInv' /\ OnlyStalledAreCut'
  BY <1>3 DEF TypeOK, ClockInv, Reading, OnlyStalledAreCut
<1>. QED  BY <1>1, <1>2, <1>4

\* The first reading.
LEMMA StepServicesRead ==
    ASSUME IInv, NEW r \in Request, pod # "gone", ServicesRead(r)
    PROVE  IInv'
<1> USE DEF IInv, ServicesRead, To, cluster, process
<1>1. TypeOK'
  BY DEF TypeOK, Up
<1>2. page[r] = Blank
  BY DEF PageInv
<1>3. NeverFalseReady' /\ PageInv'
  BY <1>2 DEF TypeOK, NeverFalseReady, PageInv, Up, Blank, Statuses
<1>4. ClockInv' /\ OnlyStalledAreCut'
  BY DEF TypeOK, ClockInv, Reading, OnlyStalledAreCut
<1>. QED  BY <1>1, <1>3, <1>4

LEMMA StepServicesFailed ==
    ASSUME IInv, NEW r \in Request, pod # "gone", ServicesFailed(r)
    PROVE  IInv'
<1> USE DEF IInv, ServicesFailed, To, cluster, process
<1>1. TypeOK'
  BY DEF TypeOK
<1>2. NeverFalseReady' /\ PageInv'
  BY DEF TypeOK, NeverFalseReady, PageInv, Up
<1>3. ClockInv' /\ OnlyStalledAreCut'
  BY DEF TypeOK, ClockInv, Reading, OnlyStalledAreCut
<1>. QED  BY <1>1, <1>2, <1>3

\* The keystore or Entra answers.
LEMMA StepOutsideAnswered ==
    ASSUME IInv, NEW r \in Request, pod # "gone", OutsideAnswered(r)
    PROVE  IInv'
<1> USE DEF IInv, OutsideAnswered, Outside, To, cluster, process
<1>1. TypeOK'
  BY DEF TypeOK
<1>2. NeverFalseReady' /\ PageInv'
  BY DEF TypeOK, NeverFalseReady, PageInv, Up
<1>3. ClockInv' /\ OnlyStalledAreCut'
  BY DEF TypeOK, ClockInv, Reading, OnlyStalledAreCut
<1>. QED  BY <1>1, <1>2, <1>3

\* The second reading: the page says Ready of engines that serve now, and all
\* that serve now are in served.
LEMMA StepToModels ==
    ASSUME IInv, NEW r \in Request, pod # "gone", NEW e, e \in {engine, Blank}, ToModels(r, e)
    PROVE  IInv'
<1> DEFINE shown == [s \in Service |-> IF s \in found[r] THEN Status(e[s]) ELSE None]
<1> USE DEF IInv
<1>1. /\ stage[r] = "engines" /\ stage' = [stage EXCEPT ![r] = "answered"]
      /\ page' = [page EXCEPT ![r] = shown]
      /\ UNCHANGED <<services, engine, clock, found, served, pod, drained, cut>>
  BY DEF ToModels, To, cluster, process
<1>2. ASSUME NEW s \in Service
      PROVE  /\ shown[s] \in Statuses \cup {None}
             /\ shown[s] = "ready" => s \in found[r] \cap served[r]
  <2>1. e[s] \in Deployment \cup {None}
    BY DEF TypeOK, Blank
  <2>2. CASE s \in found[r]
    <3>1. shown[s] = Status(e[s])
      BY <2>2
    <3>2. Status(e[s]) = "ready" => Serving(e[s]) /\ e = engine
      <4>1. Status(None) = "unknown"
        BY DEF Status
      <4>. QED  BY <2>1, <4>1, StatusSound DEF Blank
    <3>3. Serving(engine[s]) => s \in served[r]
      BY <1>1 DEF PageInv, Up
    <3>. QED  BY <2>1, <2>2, <3>1, <3>2, <3>3, StatusSound
  <2>3. CASE s \notin found[r]
    BY <2>3 DEF Statuses
  <2>. QED  BY <2>2, <2>3
<1>3. shown \in [Service -> Statuses \cup {None}]
  BY <1>2
<1> HIDE DEF shown
<1>4. TypeOK'
  BY <1>1, <1>3 DEF TypeOK
<1>5. NeverFalseReady' /\ PageInv'
  BY <1>1, <1>2 DEF TypeOK, NeverFalseReady, PageInv, Up
<1>6. ClockInv' /\ OnlyStalledAreCut'
  BY <1>1 DEF TypeOK, ClockInv, Reading, OnlyStalledAreCut
<1>. QED  BY <1>4, <1>5, <1>6

\* A request ends, however it ends.
LEMMA StepEnd ==
    ASSUME IInv, NEW r \in Request, pod # "gone", End(r)
    PROVE  IInv'
<1> USE DEF IInv, End, To, cluster, process
<1>1. TypeOK'
  BY DEF TypeOK, Blank
<1>2. NeverFalseReady' /\ PageInv'
  BY DEF TypeOK, NeverFalseReady, PageInv, Up, Blank, Statuses
<1>4. ClockInv' /\ OnlyStalledAreCut'
  BY DEF TypeOK, ClockInv, Reading, OnlyStalledAreCut
<1>. QED  BY <1>1, <1>2, <1>4

LEMMA StepHandle ==
    ASSUME IInv, NEW r \in Request, pod # "gone", Handle(r)
    PROVE  IInv'
<1>1. CASE EnginesRead(r) \/ EnginesFailed(r)
  BY <1>1, StepToModels DEF EnginesRead, EnginesFailed
<1>2. CASE Written(r) \/ Abandoned(r)
  BY <1>2, StepEnd DEF Written, Abandoned
<1>3. CASE TimedOut(r)
  BY <1>3, <1>1, StepEnd, StepServicesFailed, StepToModels DEF TimedOut, EnginesFailed
<1>4. CASE List(r) \/ CallKeystore(r) \/ Complete(r) \/ OtherPage(r)
  BY <1>4, StepBegin DEF List, CallKeystore, Complete, OtherPage
<1>. QED  BY <1>1, <1>2, <1>3, <1>4, StepAccept, StepServicesRead, StepServicesFailed,
             StepOutsideAnswered DEF Handle

\* The pod is told to stop, or is gone.  When that is because the grace is over, no
\* request can still be in its header or its catalog: their timeouts would have come.
LEMMA StepProcess ==
    ASSUME IInv, Terminate \/ Drained \/ GraceOver
    PROVE  IInv'
<1> USE DEF IInv
<1>1. /\ UNCHANGED <<services, engine, stage, clock, found, page, served, drained>>
      /\ pod # "gone" /\ pod' \in {"draining", "gone"}
      /\ cut' \in SUBSET Request
      /\ pod' # "gone" => cut' = cut
  BY DEF Terminate, Drained, GraceOver, Busy, cluster, requests, TypeOK
<1>2. ASSUME NEW r \in cut'
      PROVE  stage[r] \in Outside \cup Writing /\ HeaderTimeout + clock[r] >= Grace
  <2>1. CASE GraceOver
    <3>1. r \in Request /\ stage[r] # "none" /\ clock[r] \in Nat /\ drained = Grace
      BY <1>2, <2>1 DEF GraceOver, Busy, TypeOK
    <3>2. stage[r] # "header"
      BY <3>1 DEF ClockInv
    <3>3. Grace <= HeaderTimeout + clock[r]
      BY <3>1, <3>2 DEF ClockInv
    <3>4. stage[r] \notin Reading
      BY <3>1, <3>3 DEF ClockInv
    <3>. QED  BY <3>1, <3>2, <3>3, <3>4 DEF TypeOK, Reading, Outside, Writing
  <2>2. CASE Terminate \/ Drained
    BY <1>2, <2>2 DEF Terminate, Drained, OnlyStalledAreCut
  <2>. QED  BY <2>1, <2>2
<1>3. TypeOK'
  BY <1>1 DEF TypeOK
<1>4. NeverFalseReady' /\ PageInv'
  BY <1>1 DEF NeverFalseReady, PageInv, Up
<1>5. ClockInv' /\ OnlyStalledAreCut'
  BY <1>1, <1>2 DEF ClockInv, OnlyStalledAreCut
<1>. QED  BY <1>3, <1>4, <1>5

\* A tick adds to each clock what it adds to the time drained.
LEMMA StepTick ==
    ASSUME IInv, Tick
    PROVE  IInv'
<1> USE DEF IInv
<1>1. UNCHANGED <<services, engine, stage, found, page, served, pod, cut>> /\ pod # "gone"
  BY DEF Tick, cluster
<1>2. TypeOK'
  BY <1>1 DEF TypeOK, Tick
<1>3. NeverFalseReady' /\ PageInv'
  BY <1>1 DEF NeverFalseReady, PageInv, Up
<1>4. /\ drained \in Nat /\ drained' \in Nat
      /\ drained' <= drained + 1 /\ drained' <= Grace
      /\ pod # "draining" => drained' = drained
  BY <1>2 DEF Tick, TypeOK
<1>5. Longest \in Nat /\ Grace <= Longest
  BY DEF Longest
<1>6. ASSUME NEW r \in Request
      PROVE  /\ stage[r] = "none" => clock'[r] = 0
             /\ stage[r] = "header" => drained' <= clock'[r] /\ clock'[r] <= HeaderTimeout
             /\ stage[r] \in Reading => clock'[r] <= ListTimeout
             /\ stage[r] \notin {"none", "header"} => drained' <= HeaderTimeout + clock'[r]
  <2>1. /\ clock[r] \in Nat /\ ~Due(r)
        /\ clock'[r] = IF Waits(r) THEN clock[r] + 1 ELSE clock[r]
    BY DEF Tick, TypeOK
  <2>2. CASE stage[r] = "none"
    BY <2>1, <2>2 DEF Waits, ClockInv, Reading
  <2>3. CASE stage[r] = "header"
    <3>1. clock[r] < HeaderTimeout /\ drained <= clock[r]
      BY <2>1, <2>3 DEF Due, ClockInv
    <3>2. clock'[r] = clock[r] + 1
      BY <2>1, <2>3, <3>1, <1>5 DEF Waits
    <3>. QED  BY <2>1, <2>3, <3>1, <3>2, <1>4 DEF Reading
  <2>4. CASE stage[r] \notin {"none", "header"}
    <3>1. drained <= HeaderTimeout + clock[r]
      BY <2>4 DEF ClockInv
    <3>2. drained' <= HeaderTimeout + clock'[r]
      <4>1. CASE clock[r] < Longest
        BY <2>1, <2>4, <3>1, <4>1, <1>4 DEF Waits
      <4>2. CASE ~(clock[r] < Longest)
        BY <2>1, <4>2, <1>4, <1>5 DEF Waits
      <4>. QED  BY <4>1, <4>2
    <3>3. stage[r] \in Reading => clock'[r] <= ListTimeout
      <4>1. stage[r] \in Reading => clock[r] < ListTimeout
        BY <2>1 DEF Due, ClockInv
      <4>. QED  BY <2>1, <4>1
    <3>. QED  BY <2>4, <3>2, <3>3
  <2>. QED  BY <2>2, <2>3, <2>4
<1>7. ClockInv' /\ OnlyStalledAreCut'
  BY <1>1, <1>4, <1>6 DEF ClockInv, OnlyStalledAreCut
<1>. QED  BY <1>1, <1>2, <1>3, <1>7

LEMMA StepStutter ==
    ASSUME IInv, UNCHANGED vars
    PROVE  IInv'
<1> USE DEF IInv, vars, cluster, requests, process
<1>1. TypeOK'
  BY DEF TypeOK
<1>2. NeverFalseReady' /\ PageInv'
  BY DEF NeverFalseReady, PageInv, Up
<1>3. ClockInv' /\ OnlyStalledAreCut'
  BY DEF ClockInv, OnlyStalledAreCut
<1>. QED  BY <1>1, <1>2, <1>3

\* IInv is an invariant of the specification.
THEOREM Inductive == Spec => []IInv
<1>1. IInv /\ [Next]_vars => IInv'
  BY StepScale, StepInstall, StepHandle, StepProcess, StepTick, StepStutter DEF Next
<1>. QED  BY InitIInv, <1>1, PTL DEF Spec

\* A page never says Ready of a model that was not being served while its
\* engine was asked for.
THEOREM AlwaysHonest == Spec => []NeverFalseReady
<1>1. IInv => NeverFalseReady
  BY DEF IInv
<1>. QED  BY Inductive, <1>1, PTL

\* Whatever the API server and the browsers do, a stopped pod is through with
\* reading headers and catalogs within their timeouts,
THEOREM AlwaysDrains == Spec => []DrainsInTime
<1>1. IInv => DrainsInTime
  <2> SUFFICES ASSUME IInv, NEW r \in Request, stage[r] \in Reading \cup {"header"}
               PROVE  drained <= HeaderTimeout + ListTimeout
    BY DEF DrainsInTime, IInv, TypeOK
  <2>1. drained \in Nat /\ clock[r] \in Nat
    BY DEF IInv, TypeOK
  <2>2. CASE stage[r] = "header"
    BY <2>1, <2>2 DEF IInv, ClockInv
  <2>3. CASE stage[r] \in Reading
    BY <2>1, <2>3 DEF IInv, ClockInv, Reading
  <2>. QED  BY <2>2, <2>3
<1>. QED  BY Inductive, <1>1, PTL

\* ... and cuts off only what has been waiting for somebody without a timeout, or for
\* its browser, as long as the grace lasts (main.go 349).
THEOREM CutsOffTheStalled == Spec => []OnlyStalledAreCut
<1>1. IInv => OnlyStalledAreCut
  BY DEF IInv
<1>. QED  BY Inductive, <1>1, PTL
=============================================================================
