---------------------------- MODULE PortalProofs ----------------------------
(***************************************************************************)
(* What the pages say stays true, for any people, keys and tabs, over any  *)
(* keystore that implements KeyStore.                                      *)
(*                                                                         *)
(* The argument: a key that nothing under way can still write for the      *)
(* first time (Settled) only ever loses its owner, and only after that     *)
(* owner asked for it.  So a key that is gone stays gone (Gone), and one   *)
(* that was shown stays until its owner asks (Kept).  The rest says which  *)
(* of these facts each request, reply, answer and cookie stands for.       *)
(***************************************************************************)
EXTENDS Portal, TLAPS

USE NoneAssumption, SignedOutAssumption

\* Nothing under way can still write k for the first time.
Settled(k) ==
    /\ k \in issued
    /\ \A c \in Tab : phase[c] = "open" /\ req[c].op = "create" => req[c].key # k
    /\ \A e \in late : e.kind = "put" => e.key # k

\* k is gone for good.
Gone(k) == Settled(k) /\ live[k] = None

\* p has k, or asked to revoke it (or it was wiped).
Kept(p, k) == Settled(k) /\ (live[k] = p \/ <<p, k>> \in asked)

\* p may remove k.
Removable(p, k) == Settled(k) /\ live[k] \in {p, None} /\ <<p, k>> \in asked

-----------------------------------------------------------------------------
\* Nobody but the pages that call nobody is open to who is not signed in.
Requests ==
    {r \in [at : {"sent", "called", "answered"}, route : Route, key : Key \cup {None},
            as : Person \cup {None}, flash : Message \cup {None},
            owed : SUBSET Key, gone : SUBSET Key, again : BOOLEAN] :
       r.route # "page" => r.as \in Person}

TypeOK ==
    /\ live \in [Key -> Person \cup {None}]
    /\ issued \in SUBSET Key
    /\ phase \in [Tab -> {"idle", "open", "authorised", "done"}]
    /\ req \in [Tab -> [op : Store!Op \cup {"none"}, owner : Person \cup {None},
                        key : Key \cup {None}]]
    /\ reply \in [Tab -> [kind : {"none", "ok", "notfound", "invalid", "error"},
                          keys : SUBSET Key]]
    /\ late \in SUBSET [kind : {"put", "remove"}, key : Key, owner : Person]
    /\ session \in Person \cup {None} /\ flash \in Message \cup {None}
    /\ request \in [Tab -> {Idle} \cup Requests]
    /\ answer \in [Tab -> [shows : Route \cup {"none", "ok", "notfound", "invalid", "error"},
                           keys : SUBSET Key, says : Message \cup {None}]]
    /\ created \in SUBSET (Person \X Key) /\ asked \in SUBSET (Person \X Key)
    /\ gone \in SUBSET Key

\* Each key is written for the first time by one call, or one late write.
DrawnInv ==
    /\ \A k \in Key : live[k] # None => Settled(k)
    /\ \A c \in Tab : phase[c] = "open" /\ req[c].op = "create" =>
         /\ req[c].key \in issued
         /\ \A d \in Tab : phase[d] = "open" /\ req[d].op = "create" /\ req[d].key = req[c].key => d = c
         /\ \A e \in late : e.kind = "put" => e.key # req[c].key
    /\ \A e \in late : e.kind = "put" =>
         /\ e.key \in issued
         /\ \A f \in late : f.kind = "put" /\ f.key = e.key => f = e

\* A call under way is somebody's; a revoke removes what its caller asked to have removed.
CallInv ==
    /\ \A c \in Tab : phase[c] # "idle" =>
         /\ req[c].op \in Store!Op /\ req[c].owner \in Person
         /\ req[c].op # "list" => req[c].key \in Key
    /\ \A c \in Tab : phase[c] # "idle" /\ req[c].op = "revoke" =>
         <<req[c].owner, req[c].key>> \in asked
    /\ \A c \in Tab : phase[c] = "authorised" =>
         req[c].op = "revoke" /\ Removable(req[c].owner, req[c].key)
    /\ \A e \in late : e.kind = "remove" => Removable(e.owner, e.key)

\* What a reply of the store says stays true.
ReplyInv ==
    \A c \in Tab : phase[c] = "done" /\ reply[c].kind = "ok" =>
      /\ req[c].op = "revoke" => Gone(req[c].key)
      /\ req[c].op = "create" => Kept(req[c].owner, req[c].key)

\* What a tab still has to be shown.
StillOwed(t) == request[t].owed \cap Owed(request[t].as)

\* A request and the call it makes; what it knew when it was sent stays true.
RequestInv ==
    \A t \in Tab :
      /\ request[t].at = "sent" => phase[t] = "idle"
      /\ request[t].at = "called" =>
           /\ phase[t] # "idle" /\ request[t].route \in Calling
           /\ req[t].op = Op[request[t].route] /\ req[t].owner = request[t].as
           /\ request[t].route \in {"confirm", "revoke"} => req[t].key = request[t].key
      /\ request[t].at = "answered" => phase[t] = "idle"
      /\ request[t].at # "none" =>
           /\ request[t].again = FALSE
           /\ request[t].route = "revoke" => <<request[t].as, request[t].key>> \in asked
           /\ request[t].route \in {"confirm", "revoke"} => request[t].key \in Key
           /\ \A k \in request[t].owed : <<request[t].as, k>> \in created
           /\ \A k \in request[t].gone : Gone(k)
           /\ request[t].flash \in Key => Gone(request[t].flash)

\* The reply to the call of a request still waiting for it.
FitInv ==
    \A t \in Tab : request[t].at = "called" /\ phase[t] = "done" =>
      /\ reply[t].kind = "ok" /\ request[t].route = "account" =>
           StillOwed(t) \subseteq reply[t].keys /\ reply[t].keys \cap request[t].gone = {}
      /\ reply[t].kind = "ok" /\ request[t].route = "confirm" =>
           request[t].key \notin request[t].gone
      /\ reply[t].kind = "notfound" => request[t].key \notin StillOwed(t)

\* An answer on its way to the tab.
AnswerInv ==
    \A t \in Tab :
      /\ request[t].at # "answered" => answer[t] = NoAnswer
      /\ answer[t].says \in Key => Gone(answer[t].says)
      /\ answer[t].says # None => answer[t].says = request[t].flash /\ answer[t].shows \notin {"revoke", "logout"}
      /\ request[t].at = "answered" =>
           /\ answer[t].shows = "account" => StillOwed(t) \subseteq answer[t].keys
           /\ answer[t].shows = "notfound" => request[t].key \notin StillOwed(t)
           /\ answer[t].shows \in {"account", "confirm"} =>
                answer[t].keys \cap request[t].gone = {}
           /\ answer[t].shows = "revoke" =>
                Gone(request[t].key) /\ answer[t].keys = {request[t].key}
           /\ answer[t].shows = "create" =>
                request[t].as \in Person /\ \A k \in answer[t].keys : Kept(request[t].as, k)

\* What has been said so far.
SeenInv ==
    /\ \A x \in created : Kept(x[1], x[2])
    /\ \A k \in gone : Gone(k)
    /\ flash \in Key => Gone(flash)
    /\ shown = FALSE

IInv == TypeOK /\ DrawnInv /\ CallInv /\ ReplyInv /\ RequestInv /\ FitInv /\ AnswerInv /\ SeenInv

-----------------------------------------------------------------------------
(* What a step may do to the keys.                                         *)

\* A settled key stays settled, and loses its owner only after they asked.
Steady ==
    /\ asked \subseteq asked'
    /\ \A k \in Key : Settled(k) =>
         /\ Settled(k)'
         /\ live'[k] \in {live[k], None}
         /\ live[k] # None /\ live'[k] = None => <<live[k], k>> \in asked'

\* Nothing is written, and nothing new is about to be.
Quiet ==
    /\ live' = live /\ issued' = issued
    /\ late' \subseteq late /\ asked \subseteq asked'
    /\ \A c \in Tab : phase'[c] = "open" /\ req'[c].op = "create" =>
         phase[c] = "open" /\ req[c].op = "create" /\ req'[c].key = req[c].key

LEMMA QuietSteady == Quiet => Steady
BY DEF Quiet, Steady, Settled

LEMMA QuietDrawn == DrawnInv /\ Quiet => DrawnInv'
<1> SUFFICES ASSUME DrawnInv, Quiet PROVE DrawnInv'
  OBVIOUS
<1>1. \A k \in Key : live'[k] # None => Settled(k)'
  BY QuietSteady DEF DrawnInv, Quiet, Steady
<1>2. ASSUME NEW c \in Tab, phase'[c] = "open", req'[c].op = "create"
      PROVE  /\ req'[c].key \in issued'
             /\ \A d \in Tab : phase'[d] = "open" /\ req'[d].op = "create" /\ req'[d].key = req'[c].key => d = c
             /\ \A e \in late' : e.kind = "put" => e.key # req'[c].key
  BY <1>2 DEF DrawnInv, Quiet
<1>3. ASSUME NEW e \in late', e.kind = "put"
      PROVE  /\ e.key \in issued'
             /\ \A f \in late' : f.kind = "put" /\ f.key = e.key => f = e
  BY <1>3 DEF DrawnInv, Quiet
<1>. QED  BY <1>1, <1>2, <1>3 DEF DrawnInv

LEMMA GoneStable == ASSUME Steady, NEW k \in Key, Gone(k) PROVE Gone(k)'
BY DEF Steady, Gone

LEMMA KeptStable ==
    ASSUME Steady, NEW p \in Person, NEW k \in Key, Kept(p, k)
    PROVE  Kept(p, k)'
BY DEF Steady, Kept

LEMMA RemovableStable ==
    ASSUME Steady, NEW p \in Person, NEW k \in Key, Removable(p, k)
    PROVE  Removable(p, k)'
BY DEF Steady, Removable

\* A call that is answered, authorised or returned from writes nothing.
LEMMA AnswersAreQuiet ==
    ASSUME TypeOK, NEW t \in Tab, asked' = asked,
           \/ Store!List(t) \/ Store!Get(t) \/ Store!Missing(t)
           \/ Store!Authorise(t) \/ Store!RevokeTooLate(t) \/ Store!Return(t)
    PROVE  Quiet
<1>1. CASE Store!Return(t)
  BY <1>1 DEF TypeOK, Quiet, Store!Return, Store!NoRequest
<1>2. CASE \/ Store!List(t) \/ Store!Get(t) \/ Store!Missing(t)
           \/ Store!Authorise(t) \/ Store!RevokeTooLate(t)
  <2>1. /\ UNCHANGED <<live, issued, req, late>>
        /\ phase' \in {[phase EXCEPT ![t] = "done"], [phase EXCEPT ![t] = "authorised"]}
    BY <1>2 DEF Store!List, Store!Get, Store!Missing, Store!Authorise, Store!RevokeTooLate,
                Store!Finish
  <2>. QED  BY <2>1 DEF TypeOK, Quiet
<1>. QED  BY <1>1, <1>2

LEMMA StandstillIsQuiet == asked \subseteq asked' /\ UNCHANGED storeVars => Quiet
BY DEF Quiet, storeVars

LEMMA BeginSteady ==
    ASSUME IInv, NEW t \in Tab, NEW op \in Store!Op, NEW p \in Person,
           NEW k \in Key \cup {None}, Store!Begin(t, op, p, k), UNCHANGED asked
    PROVE  Steady /\ DrawnInv'
<1>1. phase' = [phase EXCEPT ![t] = "open"]
  BY DEF Store!Begin
<1>2. req' = [req EXCEPT ![t] = [op |-> op, owner |-> p, key |-> k]]
  BY DEF Store!Begin
<1>3. live' = live /\ late' = late /\ phase[t] = "idle"
  BY DEF Store!Begin
<1>4. CASE op = "create"
  <2>1. k \in Key /\ k \notin issued /\ live[k] = None /\ issued' = issued \cup {k}
    BY <1>4 DEF Store!Begin
  <2>2. \A c \in Tab : phase'[c] = "open" /\ req'[c].op = "create" =>
          IF c = t THEN req'[c].key = k
          ELSE phase[c] = "open" /\ req[c].op = "create" /\ req'[c].key = req[c].key
    BY <1>1, <1>2 DEF IInv, TypeOK
  <2>3. \A c \in Tab : phase[c] = "open" /\ req[c].op = "create" => req[c].key # k
    BY <2>1 DEF IInv, DrawnInv
  <2>4. \A e \in late : e.kind = "put" => e.key # k
    BY <2>1 DEF IInv, DrawnInv
  <2>5. \A i \in Key : Settled(i) => Settled(i)'
    BY <1>3, <2>1, <2>2 DEF Settled
  <2>6. Steady
    BY <1>3, <2>5 DEF Steady
  <2>7. \A i \in Key : live'[i] # None => Settled(i)'
    BY <1>3, <2>5 DEF IInv, DrawnInv
  <2>8. DrawnInv'
    BY <1>3, <2>1, <2>2, <2>3, <2>4, <2>7 DEF IInv, DrawnInv
  <2>. QED  BY <2>6, <2>8
<1>5. CASE op # "create"
  <2>1. Quiet
    BY <1>1, <1>2, <1>3, <1>5 DEF IInv, TypeOK, Quiet, Store!Begin
  <2>. QED  BY <2>1, QuietSteady, QuietDrawn DEF IInv
<1>. QED  BY <1>4, <1>5

LEMMA CreateSteady ==
    ASSUME IInv, NEW t \in Tab, Store!Create(t), UNCHANGED asked
    PROVE  Steady /\ DrawnInv' /\ Kept(req[t].owner, req[t].key)'
<1> DEFINE k == req[t].key
<1>1. /\ phase[t] = "open" /\ req[t].op = "create" /\ k \in Key /\ req[t].owner \in Person
      /\ live' = [live EXCEPT ![k] = req[t].owner] /\ late' = late /\ issued' = issued
      /\ req' = req /\ phase' = [phase EXCEPT ![t] = "done"]
  BY DEF Store!Create, Store!Finish, IInv, CallInv
<1>2. \A c \in Tab : phase'[c] = "open" /\ req'[c].op = "create" =>
        phase[c] = "open" /\ req[c].op = "create" /\ req[c].key # k
  BY <1>1 DEF IInv, TypeOK, DrawnInv
<1>3. \A i \in Key : Settled(i) => Settled(i)' /\ i # k
  BY <1>1, <1>2 DEF Settled
<1>4. Settled(k)'
  BY <1>1, <1>2 DEF Settled, IInv, DrawnInv
<1>5. Steady
  BY <1>1, <1>3 DEF Steady, IInv, TypeOK
<1>6. \A i \in Key : live'[i] # None => Settled(i)'
  BY <1>1, <1>3, <1>4 DEF IInv, TypeOK, DrawnInv
<1>7. DrawnInv'
  BY <1>1, <1>2, <1>6 DEF IInv, DrawnInv
<1>8. live'[k] = req'[t].owner
  BY <1>1 DEF IInv, TypeOK
<1>. QED  BY <1>1, <1>4, <1>5, <1>7, <1>8 DEF Kept

LEMMA RevokeSteady ==
    ASSUME IInv, NEW t \in Tab, Store!Revoke(t), UNCHANGED asked
    PROVE  Steady /\ DrawnInv' /\ Gone(req[t].key)'
<1> DEFINE k == req[t].key
<1>1. /\ req[t].op = "revoke" /\ k \in Key /\ req[t].owner \in Person
      /\ live' = [live EXCEPT ![k] = None] /\ late' = late /\ issued' = issued
      /\ req' = req /\ phase' = [phase EXCEPT ![t] = "done"]
      /\ <<req[t].owner, k>> \in asked
  BY DEF Store!Revoke, Store!Finish, IInv, CallInv
<1>2. Settled(k) /\ live[k] \in {req[t].owner, None}
  BY <1>1 DEF Store!Revoke, Store!Owned, IInv, DrawnInv, CallInv, Removable
<1>3. \A c \in Tab : phase'[c] = "open" /\ req'[c].op = "create" =>
        phase[c] = "open" /\ req[c].op = "create"
  BY <1>1 DEF IInv, TypeOK
<1>4. \A i \in Key : Settled(i) => Settled(i)'
  BY <1>1, <1>3 DEF Settled
<1>5. Steady
  BY <1>1, <1>2, <1>4 DEF Steady, IInv, TypeOK
<1>6. \A i \in Key : live'[i] # None => Settled(i)'
  BY <1>1, <1>4 DEF IInv, TypeOK, DrawnInv
<1>7. DrawnInv'
  BY <1>1, <1>3, <1>6 DEF IInv, DrawnInv
<1>8. live'[k] = None
  BY <1>1 DEF IInv, TypeOK
<1>. QED  BY <1>1, <1>2, <1>4, <1>5, <1>7, <1>8 DEF Gone

\* A call that fails leaves at most its own effect for later.
LEMMA FailSteady ==
    ASSUME IInv, NEW t \in Tab, Store!Fail(t), UNCHANGED asked
    PROVE  /\ Steady /\ DrawnInv'
           /\ \A e \in late' \ late : e.kind = "remove" => Removable(e.owner, e.key)
<1> DEFINE k == req[t].key
<1>1. /\ live' = live /\ issued' = issued /\ req' = req
      /\ phase' = [phase EXCEPT ![t] = "done"] /\ phase[t] \in {"open", "authorised"}
  BY DEF Store!Fail, Store!Finish
<1>2. \A e \in late' \ late :
        /\ e.key = k /\ e.owner = req[t].owner
        /\ \/ e.kind = "put" /\ phase[t] = "open" /\ req[t].op = "create"
           \/ e.kind = "remove" /\ phase[t] = "authorised"
  BY DEF Store!Fail, Store!LeftBehind
<1>3. \A e, f \in late' \ late : e = f
  BY DEF Store!Fail, Store!LeftBehind
<1>4. late \subseteq late'
  BY DEF Store!Fail
<1>5. \A c \in Tab : phase'[c] = "open" /\ req'[c].op = "create" =>
        c # t /\ phase[c] = "open" /\ req[c].op = "create"
  BY <1>1 DEF IInv, TypeOK
<1>6. \A i \in Key : Settled(i) => Settled(i)'
  BY <1>1, <1>2, <1>5 DEF Settled
<1>7. Steady
  BY <1>1, <1>6 DEF Steady
<1>8. \A i \in Key : live'[i] # None => Settled(i)'
  BY <1>1, <1>6 DEF IInv, DrawnInv
<1>9. \A c \in Tab : phase'[c] = "open" /\ req'[c].op = "create" =>
         /\ req'[c].key \in issued'
         /\ \A d \in Tab : phase'[d] = "open" /\ req'[d].op = "create" /\ req'[d].key = req'[c].key => d = c
         /\ \A e \in late' : e.kind = "put" => e.key # req'[c].key
  BY <1>1, <1>2, <1>5 DEF IInv, DrawnInv
<1>10. \A e \in late' : e.kind = "put" =>
         /\ e.key \in issued'
         /\ \A f \in late' : f.kind = "put" /\ f.key = e.key => f = e
  BY <1>1, <1>2, <1>3 DEF IInv, DrawnInv
<1>11. DrawnInv'
  BY <1>8, <1>9, <1>10 DEF DrawnInv
<1>12. \A e \in late' \ late : e.kind = "remove" => Removable(e.owner, e.key)
  BY <1>2 DEF IInv, CallInv
<1>. QED  BY <1>7, <1>11, <1>12

\* A late effect is the first write of its key, or the removal its owner asked for.
LEMMA LateSteady ==
    ASSUME IInv, NEW e \in late, Store!LateEffect(e), UNCHANGED asked
    PROVE  Steady /\ DrawnInv'
<1>1. /\ issued' = issued /\ phase' = phase /\ req' = req /\ late' = late \ {e}
      /\ live' = [live EXCEPT ![e.key] = IF e.kind = "put" THEN e.owner ELSE None]
      /\ e.key \in Key /\ e.owner \in Person /\ e.kind \in {"put", "remove"}
  BY DEF Store!LateEffect, IInv, TypeOK
<1>2. \A i \in Key : Settled(i) => Settled(i)'
  BY <1>1 DEF Settled
<1>3. Settled(e.key)'
  <2>1. CASE e.kind = "put"
    BY <1>1, <2>1 DEF Settled, IInv, DrawnInv
  <2>2. CASE e.kind = "remove"
    BY <1>1, <1>2, <2>2 DEF IInv, CallInv, Removable
  <2>. QED  BY <1>1, <2>1, <2>2
<1>4. Steady
  <2>1. CASE e.kind = "put"
    BY <1>1, <1>2, <2>1 DEF Steady, Settled, IInv, TypeOK
  <2>2. CASE e.kind = "remove"
    <3>1. live[e.key] \in {e.owner, None} /\ <<e.owner, e.key>> \in asked
      BY <2>2 DEF IInv, CallInv, Removable
    <3>. QED  BY <1>1, <1>2, <2>2, <3>1 DEF Steady, IInv, TypeOK
  <2>. QED  BY <1>1, <2>1, <2>2
<1>5. \A i \in Key : live'[i] # None => Settled(i)'
  BY <1>1, <1>2, <1>3 DEF IInv, TypeOK, DrawnInv
<1>6. DrawnInv'
  BY <1>1, <1>5 DEF IInv, DrawnInv
<1>. QED  BY <1>4, <1>6

LEMMA WipeSteady == ASSUME IInv, Wipe PROVE Steady /\ DrawnInv'
<1>1. /\ live' = [k \in Key |-> None]
      /\ UNCHANGED <<issued, phase, req, late>>
      /\ asked' = asked \cup {<<live[k], k>> : k \in {i \in Key : live[i] # None}}
  BY DEF Wipe, Store!Wipe
<1>2. \A i \in Key : Settled(i) => Settled(i)'
  BY <1>1 DEF Settled
<1>3. Steady
  BY <1>1, <1>2 DEF Steady
<1>4. DrawnInv'
  BY <1>1, <1>2 DEF IInv, DrawnInv
<1>. QED  BY <1>3, <1>4

LEMMA AskedType ==
    IInv => \A t \in Tab : request[t].at # "none" =>
      /\ request[t] \in Requests
      /\ request[t] = [at |-> request[t].at, route |-> request[t].route, key |-> request[t].key,
                       as |-> request[t].as, flash |-> request[t].flash, owed |-> request[t].owed,
                       gone |-> request[t].gone, again |-> request[t].again]
BY DEF IInv, TypeOK, Idle, Requests

\* Every step leaves settled keys alone, unless their owner asked.
LEMMA StepSteady == IInv /\ [Next]_vars => Steady /\ DrawnInv'
<1> SUFFICES ASSUME IInv, [Next]_vars PROVE Steady /\ DrawnInv'
  OBVIOUS
<1>0. Quiet => Steady /\ DrawnInv'
  BY QuietSteady, QuietDrawn DEF IInv
<1>1. ASSUME NEW t \in Tab, NEW route \in Route, NEW k \in Key \cup {None}, Ask(t, route, k)
      PROVE  Steady /\ DrawnInv'
  BY <1>0, <1>1, StandstillIsQuiet DEF Ask
<1>2. ASSUME NEW t \in Tab, Call(t) PROVE Steady /\ DrawnInv'
  <2>1. request[t].at = "sent" /\ request[t].route \in Calling /\ request[t].as \in Person
        /\ request[t].key \in Key \cup {None}
    BY <1>2, AskedType DEF Call, Requests, Calling
  <2>2. PICK k \in IF request[t].route = "create" THEN Key ELSE {request[t].key} :
          Store!Begin(t, Op[request[t].route], request[t].as, k)
    BY <1>2 DEF Call
  <2>3. Op[request[t].route] \in Store!Op /\ k \in Key \cup {None}
    BY <2>1 DEF Op, Calling, Route, Store!Op
  <2>. QED  BY <1>2, <2>1, <2>2, <2>3, BeginSteady DEF Call, seen
<1>3. ASSUME NEW t \in Tab, Answer(t) \/ Discard(t) PROVE Steady /\ DrawnInv'
  BY <1>0, <1>3, AnswersAreQuiet DEF Answer, Discard, seen, IInv
<1>4. ASSUME NEW t \in Tab, Serve(t) \/ Arrive(t) \/ Abandon(t) PROVE Steady /\ DrawnInv'
  BY <1>0, <1>4, StandstillIsQuiet DEF Serve, Arrive, Abandon, seen
<1>5. ASSUME NEW p \in Person \cup {None}, Session(p) PROVE Steady /\ DrawnInv'
  BY <1>0, <1>5, StandstillIsQuiet DEF Session, seen
<1>6. ASSUME StoreStep PROVE Steady /\ DrawnInv'
  <2>1. UNCHANGED asked
    BY <1>6 DEF StoreStep, seen
  <2>2. ASSUME NEW t \in Tab, \/ Store!List(t) \/ Store!Get(t) \/ Store!Missing(t)
                              \/ Store!Authorise(t) \/ Store!RevokeTooLate(t)
        PROVE  Steady /\ DrawnInv'
    BY <1>0, <2>1, <2>2, AnswersAreQuiet DEF IInv
  <2>3. ASSUME NEW t \in Tab, Store!Create(t) \/ Store!Revoke(t) \/ Store!Fail(t)
        PROVE  Steady /\ DrawnInv'
    BY <2>1, <2>3, CreateSteady, RevokeSteady, FailSteady
  <2>4. ASSUME NEW e \in late, Store!LateEffect(e) PROVE Steady /\ DrawnInv'
    BY <2>1, <2>4, LateSteady
  <2>5. ASSUME NEW e \in late, Store!LateNever(e) PROVE Steady /\ DrawnInv'
    BY <1>0, <2>1, <2>5 DEF Quiet, Store!LateNever
  <2>. QED  BY <1>6, <2>2, <2>3, <2>4, <2>5 DEF StoreStep
<1>7. ASSUME Wipe PROVE Steady /\ DrawnInv'
  BY <1>7, WipeSteady
<1>8. ASSUME UNCHANGED vars PROVE Steady /\ DrawnInv'
  BY <1>0, <1>8, StandstillIsQuiet DEF vars, seen
<1>. QED  BY <1>1, <1>2, <1>3, <1>4, <1>5, <1>6, <1>7, <1>8 DEF Next

LEMMA StepStable ==
    ASSUME IInv, [Next]_vars
    PROVE  /\ asked \subseteq asked'
           /\ \A k \in Key : Gone(k) => Gone(k)'
           /\ \A p \in Person, k \in Key : Kept(p, k) => Kept(p, k)'
           /\ \A p \in Person, k \in Key : Removable(p, k) => Removable(p, k)'
<1>1. Steady
  BY StepSteady
<1>. QED  BY <1>1, GoneStable, KeptStable, RemovableStable DEF Steady

-----------------------------------------------------------------------------
(* Type correctness.                                                       *)

\* A new request is a request.
LEMMA RequestType ==
    ASSUME NEW route \in Route, NEW k \in Key \cup {None}, NEW s \in Person \cup {None},
           NEW m \in Message \cup {None}, NEW g \in SUBSET Key, NEW b \in BOOLEAN,
           route # "page" => s \in Person
    PROVE  Request(route, k, s, m, g, b) \in Requests
BY DEF Request, Requests, Owed

LEMMA PageType ==
    ASSUME IInv, NEW t \in Tab, request[t].at = "called", phase[t] = "done"
    PROVE  Page(t) \in [shows : Route \cup {"none", "ok", "notfound", "invalid", "error"},
                        keys : SUBSET Key, says : Message \cup {None}]
<1>1. request[t] \in Requests
  BY AskedType
<1>2. Shows(t) \in Route \cup {"none", "ok", "notfound", "invalid", "error"}
  BY <1>1 DEF Shows, IInv, TypeOK, Requests
<1>3. Shows(t) = "create" => req[t].key \in Key
  <2>1. Shows(t) = "create" => request[t].route = "create"
    BY DEF Shows, IInv, TypeOK
  <2>2. req[t].op = Op[request[t].route]
    BY DEF IInv, RequestInv
  <2>3. Op["create"] = "create"
    BY DEF Op
  <2>. QED  BY <2>1, <2>2, <2>3 DEF IInv, CallInv
<1>4. Shows(t) \in {"confirm", "revoke"} => request[t].key \in Key
  BY <1>1 DEF Shows, IInv, RequestInv, Route, Calling, TypeOK, Requests
<1>5. reply[t].keys \subseteq Key /\ request[t].flash \in Message \cup {None}
  BY <1>1 DEF IInv, TypeOK, Requests
<1>6. (IF Shows(t) = "account" THEN reply[t].keys
       ELSE IF Shows(t) = "create" THEN {req[t].key}
       ELSE IF Shows(t) \in {"confirm", "revoke"} THEN {request[t].key} ELSE {}) \in SUBSET Key
  BY <1>3, <1>4, <1>5
<1>7. (IF Shows(t) = "revoke" THEN None ELSE request[t].flash) \in Message \cup {None}
  BY <1>5
<1>. QED  BY <1>2, <1>6, <1>7 DEF Page

\* What the store holds keeps its type while it works.
StoreType ==
    /\ live \in [Key -> Person \cup {None}]
    /\ issued \in SUBSET Key
    /\ phase \in [Tab -> {"idle", "open", "authorised", "done"}]
    /\ req \in [Tab -> [op : Store!Op \cup {"none"}, owner : Person \cup {None},
                        key : Key \cup {None}]]
    /\ reply \in [Tab -> [kind : {"none", "ok", "notfound", "invalid", "error"},
                          keys : SUBSET Key]]
    /\ late \in SUBSET [kind : {"put", "remove"}, key : Key, owner : Person]

LEMMA ReturnType == ASSUME IInv, NEW t \in Tab, Store!Return(t) PROVE StoreType'
BY DEF IInv, TypeOK, StoreType, Store!Return, Store!NoRequest, Store!NoReply, Store!Reply

LEMMA BeginType ==
    ASSUME IInv, NEW t \in Tab, NEW op \in Store!Op, NEW p \in Person,
           NEW k \in Key \cup {None}, Store!Begin(t, op, p, k)
    PROVE  StoreType'
<1>1. /\ phase' = [phase EXCEPT ![t] = "open"]
      /\ req' = [req EXCEPT ![t] = [op |-> op, owner |-> p, key |-> k]]
      /\ UNCHANGED <<live, reply, late>>
  BY DEF Store!Begin
<1>2. issued' \in SUBSET Key
  BY DEF Store!Begin, IInv, TypeOK
<1>. QED  BY <1>1, <1>2 DEF IInv, TypeOK, StoreType

LEMMA StoreStepType == ASSUME IInv, StoreStep PROVE StoreType'
<1>1. ASSUME NEW t \in Tab, \/ Store!List(t) \/ Store!Get(t) \/ Store!Missing(t)
                            \/ Store!Create(t) \/ Store!Authorise(t) \/ Store!Revoke(t)
                            \/ Store!RevokeTooLate(t) \/ Store!Fail(t)
      PROVE  StoreType'
  <2>1. phase[t] # "idle"
    BY <1>1 DEF Store!List, Store!Get, Store!Missing, Store!Create, Store!Authorise,
                Store!Revoke, Store!RevokeTooLate, Store!Fail
  <2>2. req[t].owner \in Person /\ (req[t].op # "list" => req[t].key \in Key)
    BY <2>1 DEF IInv, CallInv
  <2>3. CASE Store!List(t)
    BY <2>3 DEF Store!List, Store!Finish, Store!Reply, Store!Owned, IInv, TypeOK, StoreType
  <2>4. CASE Store!Get(t) \/ Store!Missing(t) \/ Store!RevokeTooLate(t)
    <3>1. UNCHANGED <<live, issued, req, late>>
      BY <2>4 DEF Store!Get, Store!Missing, Store!RevokeTooLate
    <3>2. phase' = [phase EXCEPT ![t] = "done"]
      BY <2>4 DEF Store!Get, Store!Missing, Store!RevokeTooLate, Store!Finish
    <3>3. \/ reply' = [reply EXCEPT ![t] = [kind |-> "ok", keys |-> {req[t].key}]] /\ req[t].key \in Key
          \/ reply' = [reply EXCEPT ![t] = [kind |-> "notfound", keys |-> {}]]
      BY <2>2, <2>4 DEF Store!Get, Store!Missing, Store!RevokeTooLate, Store!Finish, Store!Reply
    <3>. QED  BY <3>1, <3>2, <3>3 DEF IInv, TypeOK, StoreType
  <2>5. CASE Store!Create(t) \/ Store!Revoke(t)
    <3>1. /\ UNCHANGED <<issued, req, late>> /\ req[t].key \in Key
          /\ \/ live' = [live EXCEPT ![req[t].key] = req[t].owner]
             \/ live' = [live EXCEPT ![req[t].key] = None]
      BY <2>2, <2>5 DEF Store!Create, Store!Revoke
    <3>2. /\ phase' = [phase EXCEPT ![t] = "done"]
          /\ reply' = [reply EXCEPT ![t] = [kind |-> "ok", keys |-> {req[t].key}]]
      BY <2>5 DEF Store!Create, Store!Revoke, Store!Finish, Store!Reply
    <3>3. live' \in [Key -> Person \cup {None}]
      BY <2>2, <3>1 DEF IInv, TypeOK
    <3>. QED  BY <3>1, <3>2, <3>3 DEF IInv, TypeOK, StoreType
  <2>6. CASE Store!Authorise(t)
    BY <2>6 DEF Store!Authorise, IInv, TypeOK, StoreType
  <2>7. CASE Store!Fail(t)
    <3>1. late' \in SUBSET [kind : {"put", "remove"}, key : Key, owner : Person]
      <4>1. Store!LeftBehind(t) \subseteq [kind : {"put", "remove"}, key : Key, owner : Person]
        BY <2>2 DEF Store!LeftBehind, IInv, CallInv
      <4>. QED  BY <2>7, <4>1 DEF Store!Fail, IInv, TypeOK
    <3>2. /\ UNCHANGED <<live, issued, req>> /\ phase' = [phase EXCEPT ![t] = "done"]
          /\ reply' = [reply EXCEPT ![t] = [kind |-> "error", keys |-> {}]]
      BY <2>7 DEF Store!Fail, Store!Finish, Store!Reply
    <3>. QED  BY <3>1, <3>2 DEF IInv, TypeOK, StoreType
  <2>. QED  BY <1>1, <2>3, <2>4, <2>5, <2>6, <2>7
<1>2. ASSUME NEW e \in late, Store!LateEffect(e) \/ Store!LateNever(e) PROVE StoreType'
  <2>1. e.key \in Key /\ e.owner \in Person
    BY DEF IInv, TypeOK
  <2>2. /\ late' = late \ {e} /\ UNCHANGED <<issued, phase, req, reply>>
        /\ live' \in {live, [live EXCEPT ![e.key] = e.owner], [live EXCEPT ![e.key] = None]}
    BY <1>2 DEF Store!LateEffect, Store!LateNever
  <2>. QED  BY <2>1, <2>2 DEF IInv, TypeOK, StoreType
<1>. QED  BY <1>1, <1>2 DEF StoreStep

\* What the browser holds and has seen keeps its type.
BrowserType ==
    /\ session \in Person \cup {None} /\ flash \in Message \cup {None}
    /\ request \in [Tab -> {Idle} \cup Requests]
    /\ answer \in [Tab -> [shows : Route \cup {"none", "ok", "notfound", "invalid", "error"},
                           keys : SUBSET Key, says : Message \cup {None}]]
    /\ created \in SUBSET (Person \X Key) /\ asked \in SUBSET (Person \X Key)
    /\ gone \in SUBSET Key

LEMMA TypeParts == TypeOK <=> StoreType /\ BrowserType
BY DEF TypeOK, StoreType, BrowserType

LEMMA ArriveType == ASSUME IInv, NEW t \in Tab, Arrive(t) PROVE BrowserType'
<1>1. request[t] \in Requests /\ answer[t].keys \subseteq Key
  BY AskedType DEF Arrive, IInv, TypeOK
<1>2. gone' \in SUBSET Key
  BY <1>1 DEF Arrive, IInv, TypeOK
<1>3. created' \in SUBSET (Person \X Key)
  BY <1>1 DEF Arrive, IInv, TypeOK, AnswerInv
<1>4. flash' \in Message \cup {None}
  <2>1. answer[t].shows = "revoke" => request[t].key \in Key
    BY DEF Arrive, IInv, AnswerInv, ReplyInv, Gone, Settled, TypeOK
  <2>. QED  BY <2>1 DEF Arrive, FlashAfter, Message, IInv, TypeOK
<1>5. shown' \in BOOLEAN
  BY DEF Arrive
<1>6. /\ session' \in Person \cup {None}
      /\ session' # None => Request("account", None, session', flash', gone', shown') \in Requests
      /\ Request("page", None, session', flash', gone', shown') \in Requests
  <2>1. session' \in Person \cup {None}
    BY DEF Arrive, IInv, TypeOK
  <2>. QED  BY <1>2, <1>4, <1>5, <2>1, RequestType DEF Route, Calling
<1>7. request' \in [Tab -> {Idle} \cup Requests]
  BY <1>6 DEF Arrive, Followed, IInv, TypeOK
<1>8. answer' \in [Tab -> [shows : Route \cup {"none", "ok", "notfound", "invalid", "error"},
                          keys : SUBSET Key, says : Message \cup {None}]]
  BY DEF Arrive, NoAnswer, IInv, TypeOK
<1>. QED  BY <1>2, <1>3, <1>4, <1>6, <1>7, <1>8 DEF BrowserType, Arrive, IInv, TypeOK

\* Type correctness is kept by every step.
LEMMA StepTypeOK == IInv /\ [Next]_vars => TypeOK'
<1> SUFFICES ASSUME IInv, [Next]_vars PROVE StoreType' /\ BrowserType'
  BY TypeParts DEF IInv, TypeOK, StoreType, BrowserType
<1>0. StoreType /\ BrowserType
  BY TypeParts DEF IInv
<1>1. ASSUME NEW t \in Tab, NEW route \in Route, NEW k \in Key \cup {None}, Ask(t, route, k)
      PROVE  StoreType' /\ BrowserType'
  <2>1. session \in Person \cup {None} /\ (route # "page" => session \in Person)
    BY <1>1 DEF Ask, IInv, TypeOK
  <2>2. Request(route, k, session, flash, gone, shown) \in Requests
    BY <2>1, RequestType DEF IInv, TypeOK, SeenInv
  <2>3. asked' \in SUBSET (Person \X Key)
    BY <1>1, <2>1 DEF Ask, IInv, TypeOK
  <2>. QED  BY <1>0, <1>1, <2>2, <2>3 DEF Ask, storeVars, cookies, StoreType, BrowserType
<1>2. ASSUME NEW t \in Tab, Call(t) PROVE StoreType' /\ BrowserType'
  <2>1. request[t].at = "sent" /\ request[t] \in Requests
    BY <1>2, AskedType DEF Call
  <2>2. PICK k \in IF request[t].route = "create" THEN Key ELSE {request[t].key} :
          Store!Begin(t, Op[request[t].route], request[t].as, k)
    BY <1>2 DEF Call
  <2>3. Op[request[t].route] \in Store!Op /\ k \in Key \cup {None} /\ request[t].as \in Person
    BY <1>2, <2>1 DEF Call, Op, Calling, Route, Store!Op, Requests
  <2>4. StoreType'
    BY <2>2, <2>3, BeginType
  <2>5. [request[t] EXCEPT !.at = "called"] \in Requests
    BY <2>1 DEF Requests
  <2>. QED  BY <1>0, <1>2, <2>4, <2>5 DEF Call, cookies, seen, BrowserType
<1>3. ASSUME NEW t \in Tab, Answer(t) PROVE StoreType' /\ BrowserType'
  <2>1. request[t].at = "called" /\ request[t] \in Requests /\ phase[t] = "done"
    BY <1>3, AskedType DEF Answer, Store!Return
  <2>2. StoreType'
    BY <1>3, ReturnType DEF Answer
  <2>3. [request[t] EXCEPT !.at = "answered"] \in Requests
    BY <2>1 DEF Requests
  <2>. QED  BY <1>0, <1>3, <2>1, <2>2, <2>3, PageType DEF Answer, cookies, seen, BrowserType
<1>4. ASSUME NEW t \in Tab, Discard(t) PROVE StoreType' /\ BrowserType'
  BY <1>0, <1>4, ReturnType DEF Discard, cookies, seen, BrowserType
<1>5. ASSUME NEW t \in Tab, Arrive(t) PROVE StoreType' /\ BrowserType'
  BY <1>0, <1>5, ArriveType DEF Arrive, storeVars, StoreType
<1>6. ASSUME NEW t \in Tab, Abandon(t) PROVE StoreType' /\ BrowserType'
  BY <1>0, <1>6 DEF Abandon, storeVars, cookies, seen, StoreType, BrowserType, NoAnswer
<1>7. ASSUME NEW p \in Person \cup {None}, Session(p) PROVE StoreType' /\ BrowserType'
  BY <1>0, <1>7 DEF Session, storeVars, seen, StoreType, BrowserType
<1>8. ASSUME NEW t \in Tab, Serve(t) PROVE StoreType' /\ BrowserType'
  <2>1. request[t] \in Requests
    BY <1>8, AskedType DEF Serve
  <2>2. [request[t] EXCEPT !.at = "answered"] \in Requests
    BY <2>1 DEF Requests
  <2>3. [shows |-> request[t].route, keys |-> {},
         says |-> IF request[t].route = "logout" THEN None ELSE request[t].flash]
          \in [shows : Route \cup {"none", "ok", "notfound", "invalid", "error"},
              keys : SUBSET Key, says : Message \cup {None}]
    BY <2>1 DEF Requests
  <2>. QED  BY <1>0, <1>8, <2>2, <2>3 DEF Serve, storeVars, cookies, seen, StoreType, BrowserType
<1>9. ASSUME StoreStep PROVE StoreType' /\ BrowserType'
  BY <1>0, <1>9, StoreStepType DEF StoreStep, cookies, seen, BrowserType
<1>10. ASSUME Wipe PROVE StoreType' /\ BrowserType'
  <2>1. asked' \in SUBSET (Person \X Key)
    BY <1>10 DEF Wipe, IInv, TypeOK
  <2>. QED  BY <1>0, <1>10, <2>1 DEF Wipe, Store!Wipe, cookies, StoreType, BrowserType
<1>11. ASSUME UNCHANGED vars PROVE StoreType' /\ BrowserType'
  BY <1>0, <1>11 DEF vars, storeVars, cookies, seen, StoreType, BrowserType
<1>. QED  BY <1>1, <1>2, <1>3, <1>4, <1>5, <1>6, <1>7, <1>8, <1>9, <1>10, <1>11 DEF Next

-----------------------------------------------------------------------------
(* Calls and replies.                                                      *)

\* The store changes no request, begins no call and returns from none.
LEMMA StoreStepFrame ==
    ASSUME IInv, StoreStep
    PROVE  /\ UNCHANGED <<cookies, request, answer, seen, req>>
           /\ \A c \in Tab : phase'[c] = "idle" <=> phase[c] = "idle"
<1>1. ASSUME NEW t \in Tab, \/ Store!List(t) \/ Store!Get(t) \/ Store!Missing(t)
                            \/ Store!Create(t) \/ Store!Authorise(t) \/ Store!Revoke(t)
                            \/ Store!RevokeTooLate(t) \/ Store!Fail(t)
      PROVE  req' = req /\ \A c \in Tab : phase'[c] = "idle" <=> phase[c] = "idle"
  <2>1. \/ phase[t] # "idle" /\ phase' = [phase EXCEPT ![t] = "done"] /\ req' = req
        \/ phase[t] # "idle" /\ phase' = [phase EXCEPT ![t] = "authorised"] /\ req' = req
    BY <1>1 DEF Store!List, Store!Get, Store!Missing, Store!Create, Store!Authorise,
                Store!Revoke, Store!RevokeTooLate, Store!Fail, Store!Finish
  <2>. QED  BY <2>1 DEF IInv, TypeOK
<1>2. ASSUME NEW e \in late, Store!LateEffect(e) \/ Store!LateNever(e)
      PROVE  req' = req /\ phase' = phase
  BY <1>2 DEF Store!LateEffect, Store!LateNever
<1>. QED  BY <1>1, <1>2 DEF StoreStep

LEMMA StepCall == IInv /\ [Next]_vars => CallInv'
<1> SUFFICES ASSUME IInv, [Next]_vars PROVE CallInv'
  OBVIOUS
<1> USE DEF IInv
<1>0. /\ asked \subseteq asked'
      /\ \A p \in Person, k \in Key : Removable(p, k) => Removable(p, k)'
  BY StepStable
\* A step that begins, authorises and leaves behind nothing.
<1>1. ASSUME late' \subseteq late,
             \A c \in Tab : phase'[c] # "idle" => phase[c] # "idle" /\ req'[c] = req[c],
             \A c \in Tab : phase'[c] = "authorised" => phase[c] = "authorised"
      PROVE  CallInv'
  <2>1. ASSUME NEW c \in Tab, phase'[c] = "authorised"
        PROVE  req'[c].op = "revoke" /\ Removable(req[c].owner, req[c].key)'
    <3>1. Removable(req[c].owner, req[c].key) /\ req[c].op = "revoke"
      BY <1>1, <2>1 DEF CallInv
    <3>2. req[c].owner \in Person /\ req[c].key \in Key
      BY <1>1, <2>1, <3>1 DEF CallInv
    <3>. QED  BY <1>0, <1>1, <2>1, <3>1, <3>2 DEF Removable
  <2>2. ASSUME NEW e \in late', e.kind = "remove" PROVE Removable(e.owner, e.key)'
    <3>1. Removable(e.owner, e.key) /\ e.owner \in Person /\ e.key \in Key
      BY <1>1, <2>2 DEF CallInv, TypeOK
    <3>. QED  BY <1>0, <3>1
  <2>. QED  BY <1>0, <1>1, <2>1, <2>2 DEF CallInv
<1>2. ASSUME UNCHANGED storeVars PROVE CallInv'
  BY <1>1, <1>2 DEF storeVars
<1>3. ASSUME NEW t \in Tab, Store!Return(t) PROVE CallInv'
  <2>1. /\ late' = late /\ phase' = [phase EXCEPT ![t] = "idle"]
        /\ req' = [req EXCEPT ![t] = Store!NoRequest]
    BY <1>3 DEF Store!Return
  <2>. QED  BY <1>1, <2>1 DEF TypeOK
<1>4. ASSUME NEW t \in Tab, Call(t) PROVE CallInv'
  <2>1. request[t] \in Requests /\ request[t].at = "sent"
    BY <1>4, AskedType DEF Call
  <2>2. PICK k \in IF request[t].route = "create" THEN Key ELSE {request[t].key} :
          Store!Begin(t, Op[request[t].route], request[t].as, k)
    BY <1>4 DEF Call
  <2>3. /\ Op[request[t].route] \in Store!Op /\ request[t].as \in Person
        /\ Op[request[t].route] = "revoke" => request[t].route = "revoke"
    BY <1>4, <2>1 DEF Call, Op, Calling, Route, Store!Op, Requests
  <2>4. /\ phase' = [phase EXCEPT ![t] = "open"] /\ late' = late /\ live' = live
        /\ req' = [req EXCEPT ![t] = [op |-> Op[request[t].route], owner |-> request[t].as, key |-> k]]
        /\ Op[request[t].route] # "list" => k \in Key
        /\ asked' = asked
    BY <1>4, <2>2 DEF Store!Begin, Call, seen
  <2>5. Op[request[t].route] = "revoke" => <<request[t].as, k>> \in asked
    BY <2>1, <2>2, <2>3 DEF RequestInv
  <2>6. \A c \in Tab : phase'[c] # "idle" =>
          /\ req'[c].op \in Store!Op /\ req'[c].owner \in Person
          /\ req'[c].op # "list" => req'[c].key \in Key
          /\ req'[c].op = "revoke" => <<req'[c].owner, req'[c].key>> \in asked'
    BY <2>3, <2>4, <2>5 DEF TypeOK, CallInv
  <2>7. ASSUME NEW c \in Tab, phase'[c] = "authorised"
        PROVE  req'[c].op = "revoke" /\ Removable(req[c].owner, req[c].key)'
    <3>1. phase[c] = "authorised" /\ req'[c] = req[c]
      BY <2>4, <2>7 DEF TypeOK
    <3>2. Removable(req[c].owner, req[c].key) /\ req[c].op = "revoke"
          /\ req[c].owner \in Person /\ req[c].key \in Key
      BY <3>1 DEF CallInv
    <3>. QED  BY <1>0, <3>1, <3>2 DEF Removable
  <2>8. ASSUME NEW e \in late', e.kind = "remove" PROVE Removable(e.owner, e.key)'
    <3>1. Removable(e.owner, e.key) /\ e.owner \in Person /\ e.key \in Key
      BY <2>4, <2>8 DEF CallInv, TypeOK
    <3>. QED  BY <1>0, <3>1
  <2>. QED  BY <2>6, <2>7, <2>8 DEF CallInv
<1>5. ASSUME StoreStep PROVE CallInv'
  <2>1. req' = req /\ asked' = asked /\ \A c \in Tab : phase'[c] = "idle" <=> phase[c] = "idle"
    BY <1>5, StoreStepFrame DEF seen
  <2>2. ASSUME NEW t \in Tab, \/ Store!List(t) \/ Store!Get(t) \/ Store!Missing(t)
                              \/ Store!Create(t) \/ Store!Revoke(t) \/ Store!RevokeTooLate(t)
        PROVE  CallInv'
    <3>1. late' = late /\ phase' = [phase EXCEPT ![t] = "done"]
      BY <2>2 DEF Store!List, Store!Get, Store!Missing, Store!Create,
                  Store!Revoke, Store!RevokeTooLate, Store!Finish
    <3>. QED  BY <1>1, <2>1, <3>1 DEF TypeOK
  <2>3. ASSUME NEW t \in Tab, Store!Authorise(t) PROVE CallInv'
    <3>1. /\ phase[t] = "open" /\ phase' = [phase EXCEPT ![t] = "authorised"]
          /\ late' = late /\ live' = live /\ issued' = issued
          /\ req[t].op = "revoke" /\ live[req[t].key] = req[t].owner
      BY <2>3 DEF Store!Authorise, Store!Owned
    <3>2. Removable(req[t].owner, req[t].key) /\ req[t].owner \in Person /\ req[t].key \in Key
      BY <3>1 DEF CallInv, DrawnInv, Removable
    <3>3. ASSUME NEW c \in Tab, phase'[c] = "authorised"
          PROVE  req'[c].op = "revoke" /\ Removable(req[c].owner, req[c].key)'
      <4>1. Removable(req[c].owner, req[c].key) /\ req[c].op = "revoke"
            /\ req[c].owner \in Person /\ req[c].key \in Key
        BY <3>1, <3>2, <3>3 DEF TypeOK, CallInv
      <4>. QED  BY <1>0, <2>1, <4>1 DEF Removable
    <3>4. ASSUME NEW e \in late', e.kind = "remove" PROVE Removable(e.owner, e.key)'
      <4>1. Removable(e.owner, e.key) /\ e.owner \in Person /\ e.key \in Key
        BY <3>1, <3>4 DEF CallInv, TypeOK
      <4>. QED  BY <1>0, <4>1
    <3>. QED  BY <2>1, <3>3, <3>4 DEF CallInv
  <2>4. ASSUME NEW t \in Tab, Store!Fail(t) PROVE CallInv'
    <3>1. /\ \A e \in late' \ late : e.kind = "remove" => Removable(e.owner, e.key)
          /\ late' \in SUBSET [kind : {"put", "remove"}, key : Key, owner : Person]
      BY <2>1, <2>4, <1>5, FailSteady, StoreStepType DEF StoreType
    <3>2. phase' = [phase EXCEPT ![t] = "done"]
      BY <2>4 DEF Store!Fail, Store!Finish
    <3>3. ASSUME NEW c \in Tab, phase'[c] = "authorised"
          PROVE  req'[c].op = "revoke" /\ Removable(req[c].owner, req[c].key)'
      <4>1. Removable(req[c].owner, req[c].key) /\ req[c].op = "revoke"
            /\ req[c].owner \in Person /\ req[c].key \in Key
        BY <3>2, <3>3 DEF TypeOK, CallInv
      <4>. QED  BY <1>0, <2>1, <4>1 DEF Removable
    <3>4. ASSUME NEW e \in late', e.kind = "remove" PROVE Removable(e.owner, e.key)'
      <4>1. Removable(e.owner, e.key) /\ e.owner \in Person /\ e.key \in Key
        BY <3>1, <3>4 DEF CallInv
      <4>. QED  BY <1>0, <4>1
    <3>. QED  BY <2>1, <3>3, <3>4 DEF CallInv
  <2>5. ASSUME NEW e \in late, Store!LateEffect(e) \/ Store!LateNever(e) PROVE CallInv'
    BY <1>1, <2>5 DEF Store!LateEffect, Store!LateNever
  <2>. QED  BY <1>5, <2>2, <2>3, <2>4, <2>5 DEF StoreStep
<1>6. ASSUME Wipe PROVE CallInv'
  BY <1>1, <1>6 DEF Wipe, Store!Wipe
<1>. QED
  BY <1>2, <1>3, <1>4, <1>5, <1>6
  DEF Next, Ask, Answer, Serve, Arrive, Abandon, Discard, Session, vars

LEMMA StepReply == IInv /\ [Next]_vars => ReplyInv'
<1> SUFFICES ASSUME IInv, [Next]_vars PROVE ReplyInv'
  OBVIOUS
<1> USE DEF IInv
<1>0. /\ \A k \in Key : Gone(k) => Gone(k)'
      /\ \A p \in Person, k \in Key : Kept(p, k) => Kept(p, k)'
  BY StepStable
\* A reply that was there already.
<1>1. ASSUME NEW c \in Tab, phase[c] = "done", req'[c] = req[c], reply'[c] = reply[c],
             reply[c].kind = "ok"
      PROVE  /\ req[c].op = "revoke" => Gone(req[c].key)'
             /\ req[c].op = "create" => Kept(req[c].owner, req[c].key)'
  <2>1. CASE req[c].op = "revoke"
    <3>1. Gone(req[c].key) /\ req[c].key \in Key
      BY <1>1, <2>1 DEF ReplyInv, CallInv
    <3>. QED  BY <1>0, <1>1, <2>1, <3>1 DEF Gone
  <2>2. CASE req[c].op = "create"
    <3>1. Kept(req[c].owner, req[c].key) /\ req[c].key \in Key /\ req[c].owner \in Person
      BY <1>1, <2>2 DEF ReplyInv, CallInv
    <3>. QED  BY <1>0, <1>1, <2>2, <3>1 DEF Kept
  <2>. QED  BY <2>1, <2>2
<1>2. ASSUME \A c \in Tab : phase'[c] = "done" =>
               phase[c] = "done" /\ req'[c] = req[c] /\ reply'[c] = reply[c]
      PROVE  ReplyInv'
  BY <1>1, <1>2 DEF ReplyInv
<1>3. ASSUME UNCHANGED storeVars PROVE ReplyInv'
  BY <1>2, <1>3 DEF storeVars
<1>4. ASSUME NEW t \in Tab, Store!Return(t) PROVE ReplyInv'
  <2>1. /\ phase' = [phase EXCEPT ![t] = "idle"] /\ req' = [req EXCEPT ![t] = Store!NoRequest]
        /\ reply' = [reply EXCEPT ![t] = Store!NoReply]
    BY <1>4 DEF Store!Return
  <2>. QED  BY <1>2, <2>1 DEF TypeOK
<1>5. ASSUME NEW t \in Tab, Call(t) PROVE ReplyInv'
  <2>1. PICK k \in IF request[t].route = "create" THEN Key ELSE {request[t].key} :
          Store!Begin(t, Op[request[t].route], request[t].as, k)
    BY <1>5 DEF Call
  <2>2. /\ phase' = [phase EXCEPT ![t] = "open"] /\ reply' = reply
        /\ req' = [req EXCEPT ![t] = [op |-> Op[request[t].route], owner |-> request[t].as, key |-> k]]
    BY <2>1 DEF Store!Begin
  <2>. QED  BY <1>2, <2>2 DEF TypeOK
<1>6. ASSUME StoreStep PROVE ReplyInv'
  <2>1. req' = req
    BY <1>6, StoreStepFrame
  <2>2. UNCHANGED asked
    BY <1>6 DEF StoreStep, seen
  \* The call of t is answered with r; the others are where they were.
  <2>3. ASSUME NEW t \in Tab, NEW r, phase' = [phase EXCEPT ![t] = "done"],
               reply' = [reply EXCEPT ![t] = r],
               r.kind = "ok" => /\ req[t].op = "revoke" => Gone(req[t].key)'
                                /\ req[t].op = "create" => Kept(req[t].owner, req[t].key)'
        PROVE  ReplyInv'
    <3>1. ASSUME NEW c \in Tab, phase'[c] = "done", reply'[c].kind = "ok"
          PROVE  /\ req[c].op = "revoke" => Gone(req[c].key)'
                 /\ req[c].op = "create" => Kept(req[c].owner, req[c].key)'
      <4>1. CASE c = t
        BY <2>3, <3>1, <4>1 DEF TypeOK
      <4>2. CASE c # t
        BY <1>1, <2>1, <2>3, <3>1, <4>2 DEF TypeOK
      <4>. QED  BY <4>1, <4>2
    <3>. QED  BY <2>1, <3>1 DEF ReplyInv
  <2>4. ASSUME NEW t \in Tab, Store!List(t) \/ Store!Get(t) PROVE ReplyInv'
    <3>1. PICK r : reply' = [reply EXCEPT ![t] = r] /\ phase' = [phase EXCEPT ![t] = "done"]
      BY <2>4 DEF Store!List, Store!Get, Store!Finish
    <3>2. req[t].op \in {"list", "get"}
      BY <2>4 DEF Store!List, Store!Get
    <3>. QED  BY <2>3, <3>1, <3>2
  <2>5. ASSUME NEW t \in Tab, \/ Store!Missing(t) \/ Store!RevokeTooLate(t) \/ Store!Fail(t)
        PROVE  ReplyInv'
    <3>1. PICK r \in {Store!Reply("notfound", {}), Store!Reply("error", {})} :
            reply' = [reply EXCEPT ![t] = r] /\ phase' = [phase EXCEPT ![t] = "done"]
      BY <2>5 DEF Store!Missing, Store!RevokeTooLate, Store!Fail, Store!Finish
    <3>2. r.kind # "ok"
      BY <3>1 DEF Store!Reply
    <3>. QED  BY <2>3, <3>1, <3>2
  <2>6. ASSUME NEW t \in Tab, Store!Create(t) PROVE ReplyInv'
    <3>1. PICK r : reply' = [reply EXCEPT ![t] = r] /\ phase' = [phase EXCEPT ![t] = "done"]
      BY <2>6 DEF Store!Create, Store!Finish
    <3>2. Kept(req[t].owner, req[t].key)' /\ req[t].op = "create"
      BY <2>2, <2>6, CreateSteady DEF Store!Create
    <3>. QED  BY <2>3, <3>1, <3>2
  <2>7. ASSUME NEW t \in Tab, Store!Revoke(t) PROVE ReplyInv'
    <3>1. PICK r : reply' = [reply EXCEPT ![t] = r] /\ phase' = [phase EXCEPT ![t] = "done"]
      BY <2>7 DEF Store!Revoke, Store!Finish
    <3>2. Gone(req[t].key)' /\ req[t].op = "revoke"
      BY <2>2, <2>7, RevokeSteady DEF Store!Revoke
    <3>. QED  BY <2>3, <3>1, <3>2
  <2>8. ASSUME NEW t \in Tab, Store!Authorise(t) PROVE ReplyInv'
    BY <1>2, <2>1, <2>8 DEF Store!Authorise, TypeOK
  <2>9. ASSUME NEW e \in late, Store!LateEffect(e) \/ Store!LateNever(e) PROVE ReplyInv'
    BY <1>2, <2>1, <2>9 DEF Store!LateEffect, Store!LateNever
  <2>. QED  BY <1>6, <2>4, <2>5, <2>6, <2>7, <2>8, <2>9 DEF StoreStep
<1>7. ASSUME Wipe PROVE ReplyInv'
  BY <1>2, <1>7 DEF Wipe, Store!Wipe
<1>. QED
  BY <1>3, <1>4, <1>5, <1>6, <1>7
  DEF Next, Ask, Answer, Serve, Arrive, Abandon, Discard, Session, vars

-----------------------------------------------------------------------------
(* Requests and answers.                                                   *)

\* A request that was sent is owed no more than it was.
LEMMA StillOwedShrinks ==
    ASSUME IInv, [Next]_vars, NEW t \in Tab, request[t].at # "none",
           request'[t].owed = request[t].owed, request'[t].as = request[t].as
    PROVE  StillOwed(t)' \subseteq StillOwed(t)
<1>1. asked \subseteq asked'
  BY StepStable
<1>2. \A k \in request[t].owed : <<request[t].as, k>> \in created
  BY DEF IInv, RequestInv
<1>. QED  BY <1>1, <1>2 DEF StillOwed, Owed

\* What a request knows stays true until it is answered and the answer arrives.
Knows(r) ==
    /\ r.again = FALSE
    /\ r.route = "revoke" => <<r.as, r.key>> \in asked
    /\ r.route \in {"confirm", "revoke"} => r.key \in Key
    /\ \A k \in r.owed : <<r.as, k>> \in created
    /\ \A k \in r.gone : Gone(k)
    /\ r.flash \in Key => Gone(r.flash)

LEMMA KnowsStable ==
    ASSUME IInv, [Next]_vars, NEW r \in Requests, Knows(r) PROVE Knows(r)'
<1>1. asked \subseteq asked' /\ \A k \in Key : Gone(k) => Gone(k)'
  BY StepStable
<1>2. created \subseteq created'
  BY DEF Next, Ask, Call, Answer, Serve, Arrive, Abandon, Discard, Session,
         StoreStep, Wipe, vars, seen
<1>3. r.gone \subseteq Key
  BY DEF Requests
<1>. QED  BY <1>1, <1>2, <1>3 DEF Knows

\* Each tab's request and call, and what the request knows.
Matched(t) ==
    /\ request[t].at = "sent" => phase[t] = "idle"
    /\ request[t].at = "called" =>
         /\ phase[t] # "idle" /\ request[t].route \in Calling
         /\ req[t].op = Op[request[t].route] /\ req[t].owner = request[t].as
         /\ request[t].route \in {"confirm", "revoke"} => req[t].key = request[t].key
    /\ request[t].at = "answered" => phase[t] = "idle"
    /\ request[t].at # "none" => Knows(request[t])

LEMMA RequestParts == RequestInv <=> \A t \in Tab : Matched(t)
BY DEF RequestInv, Matched, Knows

LEMMA RequestPartsNext == RequestInv' <=> \A t \in Tab : Matched(t)'
BY DEF RequestInv, Matched, Knows

LEMMA MatchedStable ==
    ASSUME IInv, [Next]_vars, NEW t \in Tab,
           request'[t] = request[t], req'[t] = req[t], phase'[t] = "idle" <=> phase[t] = "idle"
    PROVE  Matched(t)'
<1>1. Matched(t)
  BY RequestParts DEF IInv
<1>2. request[t].at # "none" => Knows(request[t])'
  BY <1>1, AskedType, KnowsStable DEF Matched
<1>. QED  BY <1>1, <1>2 DEF Matched, Knows

LEMMA MatchedNow ==
    ASSUME NEW t \in Tab, NEW r, request'[t] = r, Knows(r)',
           r.at \in {"sent", "answered"} => phase'[t] = "idle",
           r.at = "called" =>
             /\ phase'[t] # "idle" /\ r.route \in Calling
             /\ req'[t].op = Op[r.route] /\ req'[t].owner = r.as
             /\ r.route \in {"confirm", "revoke"} => req'[t].key = r.key
    PROVE  Matched(t)'
BY DEF Matched, Knows, Gone, Settled

\* A request that moves on knows what it knew.
LEMMA KnowsFrom ==
    ASSUME IInv, [Next]_vars, NEW r \in Requests, Knows(r), NEW a
    PROVE  Knows([r EXCEPT !.at = a])'
<1> DEFINE q == [r EXCEPT !.at = a]
<1>1. Knows(r)'
  BY KnowsStable
<1>2. /\ q.route = r.route /\ q.as = r.as /\ q.key = r.key /\ q.owed = r.owed
      /\ q.gone = r.gone /\ q.flash = r.flash /\ q.again = r.again
  BY DEF Requests
<1>. QED  BY <1>1, <1>2 DEF Knows

LEMMA StepRequest == IInv /\ [Next]_vars => RequestInv'
<1> SUFFICES ASSUME IInv, [Next]_vars, NEW x \in Tab PROVE Matched(x)'
  BY RequestPartsNext
<1>0. Matched(x)
  BY RequestParts DEF IInv
<1>1. asked \subseteq asked' /\ \A k \in Key : Gone(k) => Gone(k)'
  BY StepStable
<1>2. ASSUME NEW t \in Tab, NEW route \in Route, NEW k \in Key \cup {None}, Ask(t, route, k)
      PROVE  Matched(x)'
  <2>1. CASE x # t
    BY <1>2, <2>1, MatchedStable DEF Ask, storeVars, IInv, TypeOK
  <2>2. CASE x = t
    <3>0. PICK r : r = Request(route, k, session, flash, gone, shown)
      OBVIOUS
    <3>1. /\ request'[t] = r /\ phase'[t] = "idle"
          /\ route \in {"confirm", "revoke"} => k \in Key
          /\ route = "revoke" => <<session, k>> \in asked'
          /\ created' = created
      BY <1>2, <3>0 DEF Ask, storeVars, IInv, TypeOK
    <3>2. r.at = "sent" /\ r.again = FALSE /\ r.route = route /\ r.key = k /\ r.as = session
          /\ r.flash = flash /\ r.owed \subseteq Owed(r.as) /\ r.gone \subseteq gone
      BY <3>0 DEF Request, IInv, SeenInv
    <3>3. (\A i \in r.gone : Gone(i)) /\ (r.flash \in Key => Gone(r.flash))
      BY <3>2 DEF IInv, SeenInv
    <3>4. r.gone \subseteq Key
      BY <3>2 DEF IInv, TypeOK
    <3>5. \A i \in r.owed : <<r.as, i>> \in created'
      BY <3>1, <3>2 DEF Owed
    <3>6. Knows(r)'
      BY <1>1, <3>1, <3>2, <3>3, <3>4, <3>5 DEF Knows
    <3>. QED  BY <2>2, <3>1, <3>2, <3>6, MatchedNow
  <2>. QED  BY <2>1, <2>2
<1>3. ASSUME NEW t \in Tab, Call(t) PROVE Matched(x)'
  <2>1. PICK k \in IF request[t].route = "create" THEN Key ELSE {request[t].key} :
          Store!Begin(t, Op[request[t].route], request[t].as, k)
    BY <1>3 DEF Call
  <2>2. /\ request[t].at = "sent" /\ request' = [request EXCEPT ![t].at = "called"]
        /\ phase' = [phase EXCEPT ![t] = "open"]
        /\ req' = [req EXCEPT ![t] = [op |-> Op[request[t].route], owner |-> request[t].as, key |-> k]]
    BY <1>3, <2>1 DEF Call, Store!Begin
  <2>3. CASE x # t
    BY <2>2, <2>3, MatchedStable DEF IInv, TypeOK
  <2>4. CASE x = t
    <3>1. PICK r \in Requests : r = request[t] /\ Knows(r)
      BY <1>0, <2>2, <2>4, AskedType DEF Matched
    <3>2. PICK q : q = [r EXCEPT !.at = "called"]
      OBVIOUS
    <3>3. Knows(q)'
      BY <3>1, <3>2, KnowsFrom
    <3>4. q.at = "called" /\ q.route = r.route /\ q.as = r.as /\ q.key = r.key
      BY <3>1, <3>2 DEF Requests
    <3>5. /\ request'[t] = q /\ phase'[t] = "open"
          /\ req'[t].op = Op[r.route] /\ req'[t].owner = r.as /\ req'[t].key = k
      BY <2>2, <3>1, <3>2 DEF IInv, TypeOK
    <3>6. r.route \in Calling /\ (r.route \in {"confirm", "revoke"} => k = r.key)
      BY <1>3, <2>1, <3>1 DEF Call
    <3>. QED  BY <2>4, <3>3, <3>4, <3>5, <3>6, MatchedNow
  <2>. QED  BY <2>3, <2>4
<1>4. ASSUME NEW t \in Tab, Answer(t) PROVE Matched(x)'
  <2>1. /\ request[t].at = "called" /\ request' = [request EXCEPT ![t].at = "answered"]
        /\ phase' = [phase EXCEPT ![t] = "idle"] /\ req' = [req EXCEPT ![t] = Store!NoRequest]
    BY <1>4 DEF Answer, Store!Return
  <2>2. CASE x # t
    BY <2>1, <2>2, MatchedStable DEF IInv, TypeOK
  <2>3. CASE x = t
    <3>1. PICK r \in Requests : r = request[t] /\ Knows(r)
      BY <1>0, <2>1, <2>3, AskedType DEF Matched
    <3>2. PICK q : q = [r EXCEPT !.at = "answered"]
      OBVIOUS
    <3>3. Knows(q)'
      BY <3>1, <3>2, KnowsFrom
    <3>4. q.at = "answered"
      BY <3>1, <3>2 DEF Requests
    <3>5. request'[t] = q /\ phase'[t] = "idle"
      BY <2>1, <3>1, <3>2 DEF IInv, TypeOK
    <3>. QED  BY <2>3, <3>3, <3>4, <3>5, MatchedNow
  <2>. QED  BY <2>2, <2>3
<1>5. ASSUME NEW t \in Tab, Arrive(t) PROVE Matched(x)'
  <2>1. CASE x # t
    BY <1>5, <2>1, MatchedStable DEF Arrive, storeVars, IInv, TypeOK
  <2>2. CASE x = t /\ answer[t].shows = "revoke" /\ session' # None
    <3>0. PICK r, k : /\ r = Request("account", None, session', flash', gone', shown')
                      /\ k = request[t].key
      OBVIOUS
    <3>1. request'[t] = r /\ phase'[t] = "idle"
      BY <1>0, <1>5, <2>2, <3>0 DEF Arrive, Followed, IInv, TypeOK, storeVars, Matched
    <3>2. r.at = "sent" /\ r.route = "account" /\ r.flash = flash' /\ r.again = shown'
          /\ r.owed \subseteq Owed(r.as)' /\ r.gone = gone'
      BY <1>5, <2>2, <3>0 DEF Arrive, Request, Calling, Owed
    <3>3. Gone(k) /\ answer[t].keys = {k} /\ k \in Key
      BY <1>5, <2>2, <3>0, AskedType DEF Arrive, IInv, AnswerInv, Gone, Settled, TypeOK
    <3>4. r.flash = k /\ r.gone = gone \cup {k} /\ r.again = FALSE
      BY <1>5, <2>2, <3>0, <3>2, <3>3 DEF Arrive, FlashAfter, IInv, SeenInv, AnswerInv
    <3>5. (\A i \in r.gone : Gone(i)) /\ Gone(r.flash)
      BY <3>3, <3>4 DEF IInv, SeenInv
    <3>6. \A i \in r.owed : <<r.as, i>> \in created'
      BY <1>5, <3>2 DEF Arrive, Owed
    <3>7. Knows(r)'
      BY <1>1, <3>2, <3>3, <3>4, <3>5, <3>6 DEF Knows, IInv, TypeOK
    <3>. QED  BY <2>2, <3>1, <3>2, <3>7, MatchedNow
  <2>3. CASE x = t /\ answer[t].shows = "logout"
    <3>0. PICK r : r = Request("page", None, session', flash', gone', shown')
      OBVIOUS
    <3>1. request'[t] = r /\ phase'[t] = "idle"
      BY <1>0, <1>5, <2>3, <3>0 DEF Arrive, Followed, IInv, TypeOK, storeVars, Matched
    <3>2. r.at = "sent" /\ r.route = "page" /\ r.flash = flash' /\ r.again = shown'
          /\ r.owed = {} /\ r.gone = {}
      BY <3>0 DEF Request, Calling
    <3>3. r.flash = SignedOut /\ r.again = FALSE
      BY <1>5, <2>3, <3>2 DEF Arrive, FlashAfter, IInv, SeenInv, AnswerInv
    <3>4. Knows(r)'
      BY <3>2, <3>3 DEF Knows
    <3>. QED  BY <2>3, <3>1, <3>2, <3>4, MatchedNow
  <2>4. CASE /\ x = t /\ answer[t].shows # "logout"
             /\ ~ (answer[t].shows = "revoke" /\ session' # None)
    BY <1>5, <2>4 DEF Arrive, Followed, IInv, TypeOK, Matched, Idle
  <2>. QED  BY <2>1, <2>2, <2>3, <2>4
<1>6. ASSUME NEW t \in Tab, Abandon(t) PROVE Matched(x)'
  <2>1. CASE x # t
    BY <1>6, <2>1, MatchedStable DEF Abandon, storeVars, IInv, TypeOK
  <2>2. CASE x = t
    BY <1>6, <2>2 DEF Abandon, IInv, TypeOK, Matched, Idle
  <2>. QED  BY <2>1, <2>2
<1>7. ASSUME NEW t \in Tab, Discard(t) PROVE Matched(x)'
  <2>1. /\ request[t].at = "none" /\ request' = request
        /\ phase' = [phase EXCEPT ![t] = "idle"] /\ req' = [req EXCEPT ![t] = Store!NoRequest]
    BY <1>7 DEF Discard, Store!Return
  <2>2. CASE x # t
    BY <2>1, <2>2, MatchedStable DEF IInv, TypeOK
  <2>3. CASE x = t
    BY <2>1, <2>3 DEF Matched
  <2>. QED  BY <2>2, <2>3
<1>8. ASSUME NEW t \in Tab, Serve(t) PROVE Matched(x)'
  <2>1. CASE x # t
    BY <1>8, <2>1, MatchedStable DEF Serve, storeVars, IInv, TypeOK
  <2>2. CASE x = t
    <3>1. PICK r \in Requests : r = request[t] /\ Knows(r)
      BY <1>0, <1>8, <2>2, AskedType DEF Serve, Matched
    <3>2. PICK q : q = [r EXCEPT !.at = "answered"]
      OBVIOUS
    <3>3. Knows(q)'
      BY <3>1, <3>2, KnowsFrom
    <3>4. q.at = "answered"
      BY <3>1, <3>2 DEF Requests
    <3>5. request'[t] = q /\ phase'[t] = "idle"
      BY <1>0, <1>8, <2>2, <3>1, <3>2 DEF Serve, storeVars, IInv, TypeOK, Matched
    <3>. QED  BY <2>2, <3>3, <3>4, <3>5, MatchedNow
  <2>. QED  BY <2>1, <2>2
<1>9. ASSUME \/ \E p \in Person \cup {None} : Session(p)
             \/ Wipe \/ UNCHANGED vars
      PROVE  Matched(x)'
  BY <1>9, MatchedStable DEF Session, Wipe, Store!Wipe, storeVars, vars
<1>10. ASSUME StoreStep PROVE Matched(x)'
  BY <1>10, MatchedStable, StoreStepFrame
<1>. QED  BY <1>2, <1>3, <1>4, <1>5, <1>6, <1>7, <1>8, <1>9, <1>10 DEF Next

\* What a request is still owed is in the store; what it was told is gone is not.
LEMMA OwedIsOwned ==
    ASSUME IInv, NEW t \in Tab, request[t].at = "called"
    PROVE  /\ StillOwed(t) \subseteq Store!Owned(req[t].owner)
           /\ \A o : Store!Owned(o) \cap request[t].gone = {}
<1>1. request[t].as \in Person /\ req[t].owner = request[t].as
  BY AskedType DEF Requests, Calling, IInv, RequestInv
<1>2. ASSUME NEW k \in StillOwed(t) PROVE k \in Store!Owned(req[t].owner)
  <2>1. k \in Key /\ <<request[t].as, k>> \in created /\ <<request[t].as, k>> \notin asked
    BY <1>2 DEF StillOwed, Owed
  <2>2. Kept(request[t].as, k)
    BY <2>1 DEF IInv, SeenInv
  <2>. QED  BY <1>1, <2>1, <2>2 DEF Kept, Store!Owned
<1>3. \A k \in request[t].gone : Gone(k)
  BY DEF IInv, RequestInv
<1>. QED  BY <1>2, <1>3 DEF Gone, Store!Owned

\* The part of FitInv about one tab.
Fits(t) ==
    request[t].at = "called" /\ phase[t] = "done" =>
      /\ reply[t].kind = "ok" /\ request[t].route = "account" =>
           StillOwed(t) \subseteq reply[t].keys /\ reply[t].keys \cap request[t].gone = {}
      /\ reply[t].kind = "ok" /\ request[t].route = "confirm" =>
           request[t].key \notin request[t].gone
      /\ reply[t].kind = "notfound" => request[t].key \notin StillOwed(t)

LEMMA FitsStable ==
    ASSUME IInv, [Next]_vars, NEW t \in Tab, request'[t] = request[t], reply'[t] = reply[t],
           phase'[t] = "done" => phase[t] = "done"
    PROVE  Fits(t)'
<1>1. Fits(t)
  BY DEF IInv, FitInv, Fits
<1>2. request[t].at # "none" => StillOwed(t)' \subseteq StillOwed(t)
  BY StillOwedShrinks
<1>. QED  BY <1>1, <1>2 DEF Fits

LEMMA StepFit == IInv /\ [Next]_vars => FitInv'
<1> SUFFICES ASSUME IInv, [Next]_vars, NEW x \in Tab PROVE Fits(x)'
  BY DEF FitInv, Fits
<1>1. ASSUME NEW t \in Tab, NEW route \in Route, NEW k \in Key \cup {None}, Ask(t, route, k)
      PROVE  Fits(x)'
  <2>1. CASE x # t
    BY <1>1, <2>1, FitsStable DEF Ask, storeVars, IInv, TypeOK
  <2>2. CASE x = t
    BY <1>1, <2>2 DEF Ask, Request, IInv, TypeOK, Fits
  <2>. QED  BY <2>1, <2>2
<1>2. ASSUME NEW t \in Tab, Call(t) PROVE Fits(x)'
  <2>1. PICK k \in IF request[t].route = "create" THEN Key ELSE {request[t].key} :
          Store!Begin(t, Op[request[t].route], request[t].as, k)
    BY <1>2 DEF Call
  <2>2. /\ request' = [request EXCEPT ![t].at = "called"] /\ reply' = reply
        /\ phase' = [phase EXCEPT ![t] = "open"]
    BY <1>2, <2>1 DEF Call, Store!Begin
  <2>3. CASE x # t
    BY <2>2, <2>3, FitsStable DEF IInv, TypeOK
  <2>4. CASE x = t
    BY <2>2, <2>4 DEF Fits, IInv, TypeOK
  <2>. QED  BY <2>3, <2>4
<1>3. ASSUME NEW t \in Tab, Answer(t) PROVE Fits(x)'
  <2>1. /\ phase' = [phase EXCEPT ![t] = "idle"] /\ reply' = [reply EXCEPT ![t] = Store!NoReply]
        /\ request' = [request EXCEPT ![t].at = "answered"]
    BY <1>3 DEF Answer, Store!Return
  <2>2. CASE x # t
    BY <2>1, <2>2, FitsStable DEF IInv, TypeOK
  <2>3. CASE x = t
    BY <2>1, <2>3 DEF Fits, IInv, TypeOK
  <2>. QED  BY <2>2, <2>3
<1>4. ASSUME NEW t \in Tab, Serve(t) \/ Arrive(t) \/ Abandon(t) PROVE Fits(x)'
  <2>1. UNCHANGED <<phase, reply>>
    BY <1>4 DEF Serve, Arrive, Abandon, storeVars
  <2>2. CASE x # t
    <3>1. request'[x] = request[x]
      BY <1>4, <2>2 DEF Serve, Arrive, Abandon, IInv, TypeOK
    <3>. QED  BY <2>1, <3>1, FitsStable
  <2>3. CASE x = t
    <3>1. CASE Serve(t)
      <4>1. request[t] \in Requests /\ request'[t] = [request[t] EXCEPT !.at = "answered"]
        BY <3>1, AskedType DEF Serve, IInv, TypeOK
      <4>2. request'[t].at = "answered"
        BY <4>1 DEF Requests
      <4>. QED  BY <2>3, <4>2 DEF Fits
    <3>2. CASE Arrive(t) \/ Abandon(t)
      <4>1. request'[t].at # "called"
        BY <3>2 DEF Arrive, Followed, Abandon, IInv, TypeOK, Idle, Request
      <4>. QED  BY <2>3, <4>1 DEF Fits
    <3>. QED  BY <1>4, <3>1, <3>2
  <2>. QED  BY <2>2, <2>3
<1>5. ASSUME NEW t \in Tab, Discard(t) PROVE Fits(x)'
  <2>1. /\ phase' = [phase EXCEPT ![t] = "idle"] /\ reply' = [reply EXCEPT ![t] = Store!NoReply]
        /\ request' = request /\ request[t].at = "none"
    BY <1>5 DEF Discard, Store!Return
  <2>2. CASE x # t
    BY <2>1, <2>2, FitsStable DEF IInv, TypeOK
  <2>3. CASE x = t
    BY <2>1, <2>3 DEF Fits
  <2>. QED  BY <2>2, <2>3
<1>6. ASSUME \/ \E p \in Person \cup {None} : Session(p)
             \/ Wipe \/ UNCHANGED vars
      PROVE  Fits(x)'
  BY <1>6, FitsStable DEF Session, Wipe, Store!Wipe, storeVars, vars
<1>7. ASSUME StoreStep PROVE Fits(x)'
  <2>1. /\ request' = request /\ UNCHANGED <<created, asked>>
        /\ StillOwed(x)' = StillOwed(x)
    BY <1>7, StoreStepFrame DEF seen, StillOwed, Owed
  <2>2. ASSUME NEW t \in Tab, \/ Store!Create(t) \/ Store!Revoke(t) \/ Store!Fail(t)
        PROVE  Fits(x)'
    <3>1. PICK r \in {Store!Reply("ok", {req[t].key}), Store!Reply("error", {})} :
            /\ phase' = [phase EXCEPT ![t] = "done"] /\ reply' = [reply EXCEPT ![t] = r]
            /\ r.kind = "ok" => req[t].op \in {"create", "revoke"}
      BY <2>2 DEF Store!Create, Store!Revoke, Store!Fail, Store!Finish, Store!Reply
    <3>2. CASE x # t
      BY <2>1, <3>1, <3>2, FitsStable DEF IInv, TypeOK
    <3>3. CASE x = t /\ request[t].at = "called"
      <4>1. req[t].op = Op[request[t].route]
        BY <3>3 DEF IInv, RequestInv
      <4>2. r.kind = "ok" => request[t].route \notin {"account", "confirm"}
        BY <3>1, <4>1 DEF Op
      <4>3. reply'[t] = r /\ r.kind # "notfound"
        BY <3>1 DEF IInv, TypeOK, Store!Reply
      <4>. QED  BY <2>1, <3>3, <4>2, <4>3 DEF Fits
    <3>4. CASE x = t /\ request[t].at # "called"
      BY <2>1, <3>4 DEF Fits
    <3>. QED  BY <3>2, <3>3, <3>4
  <2>3. ASSUME NEW t \in Tab, Store!List(t) \/ Store!Get(t) PROVE Fits(x)'
    <3>1. PICK r : /\ phase' = [phase EXCEPT ![t] = "done"] /\ reply' = [reply EXCEPT ![t] = r]
                   /\ \/ req[t].op = "list" /\ r = Store!Reply("ok", Store!Owned(req[t].owner))
                      \/ /\ req[t].op = "get" /\ r = Store!Reply("ok", {req[t].key})
                         /\ req[t].key \in Store!Owned(req[t].owner)
      BY <2>3 DEF Store!List, Store!Get, Store!Finish
    <3>2. CASE x # t
      BY <2>1, <3>1, <3>2, FitsStable DEF IInv, TypeOK
    <3>3. CASE x = t /\ request[t].at = "called"
      <4>1. /\ req[t].op = Op[request[t].route]
            /\ request[t].route = "confirm" => req[t].key = request[t].key
        BY <3>3 DEF IInv, RequestInv
      <4>2. /\ request[t].route = "account" => req[t].op = "list"
            /\ request[t].route = "confirm" => req[t].op = "get"
        BY <4>1 DEF Op
      <4>3. reply'[t] = r /\ r.kind = "ok"
        BY <3>1 DEF IInv, TypeOK, Store!Reply
      <4>4. request[t].route = "account" =>
              StillOwed(t) \subseteq r.keys /\ r.keys \cap request[t].gone = {}
        BY <3>1, <3>3, <4>2, OwedIsOwned DEF Store!Reply
      <4>5. request[t].route = "confirm" => request[t].key \notin request[t].gone
        BY <3>1, <3>3, <4>1, <4>2, OwedIsOwned
      <4>. QED  BY <2>1, <3>3, <4>3, <4>4, <4>5 DEF Fits
    <3>4. CASE x = t /\ request[t].at # "called"
      BY <2>1, <3>4 DEF Fits
    <3>. QED  BY <3>2, <3>3, <3>4
  <2>4. ASSUME NEW t \in Tab, Store!Missing(t) \/ Store!RevokeTooLate(t) PROVE Fits(x)'
    <3>1. /\ phase' = [phase EXCEPT ![t] = "done"]
          /\ reply' = [reply EXCEPT ![t] = Store!Reply("notfound", {})]
          /\ req[t].op \in {"get", "revoke"} /\ req[t].key \notin Store!Owned(req[t].owner)
      BY <2>4 DEF Store!Missing, Store!RevokeTooLate, Store!Finish, IInv, CallInv
    <3>2. CASE x # t
      BY <2>1, <3>1, <3>2, FitsStable DEF IInv, TypeOK
    <3>3. CASE x = t /\ request[t].at = "called"
      <4>1. /\ req[t].op = Op[request[t].route] /\ request[t].route \in Calling
            /\ request[t].route \in {"confirm", "revoke"} => req[t].key = request[t].key
        BY <3>3 DEF IInv, RequestInv
      <4>2. request[t].route \in {"confirm", "revoke"}
        BY <3>1, <4>1 DEF Op, Calling
      <4>3. request[t].key \notin StillOwed(t)
        BY <3>1, <3>3, <4>1, <4>2, OwedIsOwned
      <4>4. reply'[t].kind = "notfound"
        BY <3>1 DEF IInv, TypeOK, Store!Reply
      <4>. QED  BY <2>1, <3>3, <4>3, <4>4 DEF Fits
    <3>4. CASE x = t /\ request[t].at # "called"
      BY <2>1, <3>4 DEF Fits
    <3>. QED  BY <3>2, <3>3, <3>4
  <2>5. ASSUME NEW t \in Tab, Store!Authorise(t) PROVE Fits(x)'
    BY <2>1, <2>5, FitsStable DEF Store!Authorise, IInv, TypeOK
  <2>6. ASSUME NEW e \in late, Store!LateEffect(e) \/ Store!LateNever(e) PROVE Fits(x)'
    BY <2>1, <2>6, FitsStable DEF Store!LateEffect, Store!LateNever
  <2>. QED  BY <1>7, <2>2, <2>3, <2>4, <2>5, <2>6 DEF StoreStep
<1>. QED  BY <1>1, <1>2, <1>3, <1>4, <1>5, <1>6, <1>7 DEF Next

\* The part of AnswerInv about one tab, for its request r and its answer a.
Fitting(t, r, a) ==
    /\ a.says \in Key => Gone(a.says)
    /\ a.says # None => a.says = r.flash /\ a.shows \notin {"revoke", "logout"}
    /\ r.at = "answered" =>
         /\ a.shows = "account" => StillOwed(t) \subseteq a.keys
         /\ a.shows = "notfound" => r.key \notin StillOwed(t)
         /\ a.shows \in {"account", "confirm"} => a.keys \cap r.gone = {}
         /\ a.shows = "revoke" => Gone(r.key) /\ a.keys = {r.key}
         /\ a.shows = "create" => r.as \in Person /\ \A k \in a.keys : Kept(r.as, k)

LEMMA FittingNow ==
    IInv => \A t \in Tab : /\ request[t].at # "answered" => answer[t] = NoAnswer
                           /\ Fitting(t, request[t], answer[t])
BY DEF IInv, AnswerInv, Fitting

LEMMA FittingNext ==
    ASSUME \A t \in Tab : \E r, a :
             /\ request'[t] = r /\ answer'[t] = a
             /\ r.at # "answered" => a = NoAnswer
             /\ Fitting(t, r, a)'
    PROVE  AnswerInv'
<1> SUFFICES ASSUME NEW t \in Tab, NEW r, NEW a,
                    request'[t] = r, answer'[t] = a, r.at # "answered" => a = NoAnswer,
                    Fitting(t, r, a)'
             PROVE  /\ request'[t].at # "answered" => answer'[t] = NoAnswer
                    /\ answer'[t].says \in Key => Gone(answer[t].says)'
                    /\ answer'[t].says # None =>
                         /\ answer'[t].says = request'[t].flash
                         /\ answer'[t].shows \notin {"revoke", "logout"}
                    /\ request'[t].at = "answered" =>
                         /\ answer'[t].shows = "account" => StillOwed(t)' \subseteq answer'[t].keys
                         /\ answer'[t].shows = "notfound" => request'[t].key \notin StillOwed(t)'
                         /\ answer'[t].shows \in {"account", "confirm"} =>
                              answer'[t].keys \cap request'[t].gone = {}
                         /\ answer'[t].shows = "revoke" =>
                              Gone(request[t].key)' /\ answer'[t].keys = {request'[t].key}
                         /\ answer'[t].shows = "create" =>
                              /\ request'[t].as \in Person
                              /\ \A k \in answer'[t].keys : Kept(request[t].as, k)'
  BY DEF AnswerInv, NoAnswer
<1>. QED  BY DEF Fitting, Gone, Kept, Settled

LEMMA FittingStable ==
    ASSUME IInv, [Next]_vars, NEW t \in Tab, NEW r, NEW a,
           r = request[t], a = answer[t], request'[t] = r
    PROVE  Fitting(t, r, a)'
<1>1. Fitting(t, r, a) /\ (r.at # "answered" => a = NoAnswer)
  BY FittingNow
<1>2. r.at # "none" => StillOwed(t)' \subseteq StillOwed(t)
  BY StillOwedShrinks
<1>3. /\ \A k \in Key : Gone(k) => Gone(k)'
      /\ \A p \in Person, k \in Key : Kept(p, k) => Kept(p, k)'
  BY StepStable
<1>4. a.keys \subseteq Key
  BY DEF IInv, TypeOK
<1>5. r.at = "answered" => r.key \in Key \cup {None}
  BY AskedType DEF Requests
<1>6. Gone(r.key) => r.key \in Key
  BY DEF Gone, Settled, IInv, TypeOK
<1>. QED  BY <1>1, <1>2, <1>3, <1>4, <1>5, <1>6 DEF Fitting

\* What the handler makes of the reply fits the request.
LEMMA PageFits ==
    ASSUME IInv, [Next]_vars, NEW t \in Tab, Answer(t), NEW r \in Requests, NEW a,
           r = [request[t] EXCEPT !.at = "answered"], a = Page(t)
    PROVE  Fitting(t, r, a)'
<1>1. /\ request[t].at = "called" /\ phase[t] = "done" /\ request[t] \in Requests
      /\ UNCHANGED <<live, issued, late, created, asked>> /\ request'[t] = r
  BY AskedType DEF Answer, Store!Return, IInv, TypeOK, seen
<1>2. /\ r.at = "answered" /\ r.route = request[t].route /\ r.key = request[t].key
      /\ r.as = request[t].as /\ r.owed = request[t].owed /\ r.gone = request[t].gone
      /\ r.flash = request[t].flash
  BY <1>1 DEF Requests
<1>3. /\ a.shows = Shows(t)
      /\ a.says # None => a.says = r.flash /\ a.shows # "revoke"
      /\ a.shows = "account" => a.keys = reply[t].keys
      /\ a.shows = "create" => a.keys = {req[t].key}
      /\ a.shows \in {"confirm", "revoke"} => a.keys = {r.key}
  BY <1>2 DEF Page
<1>4. /\ a.shows \in Route => a.shows = r.route /\ reply[t].kind = "ok"
      /\ a.shows = "notfound" => reply[t].kind = "notfound"
  <2>1. reply[t].kind \in {"none", "ok", "notfound", "invalid", "error"}
    BY DEF IInv, TypeOK
  <2>2. request[t].route \in Route
    BY <1>1 DEF Requests
  <2>3. Shows(t) = IF reply[t].kind = "ok" THEN request[t].route ELSE reply[t].kind
    BY DEF Shows
  <2>. QED  BY <1>2, <1>3, <2>1, <2>2, <2>3 DEF Route, Calling
<1>5. StillOwed(t)' = StillOwed(t) /\ a.shows # "logout"
  <2>1. request[t].route # "logout" /\ reply[t].kind # "logout"
    BY <1>1 DEF IInv, RequestInv, Calling, TypeOK
  <2>. QED  BY <1>1, <1>2, <1>3, <2>1 DEF StillOwed, Owed, Shows
<1>6. /\ \A k \in Key : Gone(k) => Gone(k)'
      /\ \A p \in Person, k \in Key : Kept(p, k) => Kept(p, k)'
  BY StepStable
<1>7. a.says \in Key => Gone(a.says)'
  <2>1. a.says \in Key => a.says = request[t].flash
    BY <1>2, <1>3, NoneAssumption
  <2>2. request[t].flash \in Key => Gone(request[t].flash)
    BY <1>1 DEF IInv, RequestInv
  <2>. QED  BY <1>6, <2>1, <2>2
<1>8. a.shows = "account" => StillOwed(t) \subseteq a.keys /\ a.keys \cap r.gone = {}
  BY <1>1, <1>2, <1>3, <1>4 DEF IInv, FitInv, Route, Calling
<1>9. a.shows = "confirm" => a.keys \cap r.gone = {}
  BY <1>1, <1>2, <1>3, <1>4 DEF IInv, FitInv, Route, Calling
<1>10. a.shows = "notfound" => r.key \notin StillOwed(t)
  BY <1>1, <1>2, <1>4 DEF IInv, FitInv
<1>11. a.shows = "revoke" => Gone(r.key)'
  <2> SUFFICES ASSUME a.shows = "revoke" PROVE Gone(r.key)'
    OBVIOUS
  <2>1. r.route = "revoke" /\ reply[t].kind = "ok"
    BY <1>4 DEF Route, Calling
  <2>2. req[t].op = "revoke" /\ req[t].key = r.key /\ r.key \in Key
    <3>1. Op["revoke"] = "revoke"
      BY DEF Op
    <3>2. /\ req[t].op = Op[r.route]
          /\ r.route \in {"confirm", "revoke"} => req[t].key = r.key /\ r.key \in Key
      BY <1>1, <1>2 DEF IInv, RequestInv
    <3>. QED  BY <2>1, <3>1, <3>2
  <2>. QED  BY <1>1, <1>6, <2>1, <2>2 DEF IInv, ReplyInv
<1>12. a.shows = "create" => r.as \in Person /\ \A k \in a.keys : Kept(r.as, k)'
  <2> SUFFICES ASSUME a.shows = "create" PROVE r.as \in Person /\ \A k \in a.keys : Kept(r.as, k)'
    OBVIOUS
  <2>1. r.route = "create" /\ reply[t].kind = "ok"
    BY <1>4 DEF Route, Calling
  <2>2. req[t].op = "create" /\ req[t].owner = r.as
    <3>1. Op["create"] = "create"
      BY DEF Op
    <3>2. req[t].op = Op[r.route] /\ req[t].owner = r.as
      BY <1>1, <1>2 DEF IInv, RequestInv
    <3>. QED  BY <2>1, <3>1, <3>2
  <2>3. req[t].key \in Key /\ r.as \in Person
    BY <1>1, <1>2, <2>1, <2>2 DEF IInv, CallInv, Requests
  <2>. QED  BY <1>1, <1>3, <1>6, <2>1, <2>2, <2>3 DEF IInv, ReplyInv
<1>. QED  BY <1>2, <1>3, <1>5, <1>7, <1>8, <1>9, <1>10, <1>11, <1>12 DEF Fitting

LEMMA StepAnswer == IInv /\ [Next]_vars => AnswerInv'
<1> SUFFICES ASSUME IInv, [Next]_vars, NEW x \in Tab
             PROVE  \E r, a : /\ request'[x] = r /\ answer'[x] = a
                              /\ r.at # "answered" => a = NoAnswer
                              /\ Fitting(x, r, a)'
  BY FittingNext
<1> DEFINE Good == \E r, a : /\ request'[x] = r /\ answer'[x] = a
                             /\ r.at # "answered" => a = NoAnswer
                             /\ Fitting(x, r, a)'
<1>1. ASSUME request'[x] = request[x], answer'[x] = answer[x] PROVE Good
  <2>1. PICK r, a : r = request[x] /\ a = answer[x]
    OBVIOUS
  <2>2. Fitting(x, r, a)'
    BY <1>1, <2>1, FittingStable
  <2>3. r.at # "answered" => a = NoAnswer
    BY <2>1, FittingNow
  <2>. QED  BY <1>1, <2>1, <2>2, <2>3
<1>2. ASSUME request'[x].at # "answered", answer'[x] = NoAnswer PROVE Good
  <2>1. PICK r, a : r = request'[x] /\ a = NoAnswer
    OBVIOUS
  <2>2. Fitting(x, r, a)'
    BY <1>2, <2>1 DEF Fitting, NoAnswer
  <2>. QED  BY <1>2, <2>1, <2>2
<1>3. ASSUME NEW t \in Tab, NEW route \in Route, NEW k \in Key \cup {None}, Ask(t, route, k)
      PROVE  Good
  <2>1. CASE x # t
    BY <1>1, <1>3, <2>1 DEF Ask, IInv, TypeOK
  <2>2. CASE x = t
    BY <1>2, <1>3, <2>2, FittingNow DEF Ask, Request, IInv, TypeOK
  <2>. QED  BY <2>1, <2>2
<1>4. ASSUME NEW t \in Tab, Call(t) PROVE Good
  <2>1. CASE x # t
    BY <1>1, <1>4, <2>1 DEF Call, IInv, TypeOK
  <2>2. CASE x = t
    <3>1. request'[t] = [request[t] EXCEPT !.at = "called"] /\ request[t] \in Requests
          /\ answer'[t] = NoAnswer
      BY <1>4, AskedType, FittingNow DEF Call, IInv, TypeOK
    <3>2. request'[t].at = "called"
      BY <3>1 DEF Requests
    <3>. QED  BY <1>2, <2>2, <3>1, <3>2
  <2>. QED  BY <2>1, <2>2
<1>5. ASSUME NEW t \in Tab, Answer(t) PROVE Good
  <2>1. CASE x # t
    BY <1>1, <1>5, <2>1 DEF Answer, IInv, TypeOK
  <2>2. CASE x = t
    <3>1. request[t] \in Requests
      BY <1>5, AskedType DEF Answer
    <3>2. PICK r, a : r = [request[t] EXCEPT !.at = "answered"] /\ a = Page(t)
      OBVIOUS
    <3>3. r \in Requests /\ r.at = "answered"
      BY <3>1, <3>2 DEF Requests
    <3>4. Fitting(t, r, a)'
      BY <1>5, <3>2, <3>3, PageFits
    <3>5. request'[t] = r /\ answer'[t] = a
      BY <1>5, <3>2 DEF Answer, IInv, TypeOK
    <3>. QED  BY <2>2, <3>3, <3>4, <3>5
  <2>. QED  BY <2>1, <2>2
<1>6. ASSUME NEW t \in Tab, Arrive(t) \/ Abandon(t) PROVE Good
  <2>1. CASE x # t
    BY <1>1, <1>6, <2>1 DEF Arrive, Abandon, IInv, TypeOK
  <2>2. CASE x = t
    <3>1. answer'[t] = NoAnswer
      BY <1>6 DEF Arrive, Abandon, IInv, TypeOK
    <3>2. request'[t].at # "answered"
      BY <1>6 DEF Arrive, Followed, Abandon, IInv, TypeOK, Idle, Request
    <3>. QED  BY <1>2, <2>2, <3>1, <3>2
  <2>. QED  BY <2>1, <2>2
<1>7. ASSUME NEW t \in Tab, Serve(t) PROVE Good
  <2>1. CASE x # t
    BY <1>1, <1>7, <2>1 DEF Serve, IInv, TypeOK
  <2>2. CASE x = t
    <3>1. PICK r \in Requests : r = request[t]
      BY <1>7, AskedType DEF Serve
    <3>2. PICK q, a : /\ q = [r EXCEPT !.at = "answered"]
                      /\ a = [shows |-> r.route, keys |-> {},
                              says |-> IF r.route = "logout" THEN None ELSE r.flash]
      OBVIOUS
    <3>3. q.at = "answered" /\ q.flash = r.flash
      BY <3>1, <3>2 DEF Requests
    <3>4. request'[t] = q /\ answer'[t] = a /\ r.route \in {"page", "logout"}
      BY <1>7, <3>1, <3>2 DEF Serve, Route, Requests, IInv, TypeOK
    <3>5. r.flash \in Key => Gone(r.flash)'
      BY <1>7, <3>1, StepStable DEF Serve, IInv, RequestInv
    <3>6. Fitting(t, q, a)'
      BY <3>2, <3>3, <3>4, <3>5 DEF Fitting, Gone, Settled
    <3>. QED  BY <2>2, <3>3, <3>4, <3>6
  <2>. QED  BY <2>1, <2>2
<1>8. ASSUME \/ \E t \in Tab : Discard(t)
             \/ \E p \in Person \cup {None} : Session(p)
             \/ StoreStep \/ Wipe \/ UNCHANGED vars
      PROVE  Good
  <2>1. request' = request /\ answer' = answer
    BY <1>8 DEF Discard, Session, StoreStep, Wipe, vars
  <2>. QED  BY <1>1, <2>1
<1>. QED  BY <1>3, <1>4, <1>5, <1>6, <1>7, <1>8 DEF Next

LEMMA StepSeen == IInv /\ [Next]_vars => SeenInv'
<1> SUFFICES ASSUME IInv, [Next]_vars PROVE SeenInv'
  OBVIOUS
<1>1. /\ \A k \in Key : Gone(k) => Gone(k)'
      /\ \A p \in Person, k \in Key : Kept(p, k) => Kept(p, k)'
  BY StepStable
<1>2. SeenInv /\ created \subseteq Person \X Key /\ gone \subseteq Key
  BY DEF IInv, TypeOK
<1>3. ASSUME created' = created, gone' = gone, flash' = flash, shown' = FALSE
      PROVE  SeenInv'
  <2>1. PICK f : f = flash'
    OBVIOUS
  <2>2. f \in Key => Gone(f)'
    BY <1>1, <1>2, <1>3, <2>1 DEF SeenInv
  <2>3. \A x \in created' : Kept(x[1], x[2])'
    BY <1>1, <1>2, <1>3 DEF SeenInv
  <2>4. \A k \in gone' : Gone(k)'
    BY <1>1, <1>2, <1>3 DEF SeenInv
  <2>. QED  BY <1>3, <2>1, <2>2, <2>3, <2>4 DEF SeenInv, Gone, Settled
<1>4. ASSUME NEW t \in Tab, Arrive(t) PROVE SeenInv'
  <2>0. PICK r, a : r = request[t] /\ a = answer[t]
    OBVIOUS
  <2>1. r \in Requests /\ r.at = "answered" /\ Fitting(t, r, a) /\ a.keys \subseteq Key
    BY <1>4, <2>0, AskedType, FittingNow DEF Arrive, IInv, TypeOK
  <2>2. /\ a.shows = "create" => r.as \in Person /\ \A k \in a.keys : Kept(r.as, k)
        /\ a.shows = "revoke" => Gone(r.key) /\ a.keys = {r.key}
        /\ a.says # None => a.says = r.flash /\ a.shows \notin {"revoke", "logout"}
    BY <2>1 DEF Fitting
  <2>3. \A x \in created' : Kept(x[1], x[2])'
    <3> SUFFICES ASSUME NEW x \in created' PROVE Kept(x[1], x[2])'
      OBVIOUS
    <3>1. CASE x \in created
      BY <1>1, <1>2, <3>1 DEF SeenInv
    <3>2. CASE x \notin created
      <4>1. PICK k \in a.keys : x = <<r.as, k>> /\ a.shows = "create"
        BY <1>4, <2>0, <3>2 DEF Arrive
      <4>. QED  BY <1>1, <2>1, <2>2, <4>1
    <3>. QED  BY <3>1, <3>2
  <2>4. \A k \in gone' : Gone(k)'
    <3>1. gone' \subseteq gone \/ (a.shows = "revoke" /\ gone' = gone \cup a.keys)
      BY <1>4, <2>0 DEF Arrive
    <3>. QED  BY <1>1, <1>2, <2>1, <2>2, <3>1 DEF SeenInv
  <2>5. PICK f : f = flash'
    OBVIOUS
  <2>6. \/ a.shows = "revoke" /\ f = r.key
        \/ a.shows = "logout" /\ f = SignedOut
        \/ r.flash # None /\ f = None
        \/ r.flash = None /\ f = flash
    BY <1>4, <2>0, <2>5 DEF Arrive, FlashAfter
  <2>7. f \in Key => Gone(f)'
    <3>1. f \in Key => Gone(f)
      BY <1>2, <2>2, <2>6 DEF SeenInv
    <3>. QED  BY <1>1, <3>1
  <2>8. shown' = FALSE
    <3>1. shown' = (f = flash /\ a.says \in {flash} \ {None})
      BY <1>2, <1>4, <2>0, <2>5 DEF Arrive, SeenInv
    <3>. QED  BY <2>2, <2>6, <3>1
  <2>. QED  BY <2>3, <2>4, <2>5, <2>7, <2>8 DEF SeenInv, Gone, Settled
<1>5. ASSUME UNCHANGED <<cookies, created, gone, shown>> PROVE SeenInv'
  BY <1>2, <1>3, <1>5 DEF cookies, SeenInv
<1>6. ASSUME NEW p \in Person \cup {None}, Session(p) PROVE SeenInv'
  BY <1>2, <1>3, <1>6 DEF Session, seen, SeenInv
<1>. QED
  BY <1>4, <1>5, <1>6
  DEF Next, Ask, Call, Answer, Serve, Abandon, Discard, StoreStep, Wipe, vars, seen

-----------------------------------------------------------------------------
(* The theorems.                                                           *)

LEMMA InitIInv == Init => IInv
<1> SUFFICES ASSUME Init PROVE IInv
  OBVIOUS
<1> USE DEF Init, Store!Init, Store!NoRequest, Store!NoReply, Store!Reply, Idle, NoAnswer
<1>1. TypeOK
  BY DEF TypeOK
<1>2. DrawnInv /\ CallInv /\ ReplyInv
  BY DEF DrawnInv, CallInv, ReplyInv
<1>3. RequestInv /\ FitInv /\ AnswerInv
  BY DEF RequestInv, FitInv, AnswerInv
<1>4. SeenInv
  BY DEF SeenInv
<1>. QED  BY <1>1, <1>2, <1>3, <1>4 DEF IInv

\* What is said is so, in every state that can be reached.
THEOREM Inductive == Spec => []IInv
<1>1. IInv /\ [Next]_vars => IInv'
  BY StepTypeOK, StepSteady, StepCall, StepReply, StepRequest, StepFit, StepAnswer, StepSeen
  DEF IInv
<1>. QED  BY InitIInv, <1>1, PTL DEF Spec

\* A key somebody was shown stays theirs until they ask to revoke it: the
\* account page lists it and no page calls it missing (handlers.go).
THEOREM ShownKeyStays == Spec => []KeyStays
<1>1. IInv => KeyStays
  BY DEF IInv, AnswerInv, StillOwed, KeyStays
<1>. QED  BY Inductive, <1>1, PTL

\* After a response said that a key is revoked, no page asked for shows it.
THEOREM RevokedStaysGone == Spec => []GoneStays
<1>1. IInv => GoneStays
  BY DEF IInv, AnswerInv, GoneStays, NoAnswer
<1>. QED  BY Inductive, <1>1, PTL

\* While a page says that a key is revoked, the store does not hold it
\* (handlers.go and flash.go).
THEOREM MessageIsTrue == Spec => []AnnouncedIsGone
<1>1. IInv => AnnouncedIsGone
  BY DEF IInv, AnswerInv, AnnouncedIsGone, Gone
<1>. QED  BY Inductive, <1>1, PTL

\* A message is shown once, but for pages that were under way (flash.go).
THEOREM MessageOnce == Spec => []OneShot
<1>1. IInv => OneShot
  <2> SUFFICES ASSUME IInv, NEW t \in Tab, answer[t].says # None PROVE ~request[t].again
    BY DEF OneShot
  <2>1. request[t].at = "answered"
    BY DEF IInv, AnswerInv, NoAnswer
  <2>2. request[t].again = FALSE
    BY <2>1 DEF IInv, RequestInv
  <2>. QED  BY <2>2
<1>. QED  BY Inductive, <1>1, PTL
=============================================================================
