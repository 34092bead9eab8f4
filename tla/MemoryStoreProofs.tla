------------------------- MODULE MemoryStoreProofs -------------------------
(***************************************************************************)
(* The memory store implements KeyStore, for any people, keys and calls.   *)
(* The refinement needs one fact beside the types: every key with a        *)
(* record, and every key a create is about to record, has been drawn, so   *)
(* that a fresh one has no record.  That exactly one revoke of a key       *)
(* succeeds needs one more: a key some create is about to record has no    *)
(* record, and no other create waits with it, so that none comes back.     *)
(***************************************************************************)
EXTENDS MemoryStore, TLAPS

USE NoneAssumption

Operation == {"list", "get", "create", "revoke"}
Request == [op : Operation \cup {"none"}, owner : Owner \cup {None}, key : KeyID \cup {None}]
Answer == [kind : {"none", "ok", "notfound", "invalid", "error"}, keys : SUBSET KeyID]

TypeOK ==
    /\ records \in [KeyID -> Owner \cup {None}]
    /\ issued \in SUBSET KeyID
    /\ pc \in [Call -> {"idle", "lock", "done"}]
    /\ req \in [Call -> Request]
    /\ reply \in [Call -> Answer]
    /\ wins \in [KeyID -> Nat]

\* A call that waits for the lock is a call of somebody.
CallInv ==
    \A c \in Call : pc[c] = "lock" =>
      /\ req[c].op \in Operation /\ req[c].owner \in Owner
      /\ req[c].op # "list" => req[c].key \in KeyID
      /\ req[c].op = "create" => req[c].key \in issued

DrawnInv == \A k \in KeyID : records[k] # None => k \in issued

Pending(c) == pc[c] = "lock" /\ req[c].op = "create"

\* What a create is about to record is nowhere else.
PendingInv ==
    \A c \in Call : Pending(c) =>
      /\ records[req[c].key] = None
      /\ \A d \in Call : Pending(d) /\ req[d].key = req[c].key => d = c

IInv == TypeOK /\ CallInv /\ DrawnInv /\ PendingInv /\ OneRevokeSucceeds

-----------------------------------------------------------------------------
LEMMA InitIInv == Init => IInv
BY DEF Init, IInv, TypeOK, CallInv, DrawnInv, PendingInv, Pending, OneRevokeSucceeds, Created,
   NoRequest, NoReply, Reply, Request, Answer

\* Which keys were created, in terms of the creates that wait.
LEMMA CreatedIs ==
    ASSUME NEW k \in KeyID
    PROVE  k \in Created <=> k \in issued /\ \A c \in Call : ~(Pending(c) /\ req[c].key = k)
BY DEF Created, Pending

LEMMA CreatedIsThen ==
    ASSUME NEW k \in KeyID
    PROVE  k \in Created' <=>
             k \in issued' /\ \A c \in Call : ~(Pending(c)' /\ req'[c].key = k)
BY DEF Created, Pending

\* What every call does when it begins: a create draws a key nobody has.
LEMMA StartIInv ==
    ASSUME IInv, NEW c \in Call, NEW op \in Operation, NEW o \in Owner,
           NEW k \in KeyID \cup {None}, Start(c, op, o, k), op # "list" => k \in KeyID,
           IF op = "create" THEN k \notin issued /\ issued' = issued \cup {k}
                            ELSE issued' = issued
    PROVE  IInv'
<1>1. [op |-> op, owner |-> o, key |-> k] \in Request
  BY DEF Request
<1>2. TypeOK'
  BY <1>1 DEF IInv, TypeOK, Start
<1>3. CallInv'
  <2> SUFFICES ASSUME NEW d \in Call, pc'[d] = "lock"
               PROVE  /\ req'[d].op \in Operation /\ req'[d].owner \in Owner
                      /\ req'[d].op # "list" => req'[d].key \in KeyID
                      /\ req'[d].op = "create" => req'[d].key \in issued'
    BY DEF CallInv
  <2>1. CASE d = c
    BY <2>1 DEF IInv, TypeOK, Start
  <2>2. CASE d # c
    BY <2>2 DEF IInv, TypeOK, CallInv, Start
  <2>. QED  BY <2>1, <2>2
<1>4. DrawnInv'
  BY DEF IInv, DrawnInv, Start
<1>5. /\ Pending(c)' <=> op = "create"
      /\ req'[c].key = k
      /\ \A d \in Call \ {c} : (Pending(d)' <=> Pending(d)) /\ req'[d] = req[d]
      /\ ~Pending(c) /\ records' = records /\ wins' = wins
  BY DEF IInv, TypeOK, Start, Pending
<1>6. \A d \in Call : Pending(d) => req[d].key \in issued
  BY DEF IInv, CallInv, Pending
<1>7. PendingInv'
  <2>1. op = "create" => records[k] = None
    BY DEF IInv, DrawnInv
  <2>2. op = "create" => \A d \in Call : Pending(d) => req[d].key # k
    BY <1>6
  <2>3. PendingInv
    BY DEF IInv
  <2>. QED  BY <1>5, <2>1, <2>2, <2>3 DEF PendingInv
<1>8. OneRevokeSucceeds'
  <2> SUFFICES ASSUME NEW j \in KeyID
               PROVE  wins'[j] = IF j \in Created' /\ records'[j] = None THEN 1 ELSE 0
    BY DEF OneRevokeSucceeds
  <2>1. wins[j] = IF j \in Created /\ records[j] = None THEN 1 ELSE 0
    BY DEF IInv, OneRevokeSucceeds
  <2>2. j \in Created' <=> j \in Created
    <3>1. CASE op = "create" /\ j = k
      <4>1. j \notin Created
        BY <3>1, CreatedIs
      <4>2. j \notin Created'
        BY <3>1, <1>5, CreatedIsThen
      <4>. QED  BY <4>1, <4>2
    <3>2. CASE ~(op = "create" /\ j = k)
      BY <3>2, <1>5, CreatedIs, CreatedIsThen
    <3>. QED  BY <3>1, <3>2
  <2>. QED  BY <2>1, <2>2, <1>5
<1>. QED  BY <1>2, <1>3, <1>4, <1>7, <1>8 DEF IInv

\* What every call does when it ends, but for the revokes that succeed: a key gets a
\* record from the create that waits with it, and from nobody else.
LEMMA FinishIInv ==
    ASSUME IInv, NEW c \in Call, NEW kind \in {"ok", "notfound", "invalid", "error"},
           NEW keys \in SUBSET KeyID, Finish(c, kind, keys), UNCHANGED <<issued, req>>,
           ~(req[c].op = "revoke" /\ kind = "ok"),
           IF Pending(c)
             THEN records' = [records EXCEPT ![req[c].key] = req[c].owner]
             ELSE records' = records
    PROVE  IInv'
<1>1. Reply(kind, keys) \in Answer
  BY DEF Reply, Answer
<1>2. Pending(c) => req[c].key \in KeyID /\ req[c].owner \in Owner /\ req[c].key \in issued
  BY DEF IInv, CallInv, Pending
<1>3. TypeOK' /\ wins' = wins
  BY <1>1, <1>2 DEF IInv, TypeOK, Finish
<1>4. \A d \in Call : pc'[d] = "lock" <=> pc[d] = "lock" /\ d # c
  BY DEF IInv, TypeOK, Finish
<1>5. \A d \in Call : Pending(d)' <=> Pending(d) /\ d # c
  BY <1>4 DEF Pending
<1>6. CallInv'
  BY <1>4 DEF IInv, CallInv
<1>7. DrawnInv'
  BY <1>2 DEF IInv, TypeOK, DrawnInv
<1>8. PendingInv'
  <2> SUFFICES ASSUME NEW d \in Call, Pending(d), d # c
               PROVE  /\ records'[req[d].key] = None
                      /\ \A e \in Call : Pending(e) /\ req[e].key = req[d].key => e = d
    BY <1>5 DEF PendingInv
  <2>1. /\ records[req[d].key] = None
        /\ \A e \in Call : Pending(e) /\ req[e].key = req[d].key => e = d
    BY DEF IInv, PendingInv
  <2>2. Pending(c) => req[c].key # req[d].key
    BY <2>1
  <2>3. req[d].key \in KeyID
    BY DEF IInv, CallInv, Pending
  <2>4. records'[req[d].key] = records[req[d].key]
    BY <2>2, <2>3 DEF IInv, TypeOK
  <2>. QED  BY <2>1, <2>4
<1>9. OneRevokeSucceeds'
  <2> SUFFICES ASSUME NEW j \in KeyID
               PROVE  wins'[j] = IF j \in Created' /\ records'[j] = None THEN 1 ELSE 0
    BY DEF OneRevokeSucceeds
  <2>1. wins[j] = IF j \in Created /\ records[j] = None THEN 1 ELSE 0
    BY DEF IInv, OneRevokeSucceeds
  <2>2. CASE Pending(c) /\ req[c].key = j
    <3>1. j \notin Created
      BY <2>2, CreatedIs
    <3>2. records'[j] # None
      BY <2>2, <1>2, NoneAssumption DEF IInv, TypeOK
    <3>. QED  BY <2>1, <3>1, <3>2, <1>3
  <2>3. CASE ~(Pending(c) /\ req[c].key = j)
    <3>1. j \in Created' <=> j \in Created
      BY <2>3, <1>5, CreatedIs, CreatedIsThen
    <3>2. records'[j] = records[j]
      BY <2>3, <1>2 DEF IInv, TypeOK
    <3>. QED  BY <2>1, <3>1, <3>2, <1>3
  <2>. QED  BY <2>2, <2>3
<1>. QED  BY <1>3, <1>6, <1>7, <1>8, <1>9 DEF IInv

\* A revoke that succeeds is the first: its key was created, and had its record still.
LEMMA RevokedIInv ==
    ASSUME IInv, NEW c \in Call, pc[c] = "lock", req[c].op = "revoke",
           req[c].key \in Owned(req[c].owner),
           records' = [records EXCEPT ![req[c].key] = None],
           Finish(c, "ok", {req[c].key}), UNCHANGED <<issued, req>>
    PROVE  IInv'
<1> DEFINE k == req[c].key
<1>1. k \in KeyID /\ records[k] # None /\ k \in issued
  BY DEF Owned, IInv, DrawnInv
<1>2. Reply("ok", {k}) \in Answer
  BY <1>1 DEF Reply, Answer
<1>3. TypeOK' /\ wins' = [wins EXCEPT ![k] = @ + 1]
  BY <1>1, <1>2 DEF IInv, TypeOK, Finish
<1>4. \A d \in Call : pc'[d] = "lock" <=> pc[d] = "lock" /\ d # c
  BY DEF IInv, TypeOK, Finish
<1>5. \A d \in Call : Pending(d)' <=> Pending(d)
  BY <1>4 DEF Pending
<1>6. CallInv'
  BY <1>4 DEF IInv, CallInv
<1>7. DrawnInv' /\ PendingInv'
  BY <1>1, <1>5 DEF IInv, TypeOK, DrawnInv, PendingInv
<1>8. k \in Created
  BY <1>1, CreatedIs DEF IInv, PendingInv
<1>9. OneRevokeSucceeds'
  <2> SUFFICES ASSUME NEW j \in KeyID
               PROVE  wins'[j] = IF j \in Created' /\ records'[j] = None THEN 1 ELSE 0
    BY DEF OneRevokeSucceeds
  <2>1. wins[j] = IF j \in Created /\ records[j] = None THEN 1 ELSE 0
    BY DEF IInv, OneRevokeSucceeds
  <2>2. j \in Created' <=> j \in Created
    BY <1>5, CreatedIs, CreatedIsThen
  <2>3. CASE j = k
    BY <2>1, <2>2, <2>3, <1>1, <1>3, <1>8 DEF IInv, TypeOK
  <2>4. CASE j # k
    BY <2>1, <2>2, <2>4, <1>1, <1>3 DEF IInv, TypeOK
  <2>. QED  BY <2>3, <2>4
<1>. QED  BY <1>3, <1>6, <1>7, <1>9 DEF IInv

LEMMA StepIInv == IInv /\ [Next]_vars => IInv'
<1> SUFFICES ASSUME IInv, [Next]_vars PROVE IInv'
  OBVIOUS
<1>1. ASSUME NEW c \in Call, NEW o \in Owner, StartList(c, o) PROVE IInv'
  BY <1>1, StartIInv DEF StartList, Operation
<1>2. ASSUME NEW c \in Call, NEW o \in Owner, NEW k \in KeyID,
             StartGet(c, o, k) \/ StartRevoke(c, o, k) \/ StartCreate(c, o, k)
      PROVE IInv'
  BY <1>2, StartIInv DEF StartGet, StartRevoke, StartCreate, Operation
<1>3. ASSUME NEW c \in Call, NEW kind \in {"notfound", "invalid", "error"}, Refuse(c, kind)
      PROVE IInv'
  <2>1. ~Pending(c) /\ kind # "ok" /\ {} \in SUBSET KeyID
    BY <1>3 DEF Refuse, Pending
  <2>. QED  BY <1>3, <2>1, FinishIInv DEF Refuse
<1>4. ASSUME NEW c \in Call, ListLocked(c) PROVE IInv'
  <2>1. Owned(req[c].owner) \in SUBSET KeyID
    BY DEF Owned
  <2>2. ~Pending(c) /\ req[c].op # "revoke"
    BY <1>4 DEF ListLocked, Pending
  <2>. QED  BY <1>4, <2>1, <2>2, FinishIInv DEF ListLocked
<1>5. ASSUME NEW c \in Call, GetLocked(c) PROVE IInv'
  BY <1>5, FinishIInv DEF GetLocked, Owned, Pending
<1>6. ASSUME NEW c \in Call, CreateLocked(c) PROVE IInv'
  <2>1. req[c].key \in KeyID
    BY <1>6 DEF CreateLocked, IInv, CallInv
  <2>2. {req[c].key} \in SUBSET KeyID
    BY <2>1
  <2>3. /\ Finish(c, "ok", {req[c].key}) /\ UNCHANGED <<issued, req>>
        /\ Pending(c) /\ req[c].op # "revoke"
        /\ records' = [records EXCEPT ![req[c].key] = req[c].owner]
    BY <1>6 DEF CreateLocked, Pending
  <2>. QED  BY <2>2, <2>3, FinishIInv
<1>7. ASSUME NEW c \in Call, RevokeLocked(c) PROVE IInv'
  <2>1. CASE req[c].key \in Owned(req[c].owner)
    BY <1>7, <2>1, RevokedIInv DEF RevokeLocked
  <2>2. CASE req[c].key \notin Owned(req[c].owner)
    BY <1>7, <2>2, FinishIInv DEF RevokeLocked, Pending
  <2>. QED  BY <2>1, <2>2
<1>8. ASSUME NEW c \in Call, Return(c) PROVE IInv'
  <2>1. TypeOK' /\ CallInv' /\ DrawnInv'
    BY <1>8 DEF Return, IInv, TypeOK, CallInv, DrawnInv, NoRequest, NoReply, Reply, Request, Answer
  <2>2. \A d \in Call : (Pending(d)' <=> Pending(d)) /\ (Pending(d) => req'[d] = req[d])
    BY <1>8 DEF Return, IInv, TypeOK, Pending
  <2>3. PendingInv'
    BY <1>8, <2>2 DEF Return, IInv, PendingInv
  <2>4. \A k \in KeyID : k \in Created' <=> k \in Created
    BY <1>8, <2>2, CreatedIs, CreatedIsThen DEF Return
  <2>5. OneRevokeSucceeds'
    BY <1>8, <2>4 DEF Return, IInv, OneRevokeSucceeds
  <2>. QED  BY <2>1, <2>3, <2>5 DEF IInv
<1>9. CASE UNCHANGED vars
  BY <1>9 DEF vars, IInv, TypeOK, CallInv, DrawnInv, PendingInv, Pending, OneRevokeSucceeds, Created
<1>. QED  BY <1>1, <1>2, <1>3, <1>4, <1>5, <1>6, <1>7, <1>8, <1>9 DEF Next, Begin, Locked

\* Types, and that what is recorded was drawn, in every reachable state.
THEOREM Inductive == Spec => []IInv
BY InitIInv, StepIInv, PTL DEF Spec

\* Of all the revokes of a key exactly one succeeds, the one that removes it.
THEOREM OneSucceeds == Spec => []OneRevokeSucceeds
<1>1. IInv => OneRevokeSucceeds
  BY DEF IInv
<1>. QED  BY Inductive, <1>1, PTL

-----------------------------------------------------------------------------
(* The refinement: every step of the store is one step of KeyStore.        *)

LEMMA InitRefines == Init => KS!Init
BY DEF Init, KS!Init, Phase, NoRequest, NoReply, Reply, KS!NoRequest, KS!NoReply, KS!Reply

LEMMA SameOwned == ASSUME NEW o PROVE KS!Owned(o) = Owned(o)
BY DEF KS!Owned, Owned

LEMMA Starts ==
    ASSUME TypeOK, NEW c \in Call, NEW op, NEW o, NEW k, Start(c, op, o, k)
    PROVE  /\ Phase[c] = "idle" /\ Phase' = [Phase EXCEPT ![c] = "open"]
           /\ req' = [req EXCEPT ![c] = [op |-> op, owner |-> o, key |-> k]]
           /\ UNCHANGED <<records, reply>>
BY DEF TypeOK, Start, Phase

LEMMA Finishes ==
    ASSUME TypeOK, NEW c \in Call, NEW kind, NEW keys, Finish(c, kind, keys)
    PROVE  KS!Finish(c, KS!Reply(kind, keys))
BY DEF TypeOK, Finish, Phase, KS!Finish, Reply, KS!Reply

LEMMA Opens ==
    ASSUME NEW c \in Call, pc[c] = "lock"
    PROVE  Phase[c] = "open"
BY DEF Phase

LEMMA StepRefines ==
    ASSUME IInv, [Next]_vars
    PROVE  [KS!Next]_(KS!vars)
<1>t. TypeOK
  BY DEF IInv
<1>1. ASSUME NEW c \in Call, NEW o \in Owner, StartList(c, o) PROVE KS!Next
  <2>1. KS!Begin(c, "list", o, None)
    BY <1>1, <1>t, Starts DEF StartList, KS!Begin
  <2>. QED  BY <2>1 DEF KS!Next, KS!CallStep, KS!Op
<1>2. ASSUME NEW c \in Call, NEW o \in Owner, NEW k \in KeyID, StartGet(c, o, k)
      PROVE KS!Next
  <2>1. KS!Begin(c, "get", o, k)
    BY <1>2, <1>t, Starts DEF StartGet, KS!Begin
  <2>. QED  BY <2>1 DEF KS!Next, KS!CallStep, KS!Op
<1>3. ASSUME NEW c \in Call, NEW o \in Owner, NEW k \in KeyID, StartRevoke(c, o, k)
      PROVE KS!Next
  <2>1. KS!Begin(c, "revoke", o, k)
    BY <1>3, <1>t, Starts DEF StartRevoke, KS!Begin
  <2>. QED  BY <2>1 DEF KS!Next, KS!CallStep, KS!Op
<1>4. ASSUME NEW c \in Call, NEW o \in Owner, NEW k \in KeyID, StartCreate(c, o, k)
      PROVE KS!Next
  <2>1. records[k] = None /\ k \notin issued
    BY <1>4 DEF StartCreate, IInv, DrawnInv
  <2>2. KS!Begin(c, "create", o, k)
    BY <1>4, <1>t, <2>1, Starts DEF StartCreate, KS!Begin
  <2>. QED  BY <2>2 DEF KS!Next, KS!CallStep, KS!Op
<1>5. ASSUME NEW c \in Call, NEW kind \in {"notfound", "invalid", "error"}, Refuse(c, kind)
      PROVE KS!Next
  <2>1. KS!Refuse(c, kind)
    BY <1>5, <1>t, Finishes DEF Refuse, KS!Refuse, Phase
  <2>. QED  BY <2>1 DEF KS!Next, KS!CallStep
<1>6. ASSUME NEW c \in Call, ListLocked(c) PROVE KS!Next
  <2>1. KS!List(c)
    BY <1>6, <1>t, Opens, Finishes, SameOwned DEF ListLocked, KS!List
  <2>. QED  BY <2>1 DEF KS!Next, KS!CallStep
<1>7. ASSUME NEW c \in Call, GetLocked(c) PROVE KS!Next
  <2>1. KS!Get(c) \/ KS!Missing(c)
    BY <1>7, <1>t, Opens, Finishes, SameOwned DEF GetLocked, KS!Get, KS!Missing
  <2>. QED  BY <2>1 DEF KS!Next, KS!CallStep
<1>8. ASSUME NEW c \in Call, CreateLocked(c) PROVE KS!Next
  <2>1. KS!Create(c)
    BY <1>8, <1>t, Opens, Finishes DEF CreateLocked, KS!Create
  <2>. QED  BY <2>1 DEF KS!Next, KS!CallStep
<1>9. ASSUME NEW c \in Call, RevokeLocked(c) PROVE KS!Next
  <2>1. KS!Revoke(c) \/ KS!Missing(c)
    BY <1>9, <1>t, Opens, Finishes, SameOwned DEF RevokeLocked, KS!Revoke, KS!Missing
  <2>. QED  BY <2>1 DEF KS!Next, KS!CallStep
<1>10. ASSUME NEW c \in Call, Return(c) PROVE KS!Next
  <2>1. Phase[c] = "done" /\ Phase' = [Phase EXCEPT ![c] = "idle"]
    BY <1>10, <1>t DEF Return, Phase, TypeOK
  <2>2. KS!Return(c)
    BY <1>10, <2>1 DEF Return, KS!Return, NoRequest, NoReply, Reply, KS!NoRequest,
       KS!NoReply, KS!Reply
  <2>. QED  BY <2>2 DEF KS!Next, KS!CallStep
<1>11. CASE UNCHANGED vars
  BY <1>11 DEF vars, KS!vars, Phase
<1>. QED  BY <1>1, <1>2, <1>3, <1>4, <1>5, <1>6, <1>7, <1>8, <1>9, <1>10, <1>11
          DEF Next, Begin, Locked

\* The memory store implements KeyStore: what Portal shows holds over it.
THEOREM Refinement == Spec => RefinesKeyStore
<1>1. IInv /\ [Next]_vars => [KS!Next]_(KS!vars)
  BY StepRefines
<1>. QED  BY Inductive, InitRefines, <1>1, PTL DEF Spec, RefinesKeyStore, KS!Spec
=============================================================================
