----------------------- MODULE KubernetesStoreProofs -----------------------
(***************************************************************************)
(* What holds of KubernetesStore for any number of people, keys and calls. *)
(* IInv is inductive; the safety properties follow from it, and with it    *)
(* every step is a step of KeyStore or a stutter.                          *)
(***************************************************************************)
EXTENDS KubernetesStore, Naturals, TLAPS

USE NoneAssumption, BootstrapAssumption

-----------------------------------------------------------------------------
(* Type correctness.                                                       *)

LEMMA InitTypeOK == Init => TypeOK
BY DEF Init, TypeOK, NoRequest, NoReply, Reply, Write

\* A call in flight has its key and its owner: what a write is built from.
LEMMA PendingType ==
    ASSUME TypeOK, CallInv, NEW c \in Call, pc[c] \in {"patch", "create", "repatch"}
    PROVE  /\ req[c].key \in KeyID /\ req[c].owner \in Owner
           /\ Pending(c) \in Write
<1>1. req[c].key \in KeyID /\ req[c].op # "none"
  BY DEF CallInv
<1>2. req[c].owner \in Owner
  BY <1>1 DEF TypeOK, NoRequest
<1>3. [kind |-> "create", key |-> req[c].key, owner |-> req[c].owner] \in Write
  BY <1>1, <1>2 DEF Write
<1>4. [kind |-> "remove", key |-> req[c].key, owner |-> req[c].owner] \in Write
  BY <1>1, <1>2 DEF Write
<1>5. [kind |-> "put", key |-> req[c].key, owner |-> req[c].owner] \in Write
  BY <1>1, <1>2 DEF Write
<1>. QED  BY <1>1, <1>2, <1>3, <1>4, <1>5 DEF Pending

LEMMA StepTypeOK == TypeOK /\ CallInv /\ [Next]_vars => TypeOK'
<1> SUFFICES ASSUME TypeOK, CallInv, [Next]_vars PROVE TypeOK'
  OBVIOUS
<1>0. \A c \in Call : pc[c] \in {"patch", "create", "repatch"} =>
         /\ req[c].key \in KeyID /\ req[c].owner \in Owner
         /\ Pending(c) \in Write
  BY PendingType
<1> USE DEF TypeOK, secretVars, callVars, historyVars
<1>1. ASSUME NEW c \in Call, NEW o \in Owner, StartList(c, o) PROVE TypeOK'
  BY <1>1 DEF StartList, Start, Goto, Op
<1>2. ASSUME NEW c \in Call, NEW o \in Owner, NEW k \in KeyID, StartGet(c, o, k)
      PROVE TypeOK'
  BY <1>2 DEF StartGet, Start, Goto, Op
<1>3. ASSUME NEW c \in Call, NEW o \in Owner, NEW k \in KeyID, StartRevoke(c, o, k)
      PROVE TypeOK'
  BY <1>3 DEF StartRevoke, Start, Goto, Op
<1>4. ASSUME NEW c \in Call, NEW o \in Owner, NEW k \in KeyID, StartCreate(c, o, k)
      PROVE TypeOK'
  BY <1>4 DEF StartCreate, Start, Goto, Op
<1>5. ASSUME NEW c \in Call, NEW kind \in {"notfound", "invalid", "error"}, Refuse(c, kind)
      PROVE TypeOK'
  BY <1>5 DEF Refuse, Finish, Goto, Reply
<1>6. ASSUME NEW c \in Call, ListAnswered(c) PROVE TypeOK'
  BY <1>6 DEF ListAnswered, Finish, Goto, Reply, Owned
<1>7. ASSUME NEW c \in Call, GetAnswered(c) PROVE TypeOK'
  <2>1. req[c].key \in KeyID
    BY <1>7 DEF GetAnswered, CallInv
  <2>2. PICK kind \in {"ok", "notfound"}, keys \in SUBSET KeyID : Finish(c, kind, keys)
    <3>1. {req[c].key} \in SUBSET KeyID /\ {} \in SUBSET KeyID
      BY <2>1
    <3>2. Finish(c, "ok", {req[c].key}) \/ Finish(c, "notfound", {})
      BY <1>7 DEF GetAnswered
    <3>. QED  BY <3>1, <3>2
  <2>. QED  BY <1>7, <2>2 DEF GetAnswered, Finish, Goto, Reply
<1>8. ASSUME NEW c \in Call, RevokeChecked(c) PROVE TypeOK'
  <2>0. pc[c] = "get" /\ req[c].op = "revoke"
    BY <1>8 DEF RevokeChecked
  <2>1. req[c].key \in KeyID /\ req[c].owner \in Owner
    <3>1. req[c].key \in KeyID
      BY <2>0 DEF CallInv
    <3>2. req[c] \in [op: Op, owner: Owner, key: KeyID \cup {None}]
      BY <2>0 DEF NoRequest
    <3>. QED  BY <3>1, <3>2
  <2>2. CASE Goto(c, "patch") /\ asked' = asked \cup {<<req[c].key, req[c].owner>>} /\ UNCHANGED reply
    BY <1>8, <2>1, <2>2 DEF RevokeChecked, Goto
  <2>3. CASE Finish(c, "notfound", {}) /\ UNCHANGED asked
    BY <1>8, <2>3 DEF RevokeChecked, Finish, Goto, Reply
  <2>. QED  BY <1>8, <2>2, <2>3 DEF RevokeChecked
<1>9. ASSUME NEW c \in Call, RevokePatched(c) PROVE TypeOK'
  <2>1. CASE MergeNull(req[c].key) /\ Finish(c, "ok", {req[c].key})
    BY <1>9, <1>0, <2>1 DEF RevokePatched, MergeNull, Finish, Goto, Reply
  <2>2. CASE UNCHANGED secretVars /\ Finish(c, "notfound", {})
    BY <1>9, <1>0, <2>2 DEF RevokePatched, Finish, Goto, Reply
  <2>. QED  BY <1>9, <2>1, <2>2 DEF RevokePatched
<1>10. ASSUME NEW c \in Call, CreatePatched(c) PROVE TypeOK'
  <2>1. CASE MergePut(req[c].key, req[c].owner) /\ Created(c)
    BY <1>10, <1>0, <2>1 DEF CreatePatched, Created, MergePut, Finish, Goto, Reply
  <2>2. CASE Goto(c, "create") /\ UNCHANGED <<secretVars, reply, promised>>
    BY <1>10, <2>2 DEF CreatePatched, Goto
  <2>. QED  BY <1>10, <2>1, <2>2 DEF CreatePatched
<1>11. ASSUME NEW c \in Call, CreateAnswered(c) PROVE TypeOK'
  <2>1. CASE CreateSecret(req[c].key, req[c].owner) /\ Created(c)
    BY <1>11, <1>0, <2>1 DEF CreateAnswered, Created, CreateSecret, Finish, Goto, Reply
  <2>2. CASE Goto(c, "repatch") /\ UNCHANGED <<secretVars, reply, promised>>
    BY <1>11, <2>2 DEF CreateAnswered, Goto
  <2>. QED  BY <1>11, <2>1, <2>2 DEF CreateAnswered
<1>12. ASSUME NEW c \in Call, RepatchAnswered(c) PROVE TypeOK'
  <2>1. CASE MergePut(req[c].key, req[c].owner) /\ Created(c)
    BY <1>12, <1>0, <2>1 DEF RepatchAnswered, Created, MergePut, Finish, Goto, Reply
  <2>2. CASE Finish(c, "error", {}) /\ UNCHANGED <<secretVars, promised>>
    BY <1>12, <2>2 DEF RepatchAnswered, Finish, Goto, Reply
  <2>. QED  BY <1>12, <2>1, <2>2 DEF RepatchAnswered
<1>13. ASSUME NEW c \in Call, Rejected(c) PROVE TypeOK'
  BY <1>13 DEF Rejected, Finish, Goto, Reply
<1>14. ASSUME NEW c \in Call, GiveUp(c) PROVE TypeOK'
  BY <1>14, <1>0 DEF GiveUp, Finish, Goto, Reply
<1>15. ASSUME NEW c \in Call, Return(c) PROVE TypeOK'
  BY <1>15 DEF Return, Goto, NoReply, Reply
<1>16. ASSUME NEW m \in orphans, OrphanWritten(m) PROVE TypeOK'
  BY <1>16 DEF OrphanWritten, MergePut, MergeNull, CreateSecret, Write
<1>17. ASSUME NEW m \in orphans, OrphanLost(m) PROVE TypeOK'
  BY <1>17 DEF OrphanLost
<1>18. ASSUME Reconcile PROVE TypeOK'
  BY <1>18 DEF Reconcile
<1>19. ASSUME DeleteSecret PROVE TypeOK'
  BY <1>19 DEF DeleteSecret
<1>20. ASSUME UNCHANGED vars PROVE TypeOK'
  BY <1>20 DEF vars
<1> HIDE DEF TypeOK, secretVars, callVars, historyVars
<1>. QED
  BY <1>1, <1>2, <1>3, <1>4, <1>5, <1>6, <1>7, <1>8, <1>9, <1>10, <1>11, <1>12,
     <1>13, <1>14, <1>15, <1>16, <1>17, <1>18, <1>19, <1>20
     DEF Next, Begin, Answered
-----------------------------------------------------------------------------
(* Three requests can write a new key and two kinds of orphan; all have    *)
(* the same effect, because a Secret that does not exist holds nothing.    *)

PutEffect(k, o) ==
    /\ exists' = TRUE
    /\ data' = data \cup {k}
    /\ annot' = [annot EXCEPT ![k] = o]

\* A create whose request wrote its key, and one whose request did not.
Written(c) ==
    /\ Creating(c)
    /\ PutEffect(req[c].key, req[c].owner)
    /\ Created(c)
    /\ UNCHANGED <<issued, req, orphans, asked>>
NotWritten(c) ==
    /\ Creating(c)
    /\ \/ \E l \in {"create", "repatch"} : Goto(c, l) /\ UNCHANGED reply
       \/ Finish(c, "error", {})
    /\ UNCHANGED <<secretVars, issued, req, orphans, historyVars>>

\* The same for a write whose sender has gone.
OrphanPut(m) ==
    /\ IsPut(m)
    /\ PutEffect(m.key, m.owner)
    /\ orphans' = orphans \ {m}
    /\ UNCHANGED <<issued, callVars, historyVars>>
OrphanRemove(m) ==
    /\ m.kind = "remove"
    /\ MergeNull(m.key)
    /\ orphans' = orphans \ {m}
    /\ UNCHANGED <<issued, callVars, historyVars>>

LEMMA PutEffects ==
    ASSUME IInv, NEW k \in KeyID, NEW o \in Owner, MergePut(k, o) \/ CreateSecret(k, o)
    PROVE  PutEffect(k, o)
<1>1. CASE MergePut(k, o)
  BY <1>1 DEF MergePut, PutEffect, IInv, TypeOK
<1>2. CASE CreateSecret(k, o)
  <2>1. exists' = TRUE /\ data' = data \cup {k}
    BY <1>2 DEF CreateSecret, IInv, IssuedInv
  <2>2. annot = [x \in KeyID |-> None]
    BY <1>2 DEF CreateSecret, IInv, TypeOK, IssuedInv, Paired
  <2>3. annot' = [annot EXCEPT ![k] = o]
    BY <1>2, <2>2 DEF CreateSecret
  <2>. QED  BY <2>1, <2>3 DEF PutEffect
<1>. QED  BY <1>1, <1>2

LEMMA CreateCases ==
    ASSUME IInv, NEW c \in Call,
           CreatePatched(c) \/ CreateAnswered(c) \/ RepatchAnswered(c)
    PROVE  Written(c) \/ NotWritten(c)
<1>0. pc[c] \in {"patch", "create", "repatch"}
  BY DEF CreatePatched, CreateAnswered, RepatchAnswered
<1>1. req[c].key \in KeyID /\ req[c].owner \in Owner /\ Creating(c)
  <2>1. req[c].key \in KeyID /\ req[c].owner \in Owner
    BY <1>0, PendingType DEF IInv
  <2>2. req[c].op = "create"
    BY <1>0 DEF IInv, CallInv, CreatePatched, CreateAnswered, RepatchAnswered
  <2>. QED  BY <1>0, <2>1, <2>2 DEF Creating
<1>2. CASE /\ MergePut(req[c].key, req[c].owner) \/ CreateSecret(req[c].key, req[c].owner)
           /\ Created(c)
  BY <1>1, <1>2, PutEffects DEF Written, CreatePatched, CreateAnswered, RepatchAnswered
<1>3. CASE /\ \/ \E l \in {"create", "repatch"} : Goto(c, l) /\ UNCHANGED reply
              \/ Finish(c, "error", {})
           /\ UNCHANGED <<secretVars, promised>>
  BY <1>1, <1>3
     DEF NotWritten, CreatePatched, CreateAnswered, RepatchAnswered, historyVars
<1>. QED
  BY <1>2, <1>3, Zenon DEF CreatePatched, CreateAnswered, RepatchAnswered

LEMMA OrphanCases ==
    ASSUME IInv, NEW m \in orphans, OrphanWritten(m)
    PROVE  OrphanPut(m) \/ OrphanRemove(m)
<1>1. m.key \in KeyID /\ m.owner \in Owner
  BY DEF IInv, TypeOK, Write
<1>2. CASE MergePut(m.key, m.owner) /\ m.kind = "put"
  BY <1>1, <1>2, PutEffects DEF OrphanWritten, OrphanPut, IsPut
<1>3. CASE CreateSecret(m.key, m.owner) /\ m.kind = "create"
  BY <1>1, <1>3, PutEffects DEF OrphanWritten, OrphanPut, IsPut
<1>4. CASE MergeNull(m.key) /\ m.kind = "remove"
  BY <1>4 DEF OrphanWritten, OrphanRemove
<1>. QED  BY <1>2, <1>3, <1>4 DEF OrphanWritten

\* The cases of a step, once, for all the proofs below.
LEMMA StepCases ==
    ASSUME IInv, [Next]_vars
    PROVE  \/ \E c \in Call :
                \/ \E o \in Owner :
                     \/ StartList(c, o)
                     \/ \E k \in KeyID :
                          StartGet(c, o, k) \/ StartRevoke(c, o, k) \/ StartCreate(c, o, k)
                \/ \E kind \in {"notfound", "invalid", "error"} : Refuse(c, kind)
                \/ ListAnswered(c) \/ GetAnswered(c) \/ RevokeChecked(c)
                \/ RevokePatched(c) \/ Written(c) \/ NotWritten(c)
                \/ Rejected(c) \/ GiveUp(c) \/ Return(c)
           \/ \E m \in orphans : OrphanPut(m) \/ OrphanRemove(m) \/ OrphanLost(m)
           \/ Reconcile
           \/ DeleteSecret
           \/ UNCHANGED vars
BY CreateCases, OrphanCases DEF Next, Begin, Answered

-----------------------------------------------------------------------------
(* The parts of the inductive invariant.                                   *)

\* A request in flight keeps its purpose, and its authorisation if it is a revoke.
LEMMA StepCallInv == IInv /\ TypeOK' /\ [Next]_vars => CallInv'
<1> SUFFICES ASSUME IInv, TypeOK', [Next]_vars PROVE CallInv'
  OBVIOUS
<1> USE DEF IInv, TypeOK, CallInv, Creating, secretVars, callVars, historyVars
<1>1. ASSUME NEW c \in Call, NEW o \in Owner, StartList(c, o) PROVE CallInv'
  BY <1>1 DEF StartList, Start, Goto
<1>2. ASSUME NEW c \in Call, NEW o \in Owner, NEW k \in KeyID, StartGet(c, o, k)
      PROVE CallInv'
  BY <1>2 DEF StartGet, Start, Goto
<1>3. ASSUME NEW c \in Call, NEW o \in Owner, NEW k \in KeyID, StartRevoke(c, o, k)
      PROVE CallInv'
  BY <1>3 DEF StartRevoke, Start, Goto
<1>4. ASSUME NEW c \in Call, NEW o \in Owner, NEW k \in KeyID, StartCreate(c, o, k)
      PROVE CallInv'
  BY <1>4 DEF StartCreate, Start, Goto, Fresh
<1>5. ASSUME NEW c \in Call, NEW kind \in {"notfound", "invalid", "error"}, Refuse(c, kind)
      PROVE CallInv'
  BY <1>5 DEF Refuse, Finish, Goto
<1>6. ASSUME NEW c \in Call, ListAnswered(c) PROVE CallInv'
  BY <1>6 DEF ListAnswered, Finish, Goto
<1>7. ASSUME NEW c \in Call, GetAnswered(c) PROVE CallInv'
  BY <1>7 DEF GetAnswered, Finish, Goto
<1>8. ASSUME NEW c \in Call, RevokeChecked(c) PROVE CallInv'
  BY <1>8 DEF RevokeChecked, Finish, Goto, OwnedMeta
<1>9. ASSUME NEW c \in Call, RevokePatched(c) PROVE CallInv'
  BY <1>9 DEF RevokePatched, MergeNull, Finish, Goto
<1>10. ASSUME NEW c \in Call, Written(c) PROVE CallInv'
  BY <1>10 DEF Written, Created, Finish, Goto
<1>11. ASSUME NEW c \in Call, NotWritten(c) PROVE CallInv'
  BY <1>11 DEF NotWritten, Finish, Goto
<1>12. ASSUME NEW c \in Call, Rejected(c) PROVE CallInv'
  BY <1>12 DEF Rejected, Finish, Goto
<1>13. ASSUME NEW c \in Call, GiveUp(c) PROVE CallInv'
  BY <1>13 DEF GiveUp, Finish, Goto, Pending
<1>14. ASSUME NEW c \in Call, Return(c) PROVE CallInv'
  BY <1>14 DEF Return, Goto
<1>15. ASSUME NEW m \in orphans, OrphanPut(m) PROVE CallInv'
  BY <1>15 DEF OrphanPut
<1>16. ASSUME NEW m \in orphans, OrphanRemove(m) PROVE CallInv'
  BY <1>16 DEF OrphanRemove, MergeNull
<1>17. ASSUME NEW m \in orphans, OrphanLost(m) PROVE CallInv'
  BY <1>17 DEF OrphanLost
<1>18. ASSUME Reconcile PROVE CallInv'
  BY <1>18 DEF Reconcile
<1>19. ASSUME DeleteSecret PROVE CallInv'
  BY <1>19 DEF DeleteSecret
<1>20. ASSUME UNCHANGED vars PROVE CallInv'
  BY <1>20 DEF vars
<1> HIDE DEF IInv, TypeOK, CallInv, Creating, secretVars, callVars, historyVars
<1>. QED
  BY <1>1, <1>2, <1>3, <1>4, <1>5, <1>6, <1>7, <1>8, <1>9, <1>10,
     <1>11, <1>12, <1>13, <1>14, <1>15, <1>16, <1>17, <1>18, <1>19, <1>20, StepCases

\* Only drawn keys are written, and nobody else's key takes an authorised id.
LEMMA StepIssuedInv == IInv /\ TypeOK' /\ [Next]_vars => IssuedInv'
<1> SUFFICES ASSUME IInv, TypeOK', [Next]_vars PROVE IssuedInv'
  OBVIOUS
<1> USE DEF IInv, TypeOK, Paired, CallInv, IssuedInv, PutInv, IsPut, Unwritten, Creating, PutEffect, secretVars, callVars, historyVars
<1>1. ASSUME NEW c \in Call, NEW o \in Owner, StartList(c, o) PROVE IssuedInv'
  BY <1>1 DEF StartList, Start, Goto
<1>2. ASSUME NEW c \in Call, NEW o \in Owner, NEW k \in KeyID, StartGet(c, o, k)
      PROVE IssuedInv'
  BY <1>2 DEF StartGet, Start, Goto
<1>3. ASSUME NEW c \in Call, NEW o \in Owner, NEW k \in KeyID, StartRevoke(c, o, k)
      PROVE IssuedInv'
  BY <1>3 DEF StartRevoke, Start, Goto
<1>4. ASSUME NEW c \in Call, NEW o \in Owner, NEW k \in KeyID, StartCreate(c, o, k)
      PROVE IssuedInv'
  BY <1>4 DEF StartCreate, Start, Goto, Fresh
<1>5. ASSUME NEW c \in Call, NEW kind \in {"notfound", "invalid", "error"}, Refuse(c, kind)
      PROVE IssuedInv'
  BY <1>5 DEF Refuse, Finish, Goto
<1>6. ASSUME NEW c \in Call, ListAnswered(c) PROVE IssuedInv'
  BY <1>6 DEF ListAnswered, Finish, Goto
<1>7. ASSUME NEW c \in Call, GetAnswered(c) PROVE IssuedInv'
  BY <1>7 DEF GetAnswered, Finish, Goto
<1>8. ASSUME NEW c \in Call, RevokeChecked(c) PROVE IssuedInv'
  BY <1>8 DEF RevokeChecked, Finish, Goto, OwnedMeta
<1>9. ASSUME NEW c \in Call, RevokePatched(c) PROVE IssuedInv'
  BY <1>9 DEF RevokePatched, MergeNull, Finish, Goto
<1>10. ASSUME NEW c \in Call, Written(c) PROVE IssuedInv'
  BY <1>10 DEF Written, Created, Finish, Goto
<1>11. ASSUME NEW c \in Call, NotWritten(c) PROVE IssuedInv'
  BY <1>11 DEF NotWritten, Finish, Goto
<1>12. ASSUME NEW c \in Call, Rejected(c) PROVE IssuedInv'
  BY <1>12 DEF Rejected, Finish, Goto
<1>13. ASSUME NEW c \in Call, GiveUp(c) PROVE IssuedInv'
  BY <1>13 DEF GiveUp, Finish, Goto, Pending
<1>14. ASSUME NEW c \in Call, Return(c) PROVE IssuedInv'
  BY <1>14 DEF Return, Goto
<1>15. ASSUME NEW m \in orphans, OrphanPut(m) PROVE IssuedInv'
  BY <1>15 DEF OrphanPut
<1>16. ASSUME NEW m \in orphans, OrphanRemove(m) PROVE IssuedInv'
  BY <1>16 DEF OrphanRemove, MergeNull
<1>17. ASSUME NEW m \in orphans, OrphanLost(m) PROVE IssuedInv'
  BY <1>17 DEF OrphanLost
<1>18. ASSUME Reconcile PROVE IssuedInv'
  BY <1>18 DEF Reconcile
<1>19. ASSUME DeleteSecret PROVE IssuedInv'
  BY <1>19 DEF DeleteSecret
<1>20. ASSUME UNCHANGED vars PROVE IssuedInv'
  BY <1>20 DEF vars
<1> HIDE DEF IInv, TypeOK, Paired, CallInv, IssuedInv, PutInv, IsPut, Unwritten, Creating, PutEffect, secretVars, callVars, historyVars
<1>. QED
  BY <1>1, <1>2, <1>3, <1>4, <1>5, <1>6, <1>7, <1>8, <1>9, <1>10,
     <1>11, <1>12, <1>13, <1>14, <1>15, <1>16, <1>17, <1>18, <1>19, <1>20, StepCases

\* A step that adds no write, and leaves unwritten what is still to be written.
LEMMA PutInvFewer ==
    ASSUME PutInv, orphans' \subseteq orphans,
           \A d \in Call : Creating(d)' => Creating(d) /\ req'[d].key = req[d].key,
           \A d \in Call : Creating(d)' => Unwritten(req[d].key)',
           \A m \in orphans' : IsPut(m) => Unwritten(m.key)'
    PROVE  PutInv'
BY DEF PutInv

\* At most one write is under way for each key, and none for a key that was written.
LEMMA StepPutInv == IInv /\ TypeOK' /\ [Next]_vars => PutInv'
<1> SUFFICES ASSUME IInv, TypeOK', [Next]_vars PROVE PutInv'
  OBVIOUS
<1> USE DEF IInv, TypeOK, Paired, CallInv, IssuedInv, PutInv, IsPut, Unwritten, Creating, PutEffect, secretVars, callVars, historyVars
<1>1. ASSUME NEW c \in Call, NEW o \in Owner, StartList(c, o) PROVE PutInv'
  BY <1>1 DEF StartList, Start, Goto
<1>2. ASSUME NEW c \in Call, NEW o \in Owner, NEW k \in KeyID, StartGet(c, o, k)
      PROVE PutInv'
  BY <1>2 DEF StartGet, Start, Goto
<1>3. ASSUME NEW c \in Call, NEW o \in Owner, NEW k \in KeyID, StartRevoke(c, o, k)
      PROVE PutInv'
  BY <1>3 DEF StartRevoke, Start, Goto
<1>4. ASSUME NEW c \in Call, NEW o \in Owner, NEW k \in KeyID, StartCreate(c, o, k)
      PROVE PutInv'
  BY <1>4 DEF StartCreate, Start, Goto, Fresh
<1>5. ASSUME NEW c \in Call, NEW kind \in {"notfound", "invalid", "error"}, Refuse(c, kind)
      PROVE PutInv'
  BY <1>5 DEF Refuse, Finish, Goto
<1>6. ASSUME NEW c \in Call, ListAnswered(c) PROVE PutInv'
  BY <1>6 DEF ListAnswered, Finish, Goto
<1>7. ASSUME NEW c \in Call, GetAnswered(c) PROVE PutInv'
  BY <1>7 DEF GetAnswered, Finish, Goto
<1>8. ASSUME NEW c \in Call, RevokeChecked(c) PROVE PutInv'
  <2>1. \A d \in Call : Creating(d)' => Creating(d) /\ req'[d].key = req[d].key
    BY <1>8 DEF RevokeChecked, Finish, Goto, OwnedMeta
  <2>2. \A d \in Call : Creating(d)' => Unwritten(req[d].key)'
    BY <1>8, <2>1 DEF RevokeChecked, Finish, Goto, OwnedMeta
  <2>3. \A m \in orphans' : IsPut(m) => Unwritten(m.key)'
    BY <1>8 DEF RevokeChecked, Finish, Goto, OwnedMeta
  <2>. QED  BY <1>8, <2>1, <2>2, <2>3, PutInvFewer DEF RevokeChecked, Finish, Goto, OwnedMeta
<1>9. ASSUME NEW c \in Call, RevokePatched(c) PROVE PutInv'
  <2>1. \A d \in Call : Creating(d)' => Creating(d) /\ req'[d].key = req[d].key
    BY <1>9 DEF RevokePatched, MergeNull, Finish, Goto
  <2>2. \A d \in Call : Creating(d)' => Unwritten(req[d].key)'
    BY <1>9, <2>1 DEF RevokePatched, MergeNull, Finish, Goto
  <2>3. \A m \in orphans' : IsPut(m) => Unwritten(m.key)'
    BY <1>9 DEF RevokePatched, MergeNull, Finish, Goto
  <2>. QED  BY <1>9, <2>1, <2>2, <2>3, PutInvFewer DEF RevokePatched, MergeNull, Finish, Goto
<1>10. ASSUME NEW c \in Call, Written(c) PROVE PutInv'
  <2>1. \A d \in Call : Creating(d)' => Creating(d) /\ req'[d].key = req[d].key
    BY <1>10 DEF Written, Created, Finish, Goto
  <2>2. \A d \in Call : Creating(d)' => Unwritten(req[d].key)'
    BY <1>10, <2>1 DEF Written, Created, Finish, Goto
  <2>3. \A m \in orphans' : IsPut(m) => Unwritten(m.key)'
    BY <1>10 DEF Written, Created, Finish, Goto
  <2>. QED  BY <1>10, <2>1, <2>2, <2>3, PutInvFewer DEF Written, Created, Finish, Goto
<1>11. ASSUME NEW c \in Call, NotWritten(c) PROVE PutInv'
  <2>1. \A d \in Call : Creating(d)' => Creating(d) /\ req'[d].key = req[d].key
    BY <1>11 DEF NotWritten, Finish, Goto
  <2>2. \A d \in Call : Creating(d)' => Unwritten(req[d].key)'
    BY <1>11, <2>1 DEF NotWritten, Finish, Goto
  <2>3. \A m \in orphans' : IsPut(m) => Unwritten(m.key)'
    BY <1>11 DEF NotWritten, Finish, Goto
  <2>. QED  BY <1>11, <2>1, <2>2, <2>3, PutInvFewer DEF NotWritten, Finish, Goto
<1>12. ASSUME NEW c \in Call, Rejected(c) PROVE PutInv'
  BY <1>12 DEF Rejected, Finish, Goto
<1>13. ASSUME NEW c \in Call, GiveUp(c) PROVE PutInv'
  <2>1. /\ orphans' = orphans \cup {Pending(c)} /\ ~Creating(c)'
        /\ \A d \in Call : Creating(d)' => d # c /\ Creating(d)
        /\ UNCHANGED <<req, data, issued, asked, promised>>
    BY <1>13 DEF GiveUp, Finish, Goto
  <2>2. CASE req[c].op = "create"
    <3>1. Creating(c) /\ Pending(c).key = req[c].key
      BY <1>13, <2>2 DEF GiveUp, Pending
    <3>. QED  BY <2>1, <3>1
  <2>3. CASE req[c].op # "create"
    <3>1. ~IsPut(Pending(c))
      BY <1>13, <2>3 DEF GiveUp, Pending
    <3>. QED  BY <2>1, <3>1
  <2>. QED  BY <2>2, <2>3
<1>14. ASSUME NEW c \in Call, Return(c) PROVE PutInv'
  BY <1>14 DEF Return, Goto
<1>15. ASSUME NEW m \in orphans, OrphanPut(m) PROVE PutInv'
  BY <1>15 DEF OrphanPut
<1>16. ASSUME NEW m \in orphans, OrphanRemove(m) PROVE PutInv'
  BY <1>16 DEF OrphanRemove, MergeNull
<1>17. ASSUME NEW m \in orphans, OrphanLost(m) PROVE PutInv'
  BY <1>17 DEF OrphanLost
<1>18. ASSUME Reconcile PROVE PutInv'
  BY <1>18 DEF Reconcile
<1>19. ASSUME DeleteSecret PROVE PutInv'
  BY <1>19 DEF DeleteSecret
<1>20. ASSUME UNCHANGED vars PROVE PutInv'
  BY <1>20 DEF vars
<1> HIDE DEF IInv, TypeOK, Paired, CallInv, IssuedInv, PutInv, IsPut, Unwritten, Creating, PutEffect, secretVars, callVars, historyVars
<1>. QED
  BY <1>1, <1>2, <1>3, <1>4, <1>5, <1>6, <1>7, <1>8, <1>9, <1>10,
     <1>11, <1>12, <1>13, <1>14, <1>15, <1>16, <1>17, <1>18, <1>19, <1>20, StepCases

\* Entry and annotation come and go together.
LEMMA StepPaired == IInv /\ TypeOK' /\ [Next]_vars => Paired'
<1> SUFFICES ASSUME IInv, TypeOK', [Next]_vars PROVE Paired'
  OBVIOUS
<1> USE DEF IInv, TypeOK, Paired, CallInv, IssuedInv, PutInv, IsPut, Unwritten, Creating, PutEffect, secretVars, callVars, historyVars
<1>1. ASSUME NEW c \in Call, NEW o \in Owner, StartList(c, o) PROVE Paired'
  BY <1>1 DEF StartList, Start, Goto
<1>2. ASSUME NEW c \in Call, NEW o \in Owner, NEW k \in KeyID, StartGet(c, o, k)
      PROVE Paired'
  BY <1>2 DEF StartGet, Start, Goto
<1>3. ASSUME NEW c \in Call, NEW o \in Owner, NEW k \in KeyID, StartRevoke(c, o, k)
      PROVE Paired'
  BY <1>3 DEF StartRevoke, Start, Goto
<1>4. ASSUME NEW c \in Call, NEW o \in Owner, NEW k \in KeyID, StartCreate(c, o, k)
      PROVE Paired'
  BY <1>4 DEF StartCreate, Start, Goto, Fresh
<1>5. ASSUME NEW c \in Call, NEW kind \in {"notfound", "invalid", "error"}, Refuse(c, kind)
      PROVE Paired'
  BY <1>5 DEF Refuse, Finish, Goto
<1>6. ASSUME NEW c \in Call, ListAnswered(c) PROVE Paired'
  BY <1>6 DEF ListAnswered, Finish, Goto
<1>7. ASSUME NEW c \in Call, GetAnswered(c) PROVE Paired'
  BY <1>7 DEF GetAnswered, Finish, Goto
<1>8. ASSUME NEW c \in Call, RevokeChecked(c) PROVE Paired'
  BY <1>8 DEF RevokeChecked, Finish, Goto, OwnedMeta
<1>9. ASSUME NEW c \in Call, RevokePatched(c) PROVE Paired'
  BY <1>9 DEF RevokePatched, MergeNull, Finish, Goto
<1>10. ASSUME NEW c \in Call, Written(c) PROVE Paired'
  <2>1. req[c].key \in issued \ Bootstrap /\ req[c].key \in KeyID
    BY <1>10 DEF Written
  <2>2. req[c].owner # None
    BY <1>10 DEF Written, NoRequest
  <2>. QED  BY <1>10, <2>1, <2>2 DEF Written, Created, Finish, Goto
<1>11. ASSUME NEW c \in Call, NotWritten(c) PROVE Paired'
  BY <1>11 DEF NotWritten, Finish, Goto
<1>12. ASSUME NEW c \in Call, Rejected(c) PROVE Paired'
  BY <1>12 DEF Rejected, Finish, Goto
<1>13. ASSUME NEW c \in Call, GiveUp(c) PROVE Paired'
  BY <1>13 DEF GiveUp, Finish, Goto, Pending
<1>14. ASSUME NEW c \in Call, Return(c) PROVE Paired'
  BY <1>14 DEF Return, Goto
<1>15. ASSUME NEW m \in orphans, OrphanPut(m) PROVE Paired'
  <2>1. m.key \in issued \ Bootstrap /\ m.key \in KeyID /\ m.owner # None
    BY <1>15 DEF OrphanPut, Write
  <2>. QED  BY <1>15, <2>1 DEF OrphanPut
<1>16. ASSUME NEW m \in orphans, OrphanRemove(m) PROVE Paired'
  BY <1>16 DEF OrphanRemove, MergeNull
<1>17. ASSUME NEW m \in orphans, OrphanLost(m) PROVE Paired'
  BY <1>17 DEF OrphanLost
<1>18. ASSUME Reconcile PROVE Paired'
  BY <1>18 DEF Reconcile
<1>19. ASSUME DeleteSecret PROVE Paired'
  BY <1>19 DEF DeleteSecret
<1>20. ASSUME UNCHANGED vars PROVE Paired'
  BY <1>20 DEF vars
<1> HIDE DEF IInv, TypeOK, Paired, CallInv, IssuedInv, PutInv, IsPut, Unwritten, Creating, PutEffect, secretVars, callVars, historyVars
<1>. QED
  BY <1>1, <1>2, <1>3, <1>4, <1>5, <1>6, <1>7, <1>8, <1>9, <1>10,
     <1>11, <1>12, <1>13, <1>14, <1>15, <1>16, <1>17, <1>18, <1>19, <1>20, StepCases

\* A promised key stays, or its owner asked for its removal.
LEMMA StepDurable == IInv /\ TypeOK' /\ [Next]_vars => Durable'
<1> SUFFICES ASSUME IInv, TypeOK', [Next]_vars PROVE Durable'
  OBVIOUS
<1> USE DEF IInv, TypeOK, Paired, Durable, CallInv, IssuedInv, PutInv, IsPut, Unwritten, Creating, PutEffect, secretVars, callVars, historyVars
<1>1. ASSUME NEW c \in Call, NEW o \in Owner, StartList(c, o) PROVE Durable'
  BY <1>1 DEF StartList, Start, Goto
<1>2. ASSUME NEW c \in Call, NEW o \in Owner, NEW k \in KeyID, StartGet(c, o, k)
      PROVE Durable'
  BY <1>2 DEF StartGet, Start, Goto
<1>3. ASSUME NEW c \in Call, NEW o \in Owner, NEW k \in KeyID, StartRevoke(c, o, k)
      PROVE Durable'
  BY <1>3 DEF StartRevoke, Start, Goto
<1>4. ASSUME NEW c \in Call, NEW o \in Owner, NEW k \in KeyID, StartCreate(c, o, k)
      PROVE Durable'
  BY <1>4 DEF StartCreate, Start, Goto, Fresh
<1>5. ASSUME NEW c \in Call, NEW kind \in {"notfound", "invalid", "error"}, Refuse(c, kind)
      PROVE Durable'
  BY <1>5 DEF Refuse, Finish, Goto
<1>6. ASSUME NEW c \in Call, ListAnswered(c) PROVE Durable'
  BY <1>6 DEF ListAnswered, Finish, Goto
<1>7. ASSUME NEW c \in Call, GetAnswered(c) PROVE Durable'
  BY <1>7 DEF GetAnswered, Finish, Goto
<1>8. ASSUME NEW c \in Call, RevokeChecked(c) PROVE Durable'
  BY <1>8 DEF RevokeChecked, Finish, Goto, OwnedMeta
<1>9. ASSUME NEW c \in Call, RevokePatched(c) PROVE Durable'
  <2>0. CASE UNCHANGED secretVars
    BY <1>9, <2>0 DEF RevokePatched, Finish, Goto
  <2>a. CASE MergeNull(req[c].key)
    <3> SUFFICES ASSUME NEW p \in promised, p \notin asked
                 PROVE  p[1] \in data' /\ annot'[p[1]] = p[2]
      BY <1>9, <2>a DEF RevokePatched
    <3>1. /\ p[1] \in data /\ annot[p[1]] = p[2] /\ p[2] # None
          /\ p = <<p[1], p[2]>> /\ p[1] \in KeyID
      OBVIOUS
    <3>2. <<req[c].key, req[c].owner>> \in asked /\ req[c].key \in KeyID
      BY <1>9, <2>a DEF RevokePatched, Write
    <3>3. annot[req[c].key] \in {None, req[c].owner}
      BY <3>2
    <3>4. ASSUME p[1] = req[c].key PROVE FALSE
      <4>1. p[2] = req[c].owner
        BY <3>1, <3>3, <3>4
      <4>2. p = <<req[c].key, req[c].owner>>
        BY <3>1, <3>4, <4>1
      <4>. QED  BY <3>2, <4>2
    <3>. QED  BY <1>9, <2>a, <3>1, <3>4 DEF RevokePatched, MergeNull
  <2>. QED  BY <1>9, <2>0, <2>a DEF RevokePatched
<1>10. ASSUME NEW c \in Call, Written(c) PROVE Durable'
  BY <1>10 DEF Written, Created, Finish, Goto
<1>11. ASSUME NEW c \in Call, NotWritten(c) PROVE Durable'
  BY <1>11 DEF NotWritten, Finish, Goto
<1>12. ASSUME NEW c \in Call, Rejected(c) PROVE Durable'
  BY <1>12 DEF Rejected, Finish, Goto
<1>13. ASSUME NEW c \in Call, GiveUp(c) PROVE Durable'
  BY <1>13 DEF GiveUp, Finish, Goto, Pending
<1>14. ASSUME NEW c \in Call, Return(c) PROVE Durable'
  BY <1>14 DEF Return, Goto
<1>15. ASSUME NEW m \in orphans, OrphanPut(m) PROVE Durable'
  BY <1>15 DEF OrphanPut
<1>16. ASSUME NEW m \in orphans, OrphanRemove(m) PROVE Durable'
  <2> SUFFICES ASSUME NEW p \in promised, p \notin asked
               PROVE  p[1] \in data' /\ annot'[p[1]] = p[2]
    BY <1>16 DEF OrphanRemove
  <2>1. /\ p[1] \in data /\ annot[p[1]] = p[2] /\ p[2] # None
        /\ p = <<p[1], p[2]>> /\ p[1] \in KeyID
    OBVIOUS
  <2>2. <<m.key, m.owner>> \in asked /\ m.key \in KeyID
    BY <1>16 DEF OrphanRemove, Write
  <2>3. annot[m.key] \in {None, m.owner}
    BY <2>2
  <2>4. ASSUME p[1] = m.key PROVE FALSE
    <3>1. p[2] = m.owner
      BY <2>1, <2>3, <2>4
    <3>2. p = <<m.key, m.owner>>
      BY <2>1, <2>4, <3>1
    <3>. QED  BY <2>2, <3>2
  <2>. QED  BY <1>16, <2>1, <2>4 DEF OrphanRemove, MergeNull
<1>17. ASSUME NEW m \in orphans, OrphanLost(m) PROVE Durable'
  BY <1>17 DEF OrphanLost
<1>18. ASSUME Reconcile PROVE Durable'
  BY <1>18 DEF Reconcile
<1>19. ASSUME DeleteSecret PROVE Durable'
  BY <1>19 DEF DeleteSecret
<1>20. ASSUME UNCHANGED vars PROVE Durable'
  BY <1>20 DEF vars
<1> HIDE DEF IInv, TypeOK, Paired, Durable, CallInv, IssuedInv, PutInv, IsPut, Unwritten, Creating, PutEffect, secretVars, callVars, historyVars
<1>. QED
  BY <1>1, <1>2, <1>3, <1>4, <1>5, <1>6, <1>7, <1>8, <1>9, <1>10,
     <1>11, <1>12, <1>13, <1>14, <1>15, <1>16, <1>17, <1>18, <1>19, <1>20, StepCases

-----------------------------------------------------------------------------
(* The theorems.                                                           *)

LEMMA InitIInv == Init => IInv
<1> SUFFICES ASSUME Init PROVE IInv
  OBVIOUS
<1>1. TypeOK
  BY InitTypeOK
<1>2. Paired /\ Durable
  BY DEF Init, Paired, Durable
<1>3. CallInv /\ PutInv
  BY DEF Init, CallInv, PutInv, Creating
<1>4. IssuedInv
  BY DEF Init, IssuedInv
<1>. QED  BY <1>1, <1>2, <1>3, <1>4 DEF IInv

LEMMA StepIInv == IInv /\ [Next]_vars => IInv'
BY StepTypeOK, StepCallInv, StepIssuedInv, StepPutInv, StepPaired, StepDurable DEF IInv

\* IInv holds in every reachable state of the Kubernetes keystore.
THEOREM Inductive == Spec => []IInv
BY InitIInv, StepIInv, PTL DEF Spec

\* The variables always have their types (kubernetes.go, all operations).
THEOREM TypeCorrect == Spec => []TypeOK
BY Inductive, PTL DEF IInv

\* No interleaving of upserts, first-time creations and revokes leaves a data
\* entry without its annotation, or the reverse (kubernetes.go 249-279, 331-346).
THEOREM AlwaysPaired == Spec => []Paired
BY Inductive, PTL DEF IInv

\* A key handed out is lost only to its owner's revoke (kubernetes.go 246-248).
THEOREM AlwaysDurable == Spec => []Durable
BY Inductive, PTL DEF IInv

LEMMA RemovalsAreOwn == IInv => RevokeHitsOwnKey
<1> SUFFICES ASSUME IInv, NEW m \in Removals
             PROVE  annot[m.key] \in {None, m.owner} /\ m.key \notin Bootstrap
  BY DEF RevokeHitsOwnKey
<1>1. <<m.key, m.owner>> \in asked
  <2>1. CASE m \in orphans /\ m.kind = "remove"
    BY <2>1 DEF IInv, IssuedInv, IsPut
  <2>2. CASE \E c \in Call : pc[c] = "patch" /\ req[c].op = "revoke" /\ m = Pending(c)
    BY <2>2 DEF IInv, CallInv, Pending
  <2>. QED  BY <2>1, <2>2 DEF Removals
<1>. QED  BY <1>1 DEF IInv, IssuedInv

\* Between the ownership check and the removal (kubernetes.go 318-346) the key
\* cannot become anybody else's.
THEOREM AlwaysHitsOwnKey == Spec => []RevokeHitsOwnKey
BY Inductive, RemovalsAreOwn, PTL

LEMMA StepNeverBack ==
    ASSUME IInv, [Next]_vars
    PROVE  \A k \in (data' \ data) \ Bootstrap, o \in Owner : <<k, o>> \notin asked
<1> USE DEF secretVars, callVars, historyVars
<1>1. ASSUME NEW c \in Call, Written(c)
      PROVE  \A k \in data' \ data, o \in Owner : <<k, o>> \notin asked
  BY <1>1 DEF Written, PutEffect, IInv, PutInv, Unwritten
<1>2. ASSUME NEW m \in orphans, OrphanPut(m)
      PROVE  \A k \in data' \ data, o \in Owner : <<k, o>> \notin asked
  BY <1>2 DEF OrphanPut, PutEffect, IInv, PutInv, Unwritten
<1>3. CASE Reconcile
  BY <1>3 DEF Reconcile
<1>4. CASE data' \subseteq data
  BY <1>4
<1>5. ASSUME NEW m \in orphans, OrphanRemove(m) \/ OrphanLost(m) PROVE data' \subseteq data
  BY <1>5 DEF OrphanRemove, OrphanLost, MergeNull
<1>6. ASSUME NEW c \in Call, RevokePatched(c) PROVE data' \subseteq data
  BY <1>6 DEF RevokePatched, MergeNull
<1>7. CASE DeleteSecret
  BY <1>7 DEF DeleteSecret
<1>8. ASSUME NEW c \in Call,
             \/ \E o \in Owner :
                  \/ StartList(c, o)
                  \/ \E k \in KeyID :
                       StartGet(c, o, k) \/ StartRevoke(c, o, k) \/ StartCreate(c, o, k)
             \/ \E kind \in {"notfound", "invalid", "error"} : Refuse(c, kind)
             \/ ListAnswered(c) \/ GetAnswered(c) \/ RevokeChecked(c)
             \/ NotWritten(c) \/ Rejected(c) \/ GiveUp(c) \/ Return(c)
      PROVE  data' = data
  BY <1>8 DEF StartList, StartGet, StartRevoke, StartCreate, Start, Refuse, ListAnswered,
     GetAnswered, RevokeChecked, NotWritten, Rejected, GiveUp, Return
<1>9. CASE UNCHANGED vars
  BY <1>9 DEF vars
<1> HIDE DEF secretVars, callVars, historyVars
<1>. QED
  BY <1>1, <1>2, <1>3, <1>4, <1>5, <1>6, <1>7, <1>8, <1>9, StepCases

\* A key that somebody was allowed to revoke is never written again, although
\* creates whose answer was lost may still be under way (kubernetes.go 266-279).
THEOREM RevokedForGood == Spec => NeverBack
<1>1. IInv /\ [Next]_vars =>
        [\A k \in (data' \ data) \ Bootstrap, o \in Owner : <<k, o>> \notin asked]_vars
  BY StepNeverBack
<1>. QED  BY Inductive, <1>1, PTL DEF Spec, NeverBack
-----------------------------------------------------------------------------
(* No call goes back to a request it has sent.                             *)

Stage(l) ==
    CASE l = "idle" -> 0 [] l = "get" -> 1 [] l = "patch" -> 2
      [] l = "create" -> 3 [] l = "repatch" -> 4 [] l = "done" -> 5

Advances(c) == Stage(pc[c]) < Stage(pc'[c])

LEMMA StageOrder ==
    /\ Stage("idle") = 0 /\ Stage("get") = 1 /\ Stage("patch") = 2
    /\ Stage("create") = 3 /\ Stage("repatch") = 4 /\ Stage("done") = 5
BY DEF Stage

LEMMA GoesTo ==
    ASSUME TypeOK, NEW c \in Call, NEW l, Goto(c, l)
    PROVE  pc'[c] = l /\ \A d \in Call \ {c} : pc'[d] = pc[d]
BY DEF TypeOK, Goto

\* Whatever the API server answers, and when nobody waits any more, the call is
\* further than before.
LEMMA AnswersAdvance ==
    ASSUME TypeOK, NEW c \in Call, Answered(c) \/ Rejected(c) \/ GiveUp(c) \/ Begin(c)
    PROVE  Advances(c) /\ \A d \in Call \ {c} : pc'[d] = pc[d]
<1> SUFFICES \E l \in {"get", "patch", "create", "repatch", "done"} :
               Goto(c, l) /\ Stage(pc[c]) < Stage(l)
  BY GoesTo DEF Advances
<1>1. CASE Begin(c)
  BY <1>1, StageOrder DEF Begin, StartList, StartGet, StartRevoke, StartCreate, Refuse, Start,
     Finish
<1>2. CASE Rejected(c) \/ GiveUp(c)
  BY <1>2, StageOrder DEF Rejected, GiveUp, Finish
<1>3. CASE Answered(c)
  <2>1. CASE ListAnswered(c) \/ GetAnswered(c) \/ RevokeChecked(c) \/ RevokePatched(c)
    BY <2>1, StageOrder DEF ListAnswered, GetAnswered, RevokeChecked, RevokePatched, Finish
  <2>2. CASE CreatePatched(c) \/ CreateAnswered(c) \/ RepatchAnswered(c)
    BY <2>2, StageOrder DEF CreatePatched, CreateAnswered, RepatchAnswered, Created, Finish
  <2>. QED  BY <1>3, <2>1, <2>2 DEF Answered
<1>. QED  BY <1>1, <1>2, <1>3

\* A call sends its requests one after the other and none of them twice: the reading,
\* the patch, the creation, the second patch (kubernetes.go 262-282, 318-351).  It
\* never starts over, whatever happens to the Secret in between.
THEOREM CallsGoOn ==
    Spec => [][\A c \in Call :
                 /\ Answered(c) \/ Rejected(c) \/ GiveUp(c) => Advances(c)
                 /\ pc'[c] # pc[c] => Advances(c) \/ Return(c)]_vars
<1>1. ASSUME TypeOK, [Next]_vars, ~UNCHANGED vars, NEW c \in Call
      PROVE  /\ Answered(c) \/ Rejected(c) \/ GiveUp(c) => Advances(c)
             /\ pc'[c] # pc[c] => Advances(c) \/ Return(c)
  <2>1. Answered(c) \/ Rejected(c) \/ GiveUp(c) => Advances(c)
    BY <1>1, AnswersAdvance
  <2>2. ASSUME NEW d \in Call, Begin(d) \/ Answered(d) \/ Rejected(d) \/ GiveUp(d)
        PROVE  pc'[c] # pc[c] => Advances(c)
    BY <1>1, <2>2, AnswersAdvance
  <2>3. ASSUME NEW d \in Call, Return(d)
        PROVE  pc'[c] # pc[c] => Return(c)
    BY <1>1, <2>3, GoesTo DEF Return
  <2>4. CASE (\E m \in orphans : OrphanWritten(m) \/ OrphanLost(m)) \/ Reconcile \/ DeleteSecret
    <3>1. UNCHANGED callVars
      BY <2>4 DEF OrphanWritten, OrphanLost, Reconcile, DeleteSecret
    <3>. QED  BY <2>1, <3>1 DEF callVars
  <2>. QED  BY <1>1, <2>1, <2>2, <2>3, <2>4 DEF Next
<1>2. TypeOK /\ [Next]_vars =>
        [\A c \in Call :
           /\ Answered(c) \/ Rejected(c) \/ GiveUp(c) => Advances(c)
           /\ pc'[c] # pc[c] => Advances(c) \/ Return(c)]_vars
  BY <1>1
<1>. QED  BY <1>2, TypeCorrect, PTL DEF Spec

-----------------------------------------------------------------------------
(* The refinement: every step of the store is one step of KeyStore.        *)

LEMMA InitRefines == Init => KS!Init
BY DEF Init, KS!Init, Live, Phase, Late, NoRequest, NoReply, Reply, KS!NoRequest,
   KS!NoReply, KS!Reply

\* What KeyStore says somebody owns is what ownedMeta finds in the Secret.
LEMMA SameOwned == ASSUME NEW o PROVE KS!Owned(o) = Owned(o)
BY DEF KS!Owned, Owned, OwnedMeta, Live

\* A call moves on and nothing else changes: all that KeyStore sees is its phase.
LEMMA PhaseMoves ==
    ASSUME TypeOK, NEW c \in Call, NEW l, req' = req, Goto(c, l),
           NEW p, p = (IF l \in {"idle", "done"} THEN l
                       ELSE IF l = "patch" /\ req[c].op = "revoke" THEN "authorised"
                       ELSE "open")
    PROVE  Phase' = [Phase EXCEPT ![c] = p]
BY DEF TypeOK, Goto, Phase

LEMMA Finishes ==
    ASSUME TypeOK, NEW c \in Call, NEW kind, NEW keys, req' = req, Finish(c, kind, keys)
    PROVE  KS!Finish(c, KS!Reply(kind, keys))
<1>1. Phase' = [Phase EXCEPT ![c] = "done"]
  BY PhaseMoves DEF Finish
<1>. QED  BY <1>1 DEF Finish, KS!Finish, Reply, KS!Reply

LEMMA Starts ==
    ASSUME TypeOK, NEW c \in Call, NEW op, NEW o, NEW k, NEW l,
           Start(c, op, o, k, l), l \in {"get", "patch"}, l = "get" \/ op = "create"
    PROVE  /\ Phase[c] = "idle" /\ Phase' = [Phase EXCEPT ![c] = "open"]
           /\ req' = [req EXCEPT ![c] = [op |-> op, owner |-> o, key |-> k]]
           /\ UNCHANGED <<Live, reply, Late>>
<1>1. Phase[c] = "idle" /\ UNCHANGED <<Live, reply, Late>>
  BY DEF TypeOK, Start, Phase, Live, Late, secretVars
<1>2. req' = [req EXCEPT ![c] = [op |-> op, owner |-> o, key |-> k]]
  BY DEF Start
<1>3. ASSUME NEW d \in Call PROVE Phase'[d] = [Phase EXCEPT ![c] = "open"][d]
  BY DEF TypeOK, Start, Goto, Phase
<1>4. Phase' = [Phase EXCEPT ![c] = "open"]
  BY <1>3, Zenon DEF Phase
<1>. QED  BY <1>1, <1>2, <1>4

\* The three calls that begin by reading the Secret.
LEMMA StartReads ==
    ASSUME TypeOK, NEW c \in Call, NEW op, NEW o, NEW k, Start(c, op, o, k, "get")
    PROVE  /\ Phase[c] = "idle" /\ Phase' = [Phase EXCEPT ![c] = "open"]
           /\ req' = [req EXCEPT ![c] = [op |-> op, owner |-> o, key |-> k]]
           /\ UNCHANGED <<Live, reply, Late>>
BY Starts

\* Adding, deleting and keeping an entry, seen through the mapping.
LEMMA LivePut ==
    ASSUME TypeOK, NEW k \in KeyID, NEW o \in Owner, PutEffect(k, o)
    PROVE  Live' = [Live EXCEPT ![k] = o]
BY DEF TypeOK, PutEffect, Live

LEMMA LiveRemove ==
    ASSUME TypeOK, NEW k \in KeyID, MergeNull(k)
    PROVE  Live' = [Live EXCEPT ![k] = None]
BY DEF TypeOK, MergeNull, Live

LEMMA LiveSame == UNCHANGED secretVars => UNCHANGED Live
BY DEF secretVars, Live

\* The promise an orphaned write stands for.
Promise(m) ==
    [kind |-> IF m.kind = "remove" THEN "remove" ELSE "put",
     key |-> m.key, owner |-> m.owner]

\* Two orphans never stand for the same promise, so one goes with each.
LEMMA LateRemoved ==
    ASSUME IInv, NEW m \in orphans, orphans' = orphans \ {m}
    PROVE  Promise(m) \in Late /\ Late' = Late \ {Promise(m)}
<1>1. ASSUME NEW n \in orphans, Promise(n) = Promise(m) PROVE n = m
  <2>1. m \in Write /\ n \in Write
    BY DEF IInv, TypeOK
  <2>2. n.key = m.key /\ n.owner = m.owner /\ (IsPut(n) <=> IsPut(m))
    BY <1>1, <2>1 DEF Promise, IsPut, Write
  <2>3. CASE IsPut(m)
    BY <2>2, <2>3 DEF IInv, PutInv
  <2>4. CASE ~IsPut(m)
    BY <2>1, <2>2, <2>4 DEF Write, IsPut
  <2>. QED  BY <2>3, <2>4
<1>2. Late = {Promise(n) : n \in orphans} /\ Late' = {Promise(n) : n \in orphans'}
  BY DEF Late, Promise
<1>. QED  BY <1>1, <1>2

LEMMA StepRefines ==
    ASSUME IInv, [Next]_vars
    PROVE  [KS!Next]_(KS!vars)
<1> USE DEF secretVars, callVars, historyVars
<1>t. TypeOK
  BY DEF IInv
<1>1. ASSUME NEW c \in Call, NEW o \in Owner, StartList(c, o) PROVE KS!Next
  <2>1. KS!Begin(c, "list", o, None)
    BY <1>1, <1>t, StartReads DEF StartList, KS!Begin
  <2>. QED  BY <2>1 DEF KS!Next, KS!CallStep, KS!Op
<1>2. ASSUME NEW c \in Call, NEW o \in Owner, NEW k \in KeyID, StartGet(c, o, k)
      PROVE KS!Next
  <2>1. KS!Begin(c, "get", o, k)
    BY <1>2, <1>t, StartReads DEF StartGet, KS!Begin
  <2>. QED  BY <2>1 DEF KS!Next, KS!CallStep, KS!Op
<1>3. ASSUME NEW c \in Call, NEW o \in Owner, NEW k \in KeyID, StartRevoke(c, o, k)
      PROVE KS!Next
  <2>1. Start(c, "revoke", o, k, "get") /\ issued' = issued
    BY <1>3 DEF StartRevoke
  <2>2. KS!Begin(c, "revoke", o, k)
    BY <1>t, <2>1, StartReads DEF KS!Begin
  <2>. QED  BY <2>2 DEF KS!Next, KS!CallStep, KS!Op
<1>4. ASSUME NEW c \in Call, NEW o \in Owner, NEW k \in KeyID, StartCreate(c, o, k)
      PROVE KS!Next
  <2>1. Live[k] = None /\ k \notin issued
    BY <1>4 DEF StartCreate, Fresh, Live, IInv, IssuedInv
  <2>2. KS!Begin(c, "create", o, k)
    BY <1>4, <1>t, <2>1, Starts DEF StartCreate, KS!Begin
  <2>. QED  BY <2>2 DEF KS!Next, KS!CallStep, KS!Op
<1>5. ASSUME NEW c \in Call, NEW kind \in {"notfound", "invalid", "error"}, Refuse(c, kind)
      PROVE KS!Next
  <2>1. KS!Refuse(c, kind)
    BY <1>5, <1>t, Finishes DEF Refuse, KS!Refuse, Phase, Live, Late
  <2>. QED  BY <2>1 DEF KS!Next, KS!CallStep
<1>6. ASSUME NEW c \in Call, ListAnswered(c) PROVE KS!Next
  <2>1. Finish(c, "ok", Owned(req[c].owner))
    BY <1>6 DEF ListAnswered, IInv, IssuedInv, Owned, OwnedMeta
  <2>2. /\ Phase[c] = "open" /\ req[c].op = "list" /\ req' = req
        /\ UNCHANGED <<Live, Late, issued>>
    BY <1>6 DEF ListAnswered, Phase, Live, Late
  <2>3. KS!List(c)
    BY <1>t, <2>1, <2>2, Finishes, SameOwned DEF KS!List
  <2>. QED  BY <2>3 DEF KS!Next, KS!CallStep
<1>7. ASSUME NEW c \in Call, GetAnswered(c) PROVE KS!Next
  <2>1. Phase[c] = "open" /\ req' = req /\ UNCHANGED <<Live, Late, issued>> /\ req[c].key \in KeyID
    BY <1>7 DEF GetAnswered, Phase, Live, Late, IInv, CallInv
  <2>2. \/ req[c].key \in Owned(req[c].owner) /\ Finish(c, "ok", {req[c].key})
        \/ req[c].key \notin Owned(req[c].owner) /\ Finish(c, "notfound", {})
    BY <1>7, <2>1 DEF GetAnswered, Owned, OwnedMeta, IInv, IssuedInv
  <2>3. KS!Get(c) \/ KS!Missing(c)
    BY <1>7, <1>t, <2>1, <2>2, Finishes, SameOwned DEF GetAnswered, KS!Get, KS!Missing
  <2>. QED  BY <2>3 DEF KS!Next, KS!CallStep
<1>8. ASSUME NEW c \in Call, RevokeChecked(c) PROVE KS!Next
  <2>1. Phase[c] = "open" /\ req' = req /\ UNCHANGED <<Live, Late, issued>> /\ req[c].key \in KeyID
    BY <1>8 DEF RevokeChecked, Phase, Live, Late, IInv, CallInv
  <2>2. \/ req[c].key \in Owned(req[c].owner) /\ Goto(c, "patch") /\ UNCHANGED reply
        \/ req[c].key \notin Owned(req[c].owner) /\ Finish(c, "notfound", {})
    BY <1>8, <2>1 DEF RevokeChecked, Owned, OwnedMeta, IInv, IssuedInv
  <2>3. CASE req[c].key \in Owned(req[c].owner) /\ Goto(c, "patch") /\ UNCHANGED reply
    <3>1. Phase' = [Phase EXCEPT ![c] = "authorised"]
      BY <1>8, <1>t, <2>1, <2>3, PhaseMoves DEF RevokeChecked
    <3>2. KS!Authorise(c)
      BY <1>8, <2>1, <2>3, <3>1, SameOwned DEF RevokeChecked, KS!Authorise
    <3>. QED  BY <3>2 DEF KS!Next, KS!CallStep
  <2>4. CASE req[c].key \notin Owned(req[c].owner) /\ Finish(c, "notfound", {})
    <3>1. KS!Missing(c)
      BY <1>8, <1>t, <2>1, <2>4, Finishes, SameOwned DEF RevokeChecked, KS!Missing
    <3>. QED  BY <3>1 DEF KS!Next, KS!CallStep
  <2>. QED  BY <2>2, <2>3, <2>4
<1>9. ASSUME NEW c \in Call, RevokePatched(c) PROVE KS!Next
  <2>1. /\ Phase[c] = "authorised" /\ req' = req /\ UNCHANGED <<Late, issued>>
        /\ req[c].key \in KeyID
    BY <1>9 DEF RevokePatched, Phase, Late, IInv, CallInv
  <2>2. CASE MergeNull(req[c].key) /\ Finish(c, "ok", {req[c].key})
    <3>1. KS!Revoke(c)
      BY <1>9, <1>t, <2>1, <2>2, Finishes, LiveRemove DEF RevokePatched, KS!Revoke
    <3>. QED  BY <3>1 DEF KS!Next, KS!CallStep
  <2>3. CASE ~exists /\ Finish(c, "notfound", {}) /\ UNCHANGED secretVars
    <3>1. req[c].key \notin Owned(req[c].owner)
      BY <2>3 DEF Owned, OwnedMeta, IInv, IssuedInv
    <3>2. KS!RevokeTooLate(c)
      BY <1>9, <1>t, <2>1, <2>3, <3>1, Finishes, SameOwned, LiveSame
         DEF RevokePatched, KS!RevokeTooLate
    <3>. QED  BY <3>2 DEF KS!Next, KS!CallStep
  <2>. QED  BY <1>9, <2>2, <2>3 DEF RevokePatched
<1>10. ASSUME NEW c \in Call, Written(c) PROVE KS!Next
  <2>1. /\ Phase[c] = "open" /\ req' = req /\ UNCHANGED <<Late, issued>>
        /\ req[c].key \in KeyID /\ req[c].owner \in Owner /\ req[c].op = "create"
    BY <1>10, PendingType DEF Written, Creating, Phase, Late, IInv
  <2>2. Finish(c, "ok", {req[c].key}) /\ Live' = [Live EXCEPT ![req[c].key] = req[c].owner]
    BY <1>10, <1>t, <2>1, LivePut DEF Written, Created
  <2>3. KS!Create(c)
    BY <1>10, <1>t, <2>1, <2>2, Finishes DEF KS!Create
  <2>. QED  BY <2>3 DEF KS!Next, KS!CallStep
<1>11. ASSUME NEW c \in Call, NotWritten(c) PROVE [KS!Next]_(KS!vars)
  <2>1. Phase[c] = "open" /\ req' = req /\ UNCHANGED <<Live, Late, issued>>
    BY <1>11 DEF NotWritten, Creating, Phase, Late, Live
  <2>2. ASSUME NEW l \in {"create", "repatch"}, Goto(c, l), UNCHANGED reply
        PROVE  UNCHANGED KS!vars
    <3>1. Phase' = [Phase EXCEPT ![c] = "open"]
      BY <1>t, <2>1, <2>2, PhaseMoves
    <3>2. Phase' = Phase
      BY <2>1, <3>1 DEF Phase
    <3>. QED  BY <2>1, <2>2, <3>2 DEF KS!vars
  <2>3. CASE Finish(c, "error", {})
    <3>1. KS!Fail(c)
      BY <1>t, <2>1, <2>3, Finishes DEF KS!Fail
    <3>. QED  BY <3>1 DEF KS!Next, KS!CallStep
  <2>. QED  BY <1>11, <2>2, <2>3 DEF NotWritten
<1>12. ASSUME NEW c \in Call, Rejected(c) PROVE KS!Next
  <2>1. KS!Fail(c)
    BY <1>12, <1>t, Finishes DEF Rejected, KS!Fail, Phase, Live, Late
  <2>. QED  BY <2>1 DEF KS!Next, KS!CallStep
<1>13. ASSUME NEW c \in Call, GiveUp(c) PROVE KS!Next
  <2>1. Phase[c] \in {"open", "authorised"} /\ req' = req /\ UNCHANGED <<Live, issued>>
    BY <1>13 DEF GiveUp, Phase, Live
  <2>2. Late' = Late \cup {Promise(Pending(c))}
    BY <1>13 DEF GiveUp, Late, Promise
  <2>3. KS!LeftBehind(c) = {Promise(Pending(c))}
    <3>1. CASE req[c].op = "create"
      <4>1. Promise(Pending(c)) = [kind |-> "put", key |-> req[c].key, owner |-> req[c].owner]
        BY <3>1 DEF Pending, Promise
      <4>2. Phase[c] = "open"
        BY <1>13, <3>1 DEF GiveUp, Phase
      <4>. QED  BY <3>1, <4>1, <4>2 DEF KS!LeftBehind
    <3>2. CASE pc[c] = "patch" /\ req[c].op = "revoke"
      <4>1. Promise(Pending(c)) = [kind |-> "remove", key |-> req[c].key, owner |-> req[c].owner]
        BY <3>2 DEF Pending, Promise
      <4>2. Phase[c] = "authorised"
        BY <1>13, <3>2 DEF Phase
      <4>. QED  BY <3>2, <4>1, <4>2 DEF KS!LeftBehind
    <3>. QED  BY <1>13, <3>1, <3>2 DEF GiveUp, IInv, CallInv
  <2>4. Finish(c, "error", {})
    BY <1>13 DEF GiveUp
  <2>5. KS!Fail(c)
    BY <1>t, <2>1, <2>2, <2>3, <2>4, Finishes DEF KS!Fail
  <2>. QED  BY <2>5 DEF KS!Next, KS!CallStep
<1>14. ASSUME NEW c \in Call, Return(c) PROVE KS!Next
  <2>1. Phase[c] = "done" /\ UNCHANGED <<Live, Late, issued>>
    BY <1>14 DEF Return, Phase, Live, Late
  <2>2. ASSUME NEW d \in Call PROVE Phase'[d] = [Phase EXCEPT ![c] = "idle"][d]
    BY <1>14, <1>t DEF TypeOK, Return, Goto, Phase
  <2>3. Phase' = [Phase EXCEPT ![c] = "idle"]
    BY <2>2, Zenon DEF Phase
  <2>4. KS!Return(c)
    BY <1>14, <2>1, <2>3
       DEF Return, KS!Return, NoRequest, NoReply, Reply, KS!NoRequest, KS!NoReply, KS!Reply
  <2>. QED  BY <2>4 DEF KS!Next, KS!CallStep
<1>15. ASSUME NEW m \in orphans, OrphanPut(m) PROVE KS!Next
  <2>1. m.key \in KeyID /\ m.owner \in Owner /\ Promise(m).kind = "put"
    BY <1>15 DEF IInv, TypeOK, Write, OrphanPut, IsPut, Promise
  <2>2. Live' = [Live EXCEPT ![m.key] = m.owner] /\ UNCHANGED <<Phase, issued, req, reply>>
    BY <1>15, <1>t, <2>1, LivePut DEF OrphanPut, Phase
  <2>3. KS!LateEffect(Promise(m))
    BY <1>15, <2>1, <2>2, LateRemoved DEF OrphanPut, KS!LateEffect, Promise
  <2>. QED  BY <1>15, <2>3, LateRemoved DEF OrphanPut, KS!Next
<1>16. ASSUME NEW m \in orphans, OrphanRemove(m) PROVE KS!Next
  <2>1. m.key \in KeyID /\ Promise(m).kind # "put"
    BY <1>16 DEF IInv, TypeOK, Write, OrphanRemove, Promise
  <2>2. Live' = [Live EXCEPT ![m.key] = None] /\ UNCHANGED <<Phase, issued, req, reply>>
    BY <1>16, <1>t, <2>1, LiveRemove DEF OrphanRemove, Phase
  <2>3. KS!LateEffect(Promise(m))
    BY <1>16, <2>1, <2>2, LateRemoved DEF OrphanRemove, KS!LateEffect, Promise
  <2>. QED  BY <1>16, <2>3, LateRemoved DEF OrphanRemove, KS!Next
<1>17. ASSUME NEW m \in orphans, OrphanLost(m) PROVE KS!Next
  <2>1. UNCHANGED <<Live, Phase, issued, req, reply>>
    BY <1>17, LiveSame DEF OrphanLost, Phase
  <2>2. KS!LateNever(Promise(m))
    BY <1>17, <2>1, LateRemoved DEF OrphanLost, KS!LateNever
  <2>. QED  BY <1>17, <2>2, LateRemoved DEF OrphanLost, KS!Next
<1>18. CASE Reconcile
  <2>1. \A k \in Bootstrap : annot[k] = None
    BY DEF IInv, Paired
  <2>2. Live' = Live
    BY <1>18, <2>1 DEF Reconcile, Live
  <2>. QED  BY <1>18, <2>2 DEF Reconcile, Phase, Late, KS!vars
<1>19. CASE DeleteSecret
  <2>1. Live' = [k \in KeyID |-> None]
    BY <1>19 DEF DeleteSecret, Live
  <2>2. KS!Wipe
    BY <1>19, <2>1 DEF DeleteSecret, KS!Wipe, Phase, Late
  <2>. QED  BY <2>2 DEF KS!Next
<1>20. CASE UNCHANGED vars
  BY <1>20 DEF vars, KS!vars, Live, Phase, Late
<1> HIDE DEF secretVars, callVars, historyVars
<1>. QED
  BY <1>1, <1>2, <1>3, <1>4, <1>5, <1>6, <1>7, <1>8, <1>9, <1>10, <1>11,
     <1>12, <1>13, <1>14, <1>15, <1>16, <1>17, <1>18, <1>19, <1>20, StepCases

\* The aggregate Secret implements the KeyStore interface: every call answers
\* with what was true at one moment inside it and takes effect at most once,
\* however calls, lost answers and repository reconciliations interleave.
THEOREM Refinement == Spec => RefinesKeyStore
<1>1. IInv /\ [Next]_vars => [KS!Next]_(KS!vars)
  BY StepRefines
<1>. QED  BY Inductive, InitRefines, <1>1, PTL DEF Spec, RefinesKeyStore, KS!Spec
=============================================================================
