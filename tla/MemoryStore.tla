---------------------------- MODULE MemoryStore ----------------------------
(***************************************************************************)
(* internal/keystore/memory/memory.go: the keystore for local development  *)
(* and for the handlers' tests.                                            *)
(*                                                                         *)
(* One map of records behind one RWMutex.  A call draws its identifier and *)
(* its timestamp first, waits for the lock, and does everything else       *)
(* inside one critical section, which is one action here.                  *)
(***************************************************************************)
EXTENDS Naturals

CONSTANTS
    Owner,      \* people (tenant id, object id)
    KeyID,      \* identifiers Generate may draw
    Call,       \* calls that can be in progress at the same time
    None        \* no owner, no key

ASSUME NoneAssumption == None \notin Owner \cup KeyID

VARIABLES
    records,    \* per id: the owner of its record, None without a record
    issued,     \* ids Generate has drawn
    pc,         \* per call: "idle", "lock" (waiting for mu), "done"
    req,        \* per call: operation, caller, key
    reply,      \* per call: what it returns
    wins        \* history, per id: how many revokes of it have answered ok

vars == <<records, issued, pc, req, reply, wins>>

NoRequest == [op |-> "none", owner |-> None, key |-> None]
Reply(kind, keys) == [kind |-> kind, keys |-> keys]
NoReply == Reply("none", {})
Owned(o) == {k \in KeyID : records[k] # None /\ records[k] = o}

Init ==
    /\ records = [k \in KeyID |-> None]
    /\ issued = {}
    /\ pc = [c \in Call |-> "idle"]
    /\ req = [c \in Call |-> NoRequest]
    /\ reply = [c \in Call |-> NoReply]
    /\ wins = [k \in KeyID |-> 0]

Finish(c, kind, keys) ==
    /\ pc' = [pc EXCEPT ![c] = "done"]
    /\ reply' = [reply EXCEPT ![c] = Reply(kind, keys)]
    /\ wins' = IF req[c].op = "revoke" /\ kind = "ok"
                 THEN [wins EXCEPT ![req[c].key] = @ + 1] ELSE wins

Start(c, op, o, k) ==
    /\ pc[c] = "idle"
    /\ pc' = [pc EXCEPT ![c] = "lock"]
    /\ req' = [req EXCEPT ![c] = [op |-> op, owner |-> o, key |-> k]]
    /\ UNCHANGED <<records, reply, wins>>

StartList(c, o) == Start(c, "list", o, None) /\ UNCHANGED issued
StartGet(c, o, k) == Start(c, "get", o, k) /\ UNCHANGED issued
StartRevoke(c, o, k) == Start(c, "revoke", o, k) /\ UNCHANGED issued

\* Seed draws and inserts the same way, for an owner the developer chooses.
StartCreate(c, o, k) ==
    /\ k \notin issued
    /\ issued' = issued \cup {k}
    /\ Start(c, "create", o, k)

\* No identity, an empty id, a rejected name, no random bytes.
Refuse(c, kind) ==
    /\ pc[c] = "idle"
    /\ Finish(c, kind, {})
    /\ UNCHANGED <<records, issued, req>>

ListLocked(c) ==
    /\ pc[c] = "lock" /\ req[c].op = "list"
    /\ Finish(c, "ok", Owned(req[c].owner))
    /\ UNCHANGED <<records, issued, req>>

GetLocked(c) ==
    /\ pc[c] = "lock" /\ req[c].op = "get"
    /\ IF req[c].key \in Owned(req[c].owner)
         THEN Finish(c, "ok", {req[c].key})
         ELSE Finish(c, "notfound", {})
    /\ UNCHANGED <<records, issued, req>>

CreateLocked(c) ==
    /\ pc[c] = "lock" /\ req[c].op = "create"
    /\ records' = [records EXCEPT ![req[c].key] = req[c].owner]
    /\ Finish(c, "ok", {req[c].key})
    /\ UNCHANGED <<issued, req>>

\* A plausible bug: a revoke of a key that is gone counts as done.
RevokeLockedIdempotent(c) ==
    /\ pc[c] = "lock" /\ req[c].op = "revoke"
    /\ IF records[req[c].key] \in {None, req[c].owner}
         THEN /\ records' = [records EXCEPT ![req[c].key] = None]
              /\ Finish(c, "ok", {req[c].key})
         ELSE Finish(c, "notfound", {}) /\ UNCHANGED records
    /\ UNCHANGED <<issued, req>>

\* A plausible bug: the owner is not compared.
RevokeLockedAnyOwner(c) ==
    /\ pc[c] = "lock" /\ req[c].op = "revoke"
    /\ IF records[req[c].key] # None
         THEN /\ records' = [records EXCEPT ![req[c].key] = None]
              /\ Finish(c, "ok", {req[c].key})
         ELSE Finish(c, "notfound", {}) /\ UNCHANGED records
    /\ UNCHANGED <<issued, req>>

\* Check and delete are one critical section here.
RevokeLocked(c) ==
    /\ pc[c] = "lock" /\ req[c].op = "revoke"
    /\ IF req[c].key \in Owned(req[c].owner)
         THEN /\ records' = [records EXCEPT ![req[c].key] = None]
              /\ Finish(c, "ok", {req[c].key})
         ELSE Finish(c, "notfound", {}) /\ UNCHANGED records
    /\ UNCHANGED <<issued, req>>

Return(c) ==
    /\ pc[c] = "done"
    /\ pc' = [pc EXCEPT ![c] = "idle"]
    /\ req' = [req EXCEPT ![c] = NoRequest]
    /\ reply' = [reply EXCEPT ![c] = NoReply]
    /\ UNCHANGED <<records, issued, wins>>

Begin(c) ==
    \/ \E o \in Owner :
         \/ StartList(c, o)
         \/ \E k \in KeyID :
              StartGet(c, o, k) \/ StartRevoke(c, o, k) \/ StartCreate(c, o, k)
    \/ \E kind \in {"notfound", "invalid", "error"} : Refuse(c, kind)

Locked(c) ==
    ListLocked(c) \/ GetLocked(c) \/ CreateLocked(c) \/ RevokeLocked(c)

Next == \E c \in Call : Begin(c) \/ Locked(c) \/ Return(c)

Spec == Init /\ [][Next]_vars

-----------------------------------------------------------------------------
\* Keys that a create has inserted.
Created ==
    {k \in issued : \A c \in Call :
       ~(pc[c] = "lock" /\ req[c].op = "create" /\ req[c].key = k)}

\* keystore.go: RevokeKey deletes a key, or returns ErrNotFound when there is none.
\* Of all the revokes of a key, in any order, exactly one answers ok, and
\* it is the one that removed the key: a key that is gone was revoked successfully
\* once, and one that is there never.
OneRevokeSucceeds ==
    \A k \in KeyID :
      wins[k] = IF k \in Created /\ records[k] = None THEN 1 ELSE 0

\* A call that waits for the lock is open; none is ever authorised beforehand.
Phase == [c \in Call |-> IF pc[c] = "lock" THEN "open" ELSE pc[c]]

KS == INSTANCE KeyStore WITH live <- records, phase <- Phase, late <- {}

\* The memory store keeps the promises of the interface, and "enforces the same
\* ownership rules as the Kubernetes implementation": both implement KeyStore.
RefinesKeyStore == KS!Spec
=============================================================================
