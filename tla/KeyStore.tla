------------------------------ MODULE KeyStore ------------------------------
(***************************************************************************)
(* What a keystore promises its callers: internal/keystore/keystore.go,    *)
(* the KeyStore interface, read together with the two implementations.     *)
(*                                                                         *)
(* Several calls are in progress at once, each on behalf of one owner.  A  *)
(* list or a get answers with what the caller owned at ONE moment between  *)
(* the call and the answer.  A create adds one fresh key, a revoke removes *)
(* one key of the caller, each at one moment.  An error promises nothing:  *)
(* the effect the caller asked for may have happened, may happen later, at *)
(* most once, or may never happen.                                         *)
(*                                                                         *)
(* A revoke may be authorised first and take effect later, so two calls    *)
(* that revoke the same key at the same time may both succeed.             *)
(***************************************************************************)

CONSTANTS
    Owner,      \* the signed-in people (tenant id, object id)
    KeyID,      \* the identifiers Generate may draw
    Call,       \* the calls that can be in progress at the same time
    None        \* an empty owner, a missing key

VARIABLES
    live,       \* who owns each key, None when there is no such key
    issued,     \* identifiers that have been drawn, never drawn again
    phase,      \* per call: "idle", "open", "authorised", "done"
    req,        \* per call: what was asked
    reply,      \* per call: the answer, once it is done
    late        \* effects of failed calls that may still happen

vars == <<live, issued, phase, req, reply, late>>

Op == {"list", "get", "create", "revoke"}
NoRequest == [op |-> "none", owner |-> None, key |-> None]
Reply(kind, keys) == [kind |-> kind, keys |-> keys]
NoReply == Reply("none", {})

\* The keys o owns.  An empty owner owns nothing.
Owned(o) == {k \in KeyID : live[k] # None /\ live[k] = o}

Init ==
    /\ live = [k \in KeyID |-> None]
    /\ issued = {}
    /\ phase = [c \in Call |-> "idle"]
    /\ req = [c \in Call |-> NoRequest]
    /\ reply = [c \in Call |-> NoReply]
    /\ late = {}

Finish(c, r) ==
    /\ phase' = [phase EXCEPT ![c] = "done"]
    /\ reply' = [reply EXCEPT ![c] = r]

\* A call begins.  A create draws its identifier, which nobody had before.
Begin(c, op, o, k) ==
    /\ phase[c] = "idle"
    /\ IF op = "list" THEN k = None ELSE k \in KeyID
    /\ phase' = [phase EXCEPT ![c] = "open"]
    /\ req' = [req EXCEPT ![c] = [op |-> op, owner |-> o, key |-> k]]
    /\ IF op = "create"
         THEN k \notin issued /\ live[k] = None /\ issued' = issued \cup {k}
         ELSE issued' = issued
    /\ UNCHANGED <<live, reply, late>>

\* A call is refused before anything is looked at: the caller has no identity,
\* the key name or the identifier is malformed, or the random source failed.
Refuse(c, kind) ==
    /\ phase[c] = "idle"
    /\ kind \in {"notfound", "invalid", "error"}
    /\ Finish(c, Reply(kind, {}))
    /\ UNCHANGED <<live, issued, req, late>>

\* List: exactly the caller's keys.
List(c) ==
    /\ phase[c] = "open" /\ req[c].op = "list"
    /\ Finish(c, Reply("ok", Owned(req[c].owner)))
    /\ UNCHANGED <<live, issued, req, late>>

\* Get: the key, when the caller owns it.
Get(c) ==
    /\ phase[c] = "open" /\ req[c].op = "get"
    /\ req[c].key \in Owned(req[c].owner)
    /\ Finish(c, Reply("ok", {req[c].key}))
    /\ UNCHANGED <<live, issued, req, late>>

\* Somebody else's key and a missing key are the same answer.
Missing(c) ==
    /\ phase[c] = "open" /\ req[c].op \in {"get", "revoke"}
    /\ req[c].key \notin Owned(req[c].owner)
    /\ Finish(c, Reply("notfound", {}))
    /\ UNCHANGED <<live, issued, req, late>>

Create(c) ==
    /\ phase[c] = "open" /\ req[c].op = "create"
    /\ live' = [live EXCEPT ![req[c].key] = req[c].owner]
    /\ Finish(c, Reply("ok", {req[c].key}))
    /\ UNCHANGED <<issued, req, late>>

\* The caller owns the key at this moment: the revoke may go ahead.
Authorise(c) ==
    /\ phase[c] = "open" /\ req[c].op = "revoke"
    /\ req[c].key \in Owned(req[c].owner)
    /\ phase' = [phase EXCEPT ![c] = "authorised"]
    /\ UNCHANGED <<live, issued, req, reply, late>>

Revoke(c) ==
    /\ req[c].op = "revoke"
    /\ \/ phase[c] = "authorised"
       \/ phase[c] = "open" /\ req[c].key \in Owned(req[c].owner)
    /\ live' = [live EXCEPT ![req[c].key] = None]
    /\ Finish(c, Reply("ok", {req[c].key}))
    /\ UNCHANGED <<issued, req, late>>

\* An authorised revoke finds that everything is gone.
RevokeTooLate(c) ==
    /\ phase[c] = "authorised"
    /\ req[c].key \notin Owned(req[c].owner)
    /\ Finish(c, Reply("notfound", {}))
    /\ UNCHANGED <<live, issued, req, late>>

\* What a failed call may leave behind.
LeftBehind(c) ==
    {e \in [kind: {"put", "remove"}, key: {req[c].key}, owner: {req[c].owner}] :
        \/ e.kind = "put" /\ phase[c] = "open" /\ req[c].op = "create"
        \/ e.kind = "remove" /\ phase[c] = "authorised"}

Fail(c) ==
    /\ phase[c] \in {"open", "authorised"}
    /\ Finish(c, Reply("error", {}))
    /\ late' \in {late, late \cup LeftBehind(c)}
    /\ UNCHANGED <<live, issued, req>>

LateEffect(e) ==
    /\ e \in late
    /\ late' = late \ {e}
    /\ live' = [live EXCEPT ![e.key] = IF e.kind = "put" THEN e.owner ELSE None]
    /\ UNCHANGED <<issued, phase, req, reply>>

LateNever(e) ==
    /\ e \in late
    /\ late' = late \ {e}
    /\ UNCHANGED <<live, issued, phase, req, reply>>

\* The caller takes the answer.
Return(c) ==
    /\ phase[c] = "done"
    /\ phase' = [phase EXCEPT ![c] = "idle"]
    /\ req' = [req EXCEPT ![c] = NoRequest]
    /\ reply' = [reply EXCEPT ![c] = NoReply]
    /\ UNCHANGED <<live, issued, late>>

\* An operator removes the whole store.
Wipe ==
    /\ live' = [k \in KeyID |-> None]
    /\ UNCHANGED <<issued, phase, req, reply, late>>

CallStep(c) ==
    \/ \E op \in Op, o \in Owner, k \in KeyID \cup {None} : Begin(c, op, o, k)
    \/ \E kind \in {"notfound", "invalid", "error"} : Refuse(c, kind)
    \/ List(c) \/ Get(c) \/ Missing(c) \/ Create(c) \/ Authorise(c)
    \/ Revoke(c) \/ RevokeTooLate(c) \/ Fail(c) \/ Return(c)

Next ==
    \/ \E c \in Call : CallStep(c)
    \/ \E e \in late : LateEffect(e) \/ LateNever(e)
    \/ Wipe

Spec == Init /\ [][Next]_vars
=============================================================================
