-------------------------- MODULE KubernetesStore --------------------------
(***************************************************************************)
(* internal/keystore/kubernetes/kubernetes.go: the production keystore.    *)
(*                                                                         *)
(* Every key of every person is one entry "client-<id>" of ONE Secret,     *)
(* with an annotation "llm-portal/key-<id>" that names its owner.  The     *)
(* portal keeps no state of its own: a call is a sequence of requests to   *)
(* the API server, and calls of any number of portal processes interleave  *)
(* between those requests.  The API server (external) answers each request *)
(* atomically, or refuses it, or the client stops waiting -- the caller    *)
(* went away, the connection broke, the pod was killed -- while the        *)
(* request is still on its way and may yet be carried out.                 *)
(***************************************************************************)

CONSTANTS
    Owner,      \* people (tenant id, object id)
    KeyID,      \* identifiers of keys
    Bootstrap,  \* identifiers the cluster repository puts in the Secret itself
    Call,       \* calls that can be in progress at the same time
    None        \* no owner, no key

ASSUME NoneAssumption == None \notin Owner \cup KeyID
ASSUME BootstrapAssumption == Bootstrap \subseteq KeyID

VARIABLES
    exists,     \* the aggregate Secret exists
    data,       \* the ids with a data entry
    annot,      \* the owner named by each id's annotation, None without one
    issued,     \* ids Generate has drawn: 64 random bits, taken as never repeated
    pc,         \* per call: the request it is waiting for
    req,        \* per call: operation, caller, key
    reply,      \* per call: what it returns
    orphans,    \* writes whose sender no longer waits
    promised,   \* history: keys a create has returned, with their owner
    asked       \* history: keys a revoke was authorised for, with who asked

secretVars  == <<exists, data, annot>>
callVars    == <<pc, req, reply>>
historyVars == <<promised, asked>>
vars == <<secretVars, issued, callVars, orphans, historyVars>>

Op == {"list", "get", "create", "revoke"}
NoRequest == [op |-> "none", owner |-> None, key |-> None]
Reply(kind, keys) == [kind |-> kind, keys |-> keys]
NoReply == Reply("none", {})

\* A merge patch names one data entry and one annotation: it sets both or,
\* with nulls, deletes both.  "create" makes the Secret with one entry.
Write == [kind: {"put", "remove", "create"}, key: KeyID, owner: Owner]

-----------------------------------------------------------------------------
\* The API server (external): what one request does to the Secret.

\* A plausible bug: the whole Secret is written back with the one new entry.
MergePutOverwrites(k, o) ==
    /\ exists
    /\ data' = {k}
    /\ annot' = [x \in KeyID |-> IF x = k THEN o ELSE None]
    /\ UNCHANGED exists

MergePut(k, o) ==
    /\ exists
    /\ data' = data \cup {k}
    /\ annot' = [annot EXCEPT ![k] = o]
    /\ UNCHANGED exists

\* A plausible bug: the patch carries "" where a null would delete.
MergeNullEmpties(k) ==
    /\ exists
    /\ data' = data \ {k}
    /\ annot' = [annot EXCEPT ![k] = ""]
    /\ UNCHANGED exists

\* A plausible bug: the annotation stays behind.
MergeNullHalf(k) ==
    /\ exists
    /\ data' = data \ {k}
    /\ UNCHANGED <<exists, annot>>

MergeNull(k) ==
    /\ exists
    /\ data' = data \ {k}
    /\ annot' = [annot EXCEPT ![k] = None]
    /\ UNCHANGED exists

CreateSecret(k, o) ==
    /\ ~exists
    /\ exists' = TRUE
    /\ data' = {k}
    /\ annot' = [x \in KeyID |-> IF x = k THEN o ELSE None]

-----------------------------------------------------------------------------
\* The store.

\* A plausible bug: any annotated entry will do.
OwnedMetaAnyone(o, k) == k \in data /\ annot[k] # None

\* ownedMeta: the entry is there AND it has an annotation AND that names o.
OwnedMeta(o, k) == k \in data /\ annot[k] # None /\ annot[k] = o
Owned(o) == {k \in KeyID : OwnedMeta(o, k)}

\* A plausible bug: identifiers short enough to be drawn again once revoked.
FreshReuses(k) == k \notin data \cup Bootstrap

\* Generate draws the identifier.
Fresh(k) == k \notin issued \cup Bootstrap

Init ==
    /\ exists \in BOOLEAN
    /\ data = IF exists THEN Bootstrap ELSE {}
    /\ annot = [k \in KeyID |-> None]
    /\ issued = {}
    /\ pc = [c \in Call |-> "idle"]
    /\ req = [c \in Call |-> NoRequest]
    /\ reply = [c \in Call |-> NoReply]
    /\ orphans = {}
    /\ promised = {} /\ asked = {}

Goto(c, l) == pc' = [pc EXCEPT ![c] = l]
Finish(c, kind, keys) ==
    /\ Goto(c, "done")
    /\ reply' = [reply EXCEPT ![c] = Reply(kind, keys)]

Start(c, op, o, k, l) ==
    /\ pc[c] = "idle"
    /\ Goto(c, l)
    /\ req' = [req EXCEPT ![c] = [op |-> op, owner |-> o, key |-> k]]
    /\ UNCHANGED <<secretVars, reply, orphans>>

StartList(c, o) ==
    /\ Start(c, "list", o, None, "get")
    /\ UNCHANGED <<issued, historyVars>>

StartGet(c, o, k) ==
    /\ Start(c, "get", o, k, "get")
    /\ UNCHANGED <<issued, historyVars>>

StartRevoke(c, o, k) ==
    /\ Start(c, "revoke", o, k, "get")
    /\ UNCHANGED <<issued, historyVars>>

\* Identity, name and random material come first; then the upsert is sent.
StartCreate(c, o, k) ==
    /\ Fresh(k)
    /\ issued' = issued \cup {k}
    /\ Start(c, "create", o, k, "patch")
    /\ UNCHANGED historyVars

\* The early returns: no identity (notfound), a malformed id (notfound), a
\* rejected name (invalid), no random bytes (error).  Nothing is sent.
Refuse(c, kind) ==
    /\ pc[c] = "idle"
    /\ Finish(c, kind, {})
    /\ UNCHANGED <<secretVars, issued, req, orphans, historyVars>>

\* The Secret comes back, or NotFound, which lists as nothing.
ListAnswered(c) ==
    /\ pc[c] = "get" /\ req[c].op = "list"
    /\ Finish(c, "ok", IF exists THEN Owned(req[c].owner) ELSE {})
    /\ UNCHANGED <<secretVars, issued, req, orphans, historyVars>>

GetAnswered(c) ==
    /\ pc[c] = "get" /\ req[c].op = "get"
    /\ IF exists /\ OwnedMeta(req[c].owner, req[c].key)
         THEN Finish(c, "ok", {req[c].key})
         ELSE Finish(c, "notfound", {})
    /\ UNCHANGED <<secretVars, issued, req, orphans, historyVars>>

\* A plausible bug: the entry is looked up, its owner is not compared.
RevokeCheckedAnyone(c) ==
    /\ pc[c] = "get" /\ req[c].op = "revoke"
    /\ IF exists /\ req[c].key \in data
         THEN /\ Goto(c, "patch")
              /\ asked' = asked \cup {<<req[c].key, req[c].owner>>}
              /\ UNCHANGED reply
         ELSE Finish(c, "notfound", {}) /\ UNCHANGED asked
    /\ UNCHANGED <<secretVars, issued, req, orphans, promised>>

\* RevokeKey decides on the Secret it has read, and removes later.
RevokeChecked(c) ==
    /\ pc[c] = "get" /\ req[c].op = "revoke"
    /\ IF exists /\ OwnedMeta(req[c].owner, req[c].key)
         THEN /\ Goto(c, "patch")
              /\ asked' = asked \cup {<<req[c].key, req[c].owner>>}
              /\ UNCHANGED reply
         ELSE Finish(c, "notfound", {}) /\ UNCHANGED asked
    /\ UNCHANGED <<secretVars, issued, req, orphans, promised>>

RevokePatched(c) ==
    /\ pc[c] = "patch" /\ req[c].op = "revoke"
    /\ \/ /\ MergeNull(req[c].key)
          /\ Finish(c, "ok", {req[c].key})
       \/ /\ ~exists
          /\ Finish(c, "notfound", {})
          /\ UNCHANGED secretVars
    /\ UNCHANGED <<issued, req, orphans, historyVars>>

Created(c) ==
    /\ Finish(c, "ok", {req[c].key})
    /\ promised' = promised \cup {<<req[c].key, req[c].owner>>}

\* The upsert; without a Secret the call goes on to create it.
CreatePatched(c) ==
    /\ pc[c] = "patch" /\ req[c].op = "create"
    /\ \/ MergePut(req[c].key, req[c].owner) /\ Created(c)
       \/ ~exists /\ Goto(c, "create") /\ UNCHANGED <<secretVars, reply, promised>>
    /\ UNCHANGED <<issued, req, orphans, asked>>

\* createSecret; AlreadyExists means another call created it: patch again.
CreateAnswered(c) ==
    /\ pc[c] = "create"
    /\ \/ CreateSecret(req[c].key, req[c].owner) /\ Created(c)
       \/ exists /\ Goto(c, "repatch") /\ UNCHANGED <<secretVars, reply, promised>>
    /\ UNCHANGED <<issued, req, orphans, asked>>

\* A plausible bug: NotFound starts over, however often.
RepatchAnsweredLoops(c) ==
    /\ pc[c] = "repatch"
    /\ \/ MergePut(req[c].key, req[c].owner) /\ Created(c)
       \/ ~exists /\ Goto(c, "create") /\ UNCHANGED <<secretVars, reply, promised>>
    /\ UNCHANGED <<issued, req, orphans, asked>>

\* The second patch is the last attempt: NotFound is now an error.
RepatchAnswered(c) ==
    /\ pc[c] = "repatch"
    /\ \/ MergePut(req[c].key, req[c].owner) /\ Created(c)
       \/ ~exists /\ Finish(c, "error", {}) /\ UNCHANGED <<secretVars, promised>>
    /\ UNCHANGED <<issued, req, orphans, asked>>

\* The server refuses the request (forbidden, too large, overloaded).
Rejected(c) ==
    /\ pc[c] \in {"get", "patch", "create", "repatch"}
    /\ Finish(c, "error", {})
    /\ UNCHANGED <<secretVars, issued, req, orphans, historyVars>>

\* The write c is waiting for.
Pending(c) ==
    [kind |-> IF pc[c] = "create" THEN "create"
              ELSE IF req[c].op = "revoke" THEN "remove" ELSE "put",
     key |-> req[c].key, owner |-> req[c].owner]

\* A plausible bug: the unanswered write is sent a second time.
GiveUpRetries(c) ==
    /\ pc[c] \in {"patch", "create", "repatch"}
    /\ orphans' = orphans \cup {Pending(c)}
    /\ UNCHANGED <<secretVars, issued, callVars, historyVars>>

\* The client stops waiting for a write, which is still on its way.
GiveUp(c) ==
    /\ pc[c] \in {"patch", "create", "repatch"}
    /\ Finish(c, "error", {})
    /\ orphans' = orphans \cup {Pending(c)}
    /\ UNCHANGED <<secretVars, issued, req, historyVars>>

\* The server carries out a write nobody waits for, ...
OrphanWritten(m) ==
    /\ m \in orphans
    /\ \/ m.kind = "put" /\ MergePut(m.key, m.owner)
       \/ m.kind = "remove" /\ MergeNull(m.key)
       \/ m.kind = "create" /\ CreateSecret(m.key, m.owner)
    /\ orphans' = orphans \ {m}
    /\ UNCHANGED <<issued, callVars, historyVars>>

\* ... refuses it, or it never arrives.
OrphanLost(m) ==
    /\ m \in orphans
    /\ orphans' = orphans \ {m}
    /\ UNCHANGED <<secretVars, issued, callVars, historyVars>>

Return(c) ==
    /\ pc[c] = "done"
    /\ Goto(c, "idle")
    /\ req' = [req EXCEPT ![c] = NoRequest]
    /\ reply' = [reply EXCEPT ![c] = NoReply]
    /\ UNCHANGED <<secretVars, issued, orphans, historyVars>>

\* The cluster repository applies its Secret: its own entries are there
\* afterwards, every other entry stays (external).
Reconcile ==
    /\ exists' = TRUE
    /\ data' = data \cup Bootstrap
    /\ UNCHANGED <<annot, issued, callVars, orphans, historyVars>>

\* An operator deletes the Secret (external); no promise outlives that.
DeleteSecret ==
    /\ exists
    /\ exists' = FALSE
    /\ data' = {}
    /\ annot' = [k \in KeyID |-> None]
    /\ promised' = {}
    /\ UNCHANGED <<issued, callVars, orphans, asked>>

Answered(c) ==
    \/ ListAnswered(c) \/ GetAnswered(c) \/ RevokeChecked(c)
    \/ RevokePatched(c) \/ CreatePatched(c) \/ CreateAnswered(c)
    \/ RepatchAnswered(c)

Begin(c) ==
    \/ \E o \in Owner :
         \/ StartList(c, o)
         \/ \E k \in KeyID :
              StartGet(c, o, k) \/ StartRevoke(c, o, k) \/ StartCreate(c, o, k)
    \/ \E kind \in {"notfound", "invalid", "error"} : Refuse(c, kind)

Next ==
    \/ \E c \in Call :
         Begin(c) \/ Answered(c) \/ Rejected(c) \/ GiveUp(c) \/ Return(c)
    \/ \E m \in orphans : OrphanWritten(m) \/ OrphanLost(m)
    \/ Reconcile
    \/ DeleteSecret

Spec == Init /\ [][Next]_vars

\* The API server answers or refuses every request in the end, and a finished
\* call returns: calls take no lock and wait for nothing else.
FairSpec ==
    /\ Spec
    /\ \A c \in Call : WF_vars(Answered(c) \/ Rejected(c)) /\ WF_vars(Return(c))

-----------------------------------------------------------------------------
(* Properties.                                                             *)

TypeOK ==
    /\ exists \in BOOLEAN
    /\ data \in SUBSET KeyID
    /\ annot \in [KeyID -> Owner \cup {None}]
    /\ issued \in SUBSET KeyID
    /\ pc \in [Call -> {"idle", "get", "patch", "create", "repatch", "done"}]
    /\ req \in [Call -> {NoRequest} \cup
                   [op: Op, owner: Owner, key: KeyID \cup {None}]]
    /\ reply \in [Call -> [kind: {"none", "ok", "notfound", "invalid", "error"},
                           keys: SUBSET KeyID]]
    /\ orphans \in SUBSET Write
    /\ promised \in SUBSET (KeyID \X Owner)
    /\ asked \in SUBSET (KeyID \X Owner)

\* A credential the gateway accepts always has an owner who can see it and
\* revoke it, except those the cluster repository put there; and no annotation
\* is left behind by a revoke or a delete.
Paired ==
    /\ \A k \in data \ Bootstrap : annot[k] # None
    /\ \A k \in KeyID : annot[k] # None => k \in data \ Bootstrap

\* The removals under way, sent by a call or left by one.
Removals ==
    {m \in orphans : m.kind = "remove"}
        \cup {Pending(c) : c \in {d \in Call : pc[d] = "patch" /\ req[d].op = "revoke"}}

\* RevokeKey checks ownership on one reading of the Secret and removes with
\* another request: whatever happened in between, the removal hits a key of
\* the person who asked or nothing at all.
RevokeHitsOwnKey ==
    \A m \in Removals : annot[m.key] \in {None, m.owner} /\ m.key \notin Bootstrap

\* A key that was handed out keeps working until its owner revokes it: no
\* interleaving of other people's creates and revokes, first-time creation of
\* the Secret, lost answers or the cluster repository's reconciliation loses it.
Durable ==
    \A p \in promised \ asked : p[1] \in data /\ annot[p[1]] = p[2]

\* A key somebody was allowed to revoke never appears again: no write of it is
\* still under way or sent a second time.
NeverBack ==
    [][\A k \in (data' \ data) \ Bootstrap, o \in Owner : <<k, o>> \notin asked]_vars

\* Every call gets an answer when the API server answers its requests: the
\* NotFound / AlreadyExists / NotFound path ends.
CallsAnswer == \A c \in Call : pc[c] # "idle" ~> pc[c] = "idle"

\* handlers.go tells the user of a failed create "Nothing changed": the key
\* that create drew is not among the keys, and is not about to be.
NothingChanged ==
    \A c \in Call :
        pc[c] = "done" /\ req[c].op = "create" /\ reply[c].kind = "error" =>
            req[c].key \notin data

-----------------------------------------------------------------------------
(* The inductive invariant behind those properties.                        *)

\* c has yet to write the key it drew.
Creating(c) == pc[c] \in {"patch", "create", "repatch"} /\ req[c].op = "create"
\* An orphaned upsert or creation.
IsPut(m) == m.kind # "remove"
\* A key that was drawn and has never been in the Secret.
Unwritten(k) ==
    /\ k \in issued \ data
    /\ \A o \in Owner : <<k, o>> \notin asked /\ <<k, o>> \notin promised

\* What a request in flight was sent for.
CallInv ==
    \A c \in Call :
      /\ pc[c] = "get" => /\ req[c].op \in {"list", "get", "revoke"}
                          /\ req[c].op # "list" => req[c].key \in KeyID
      /\ pc[c] \in {"patch", "create", "repatch"} =>
            /\ req[c].key \in KeyID
            /\ \/ req[c].op = "create"
               \/ /\ pc[c] = "patch" /\ req[c].op = "revoke"
                  /\ <<req[c].key, req[c].owner>> \in asked

\* Everything in the Secret and in the history was drawn by Generate first,
\* and an authorised key is its requester's or gone.
IssuedInv ==
    /\ issued \cap Bootstrap = {}
    /\ data \subseteq issued \cup Bootstrap
    /\ ~exists => data = {}
    /\ \A p \in promised \cup asked : p[1] \in issued
    /\ \A p \in asked : annot[p[1]] \in {None, p[2]}
    /\ \A m \in orphans : ~IsPut(m) => <<m.key, m.owner>> \in asked

\* Each key drawn has one write at most that could still put it there.
PutInv ==
    /\ \A c \in Call : Creating(c) => Unwritten(req[c].key)
    /\ \A m \in orphans : IsPut(m) => Unwritten(m.key)
    /\ \A c, d \in Call : Creating(c) /\ Creating(d) /\ req[c].key = req[d].key => c = d
    /\ \A c \in Call, m \in orphans : Creating(c) /\ IsPut(m) => req[c].key # m.key
    /\ \A m, n \in orphans : IsPut(m) /\ IsPut(n) /\ m.key = n.key => m = n

IInv == TypeOK /\ Paired /\ Durable /\ CallInv /\ IssuedInv /\ PutInv

-----------------------------------------------------------------------------
\* The refinement: a patch in flight is an authorised revoke or an open create.
Live == [k \in KeyID |-> IF k \in data THEN annot[k] ELSE None]
Phase == [c \in Call |->
            IF pc[c] \in {"idle", "done"} THEN pc[c]
            ELSE IF pc[c] = "patch" /\ req[c].op = "revoke" THEN "authorised"
            ELSE "open"]
Late == {[kind |-> IF m.kind = "remove" THEN "remove" ELSE "put",
          key |-> m.key, owner |-> m.owner] : m \in orphans}

KS == INSTANCE KeyStore WITH live <- Live, phase <- Phase, late <- Late

\* The aggregate Secret is a keystore: whatever the interleaving, each call
\* answers with what was true at one moment inside it and takes effect once.
RefinesKeyStore == KS!Spec
=============================================================================
