---------------------------- MODULE AvatarCache ----------------------------
(***************************************************************************)
(* internal/avatar/avatar.go: the cache of profile photos in one portal    *)
(* process, and the two handlers that read it.                             *)
(*                                                                         *)
(* A sign-in captures the person's photo: it asks Microsoft Graph without  *)
(* the lock and stores the answer under the lock, so captures, page loads, *)
(* image loads and sign-outs interleave.  Every critical section is one    *)
(* action.  The photo itself is not modelled, only whose it is and its age.*)
(***************************************************************************)
EXTENDS Naturals, Sequences, FiniteSets

CONSTANTS
    User,       \* photo keys (tenant id and object id)
    Proc,       \* sign-ins that can be capturing a photo at the same time
    Max,        \* MaxEntries
    TTL,        \* TTL, in ticks
    MaxOrder,   \* bound: the longest order explored
    None        \* no user

ASSUME MaxAssumption == Max \in Nat \ {0}
ASSUME TTLAssumption == TTL \in Nat
ASSUME MaxOrderAssumption == MaxOrder \in Nat
ASSUME NoneAssumption == None \notin User

VARIABLES
    cached,     \* the keys of entries
    age,        \* per key: ticks since storedAt, saturating just past the TTL
    order,      \* keys, oldest first, for eviction
    stage,      \* per sign-in: "idle", "fetch" (asking Graph), "put" (has a photo)
    who         \* per sign-in: whose photo

cacheVars == <<cached, age, order>>
signInVars == <<stage, who>>
vars == <<cacheVars, signInVars>>

Keys(s) == {s[n] : n \in 1..Len(s)}

Init ==
    /\ cached = {} /\ age = [u \in User |-> 0] /\ order = <<>>
    /\ stage = [p \in Proc |-> "idle"] /\ who = [p \in Proc |-> None]

-----------------------------------------------------------------------------
\* Capture, up to the answer of Graph.
StartCapture(p, u) ==
    /\ stage[p] = "idle"
    /\ stage' = [stage EXCEPT ![p] = "fetch"]
    /\ who' = [who EXCEPT ![p] = u]
    /\ UNCHANGED cacheVars

Fetched(p) ==
    /\ stage[p] = "fetch"
    /\ stage' = [stage EXCEPT ![p] = "put"]
    /\ UNCHANGED <<who, cacheVars>>

\* No photo, refused, timed out, too large, not an image: nothing is stored.
NotFetched(p) ==
    /\ stage[p] = "fetch"
    /\ stage' = [stage EXCEPT ![p] = "idle"]
    /\ who' = [who EXCEPT ![p] = None]
    /\ UNCHANGED cacheVars

\* A plausible bug: one eviction, decided by the queue and not by the entries.
EvictByQueue(c, q) ==
    IF Len(q) > Max
      THEN cached' = c \ {Head(q)} /\ order' = Tail(q)
      ELSE cached' = c /\ order' = q

\* A plausible bug: one attempt at eviction instead of a loop.
EvictOnce(c, q) ==
    IF Cardinality(c) > Max
      THEN cached' = c \ {Head(q)} /\ order' = Tail(q)
      ELSE cached' = c /\ order' = q

\* The eviction loop on keys c with order q leaves r and drops the first n of
\* q: no fewer would have brought c within the limit or exhausted q.
Evicted(c, q, n) == c \ {q[m] : m \in 1..n}
Evict(c, q) ==
    \E n \in 0..Len(q) :
        /\ Cardinality(Evicted(c, q, n)) <= Max \/ n = Len(q)
        /\ \A m \in 0..(n - 1) : Cardinality(Evicted(c, q, m)) > Max
        /\ cached' = Evicted(c, q, n)
        /\ order' = SubSeq(q, n + 1, Len(q))

\* A plausible bug: whether the key is new is asked after it was stored.
PutLateCheck(p) ==
    /\ stage[p] = "put" /\ Len(order) < MaxOrder
    /\ Evict(cached \cup {who[p]}, order)
    /\ age' = [u \in User |-> IF u \in cached' \ {who[p]} THEN age[u] ELSE 0]
    /\ stage' = [stage EXCEPT ![p] = "idle"]
    /\ who' = [who EXCEPT ![p] = None]

\* put: queue a new key, store the photo, evict.
Put(p) ==
    LET u == who[p]
        queue == IF u \in cached THEN order ELSE Append(order, u)
    IN  /\ stage[p] = "put" /\ Len(order) < MaxOrder
        /\ Evict(cached \cup {u}, queue)
        /\ age' = [v \in User |-> IF v \in cached' \ {u} THEN age[v] ELSE 0]
        /\ stage' = [stage EXCEPT ![p] = "idle"]
        /\ who' = [who EXCEPT ![p] = None]
    
-----------------------------------------------------------------------------
Drop(u) ==
    /\ cached' = cached \ {u}
    /\ age' = [age EXCEPT ![u] = 0]
    /\ UNCHANGED order

\* Get finds the photo, or not; a photo past its TTL is dropped on the way.
Found(u) == u \in cached /\ age[u] <= TTL /\ UNCHANGED cacheVars
Missed(u) ==
    \/ u \notin cached /\ UNCHANGED cacheVars
    \/ u \in cached /\ age[u] > TTL /\ Drop(u)

\* page offers the image when the photo is cached, handleAvatar serves it.
Get(u) ==
    /\ Found(u) \/ Missed(u)
    /\ UNCHANGED signInVars

\* handleLogout.
Forget(u) ==
    /\ Drop(u)
    /\ UNCHANGED signInVars

\* Time passes.
Tick ==
    /\ age' = [u \in User |-> IF u \in cached /\ age[u] <= TTL THEN age[u] + 1 ELSE age[u]]
    /\ UNCHANGED <<cached, order, signInVars>>

Next ==
    \/ \E p \in Proc :
         \/ \E u \in User : StartCapture(p, u)
         \/ Fetched(p) \/ NotFetched(p) \/ Put(p)
    \/ \E u \in User : Get(u) \/ Forget(u)
    \/ Tick

Spec == Init /\ [][Next]_vars

-----------------------------------------------------------------------------
(* Properties.                                                             *)

TypeOK ==
    /\ cached \in SUBSET User
    /\ age \in [User -> 0..(TTL + 1)]
    /\ order \in Seq(User)
    /\ stage \in [Proc -> {"idle", "fetch", "put"}]
    /\ who \in [Proc -> User \cup {None}]
    /\ \A p \in Proc : stage[p] # "idle" => who[p] \in User

\* Every photo has a place in the eviction order, however often the same
\* person has signed in and out: no photo can become impossible to evict.
Covered == cached \subseteq Keys(order)

\* The cache never holds more than MaxEntries photos between two calls, in
\* spite of the stale places that sign-outs and expiry leave in the order.
Bounded == IsFiniteSet(cached) /\ Cardinality(cached) <= Max

\* The inductive invariant.
IInv == TypeOK /\ Covered /\ Bounded

\* avatar.go: stale places in the order are not counted as evictions.  Storing
\* a photo costs at most one photo, and none while there is room.
PutEvictsOne ==
    [][\A p \in Proc : stage[p] = "put" /\ stage'[p] = "idle" =>
         LET gone == (cached \cup {who[p]}) \ cached'
         IN  /\ Cardinality(gone) <= 1
             /\ Cardinality(cached \cup {who[p]}) <= Max => gone = {}]_vars

\* avatar.go evicts the oldest photo: never the one that was just stored.
JustStoredStays ==
    [][\A p \in Proc : stage[p] = "put" /\ stage'[p] = "idle" => who[p] \in cached']_vars
=============================================================================
