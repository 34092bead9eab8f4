------------------------- MODULE AvatarCacheProofs -------------------------
(***************************************************************************)
(* The photo cache stays within its limit, for every limit, every number   *)
(* of people and every interleaving of captures, page loads and sign-outs: *)
(* each photo keeps a place in the eviction order, so the loop that walks  *)
(* the order always finds enough photos to drop.                           *)
(***************************************************************************)
EXTENDS AvatarCache, FiniteSetTheorems, TLAPS

USE MaxAssumption, TTLAssumption, MaxOrderAssumption, NoneAssumption

\* The eviction loop ends within the limit and drops the places of the photos
\* it drops, not those of the photos it keeps.
LEMMA EvictedFits ==
    ASSUME NEW c \in SUBSET User, IsFiniteSet(c), NEW q \in Seq(User),
           c \subseteq Keys(q), NEW n \in 0..Len(q),
           Cardinality(Evicted(c, q, n)) <= Max \/ n = Len(q)
    PROVE  /\ SubSeq(q, n + 1, Len(q)) \in Seq(User)
           /\ Evicted(c, q, n) \subseteq Keys(SubSeq(q, n + 1, Len(q)))
           /\ IsFiniteSet(Evicted(c, q, n))
           /\ Cardinality(Evicted(c, q, n)) <= Max
<1> DEFINE r == SubSeq(q, n + 1, Len(q))
<1>1. /\ r \in Seq(User) /\ Len(r) = Len(q) - n
      /\ \A m \in 1..Len(r) : r[m] = q[n + m]
  OBVIOUS
<1>2. ASSUME NEW u \in Evicted(c, q, n) PROVE u \in Keys(r)
  <2>1. PICK m \in 1..Len(q) : u = q[m]
    BY <1>2 DEF Evicted, Keys
  <2>2. m > n
    BY <1>2, <2>1 DEF Evicted
  <2>3. m - n \in 1..Len(r) /\ r[m - n] = u
    BY <1>1, <2>1, <2>2
  <2>. QED  BY <2>3 DEF Keys
<1>3. IsFiniteSet(Evicted(c, q, n))
  BY FS_Subset DEF Evicted
<1>4. ASSUME n = Len(q) PROVE Cardinality(Evicted(c, q, n)) <= Max
  <2>1. Evicted(c, q, n) = {}
    BY <1>4 DEF Evicted, Keys
  <2>. QED  BY <2>1, FS_EmptySet
<1>. QED  BY <1>1, <1>2, <1>3, <1>4

\* Starting at most one over the limit, the first photo dropped is the last.
LEMMA EvictedFew ==
    ASSUME NEW c \in SUBSET User, IsFiniteSet(c), Cardinality(c) <= Max + 1,
           NEW q \in Seq(User), NEW n \in 0..Len(q),
           \A m \in 0..(n - 1) : Cardinality(Evicted(c, q, m)) > Max
    PROVE  /\ Cardinality(c \ Evicted(c, q, n)) <= 1
           /\ Cardinality(c) <= Max => c \ Evicted(c, q, n) = {}
<1>1. CASE n = 0
  <2>1. c \ Evicted(c, q, n) = {}
    BY <1>1 DEF Evicted
  <2>2. Cardinality({}) = 0
    BY FS_EmptySet
  <2>3. Cardinality(c \ Evicted(c, q, n)) = 0
    BY <2>1, <2>2, Zenon
  <2>. QED  BY <2>1, <2>3
<1>2. CASE n # 0
  <2>1. n - 1 \in 0..(n - 1) /\ 0 \in 0..(n - 1) /\ n \in 1..Len(q)
    BY <1>2
  <2>2. Evicted(c, q, 0) = c
    BY DEF Evicted
  <2>3. Cardinality(c) > Max
    BY <2>1, <2>2
  <2>4. Evicted(c, q, n - 1) \in SUBSET c
    BY DEF Evicted
  <2>5. Cardinality(Evicted(c, q, n - 1)) > Max
    BY <2>1
  <2>6. /\ Cardinality(c) \in Nat
        /\ Cardinality(Evicted(c, q, n - 1)) \in Nat
        /\ Cardinality(Evicted(c, q, n - 1)) <= Cardinality(c)
        /\ Cardinality(c) = Cardinality(Evicted(c, q, n - 1)) => c = Evicted(c, q, n - 1)
    BY <2>4, FS_Subset, FS_CardinalityType
  <2>7. c = Evicted(c, q, n - 1)
    BY <2>5, <2>6
  <2>8. c \ Evicted(c, q, n) \in SUBSET {q[n]}
    <3>1. ASSUME NEW m \in 1..n, m # n PROVE m \in 1..(n - 1)
      BY <2>1, <3>1
    <3>2. ASSUME NEW m \in 1..(n - 1) PROVE q[m] \notin c
      BY <2>7 DEF Evicted
    <3>. QED  BY <3>1, <3>2 DEF Evicted
  <2>9. Cardinality(c \ Evicted(c, q, n)) <= 1
    <3>1. IsFiniteSet({q[n]}) /\ Cardinality({q[n]}) = 1
      BY FS_Singleton
    <3>. QED  BY <2>8, <3>1, FS_Subset
  <2>. QED  BY <2>3, <2>6, <2>9
<1>. QED  BY <1>1, <1>2

\* What a put starts the eviction loop with.
LEMMA PutStarts ==
    ASSUME IInv, NEW p \in Proc, stage[p] = "put"
    PROVE  LET u == who[p]
               queue == IF u \in cached THEN order ELSE Append(order, u)
           IN  /\ u \in User
               /\ cached \cup {u} \in SUBSET User /\ queue \in Seq(User)
               /\ IsFiniteSet(cached \cup {u})
               /\ Cardinality(cached \cup {u}) <= Max + 1
               /\ cached \cup {u} \subseteq Keys(queue)
<1> DEFINE u == who[p]
           queue == IF u \in cached THEN order ELSE Append(order, u)
<1>1. u \in User /\ cached \in SUBSET User /\ order \in Seq(User)
  BY DEF IInv, TypeOK
<1>2. /\ IsFiniteSet(cached \cup {u})
      /\ Cardinality(cached \cup {u}) <= Max + 1
  <2>1. IsFiniteSet(cached) /\ Cardinality(cached) <= Max
    BY DEF IInv, Bounded
  <2>2. Cardinality(cached) \in Nat
    BY <2>1, FS_CardinalityType
  <2>3. /\ IsFiniteSet(cached \cup {u})
        /\ Cardinality(cached \cup {u}) = IF u \in cached THEN Cardinality(cached)
                                          ELSE Cardinality(cached) + 1
    BY <2>1, FS_AddElement
  <2> HIDE DEF u
  <2>. QED  BY <2>1, <2>2, <2>3
<1>3. CASE u \in cached
  BY <1>1, <1>2, <1>3 DEF IInv, Covered, Keys
<1>4. CASE u \notin cached
  <2>1. /\ queue = Append(order, u) /\ queue \in Seq(User)
        /\ Len(queue) = Len(order) + 1 /\ queue[Len(order) + 1] = u
        /\ \A m \in 1..Len(order) : queue[m] = order[m]
    BY <1>1, <1>4
  <2>2. Keys(order) \subseteq Keys(queue) /\ u \in Keys(queue)
    BY <1>1, <2>1 DEF Keys
  <2>. QED  BY <1>1, <1>2, <2>1, <2>2 DEF IInv, Covered
<1>. QED  BY <1>3, <1>4

LEMMA StepPut ==
    ASSUME IInv, NEW p \in Proc, Put(p)
    PROVE  IInv'
<1> DEFINE u == who[p]
           queue == IF u \in cached THEN order ELSE Append(order, u)
<1>1. /\ stage[p] = "put" /\ Evict(cached \cup {u}, queue)
      /\ age' = [v \in User |-> IF v \in cached' \ {u} THEN age[v] ELSE 0]
      /\ stage' = [stage EXCEPT ![p] = "idle"]
      /\ who' = [who EXCEPT ![p] = None]
  BY DEF Put
<1>2. /\ u \in User
      /\ cached \cup {u} \in SUBSET User /\ queue \in Seq(User)
      /\ IsFiniteSet(cached \cup {u})
      /\ cached \cup {u} \subseteq Keys(queue)
  BY <1>1, PutStarts
<1>3. PICK n \in 0..Len(queue) :
        /\ Cardinality(Evicted(cached \cup {u}, queue, n)) <= Max \/ n = Len(queue)
        /\ cached' = Evicted(cached \cup {u}, queue, n)
        /\ order' = SubSeq(queue, n + 1, Len(queue))
  BY <1>1 DEF Evict
<1> HIDE DEF u, queue
<1>4. /\ order' \in Seq(User) /\ cached' \subseteq Keys(order')
      /\ IsFiniteSet(cached') /\ Cardinality(cached') <= Max
  BY <1>2, <1>3, EvictedFits
<1>5. cached' \in SUBSET User
  BY <1>2, <1>3 DEF Evicted
<1>6. TypeOK'
  BY <1>1, <1>4, <1>5 DEF IInv, TypeOK, u
<1>7. Covered'
  BY <1>4 DEF Covered, Keys
<1>. QED  BY <1>4, <1>6, <1>7 DEF IInv, Bounded

\* Dropping a photo leaves its place in the order behind, and nothing uncovered.
LEMMA StepDrop ==
    ASSUME IInv, NEW u \in User, Drop(u)
    PROVE  /\ Covered' /\ Bounded'
           /\ cached' \in SUBSET User /\ age' \in [User -> 0..(TTL + 1)]
           /\ order' \in Seq(User)
<1>1. cached' = cached \ {u} /\ order' = order
  BY DEF Drop
<1>2. IsFiniteSet(cached') /\ Cardinality(cached') <= Max
  <2>1. cached' \in SUBSET cached
    BY <1>1
  <2>2. IsFiniteSet(cached') /\ Cardinality(cached') <= Cardinality(cached)
    BY <2>1, FS_Subset DEF IInv, Bounded
  <2>. QED  BY <2>2, FS_CardinalityType DEF IInv, Bounded
<1>3. Covered'
  BY <1>1 DEF IInv, Covered, Keys
<1>. QED  BY <1>1, <1>2, <1>3 DEF Drop, IInv, TypeOK, Bounded

LEMMA InitIInv == Init => IInv
<1> SUFFICES ASSUME Init PROVE IInv
  OBVIOUS
<1>1. IsFiniteSet({}) /\ Cardinality({}) = 0
  BY FS_EmptySet
<1>2. Bounded
  BY <1>1 DEF Init, Bounded
<1>3. Covered
  BY DEF Init, Covered
<1>4. TypeOK
  <2>1. order \in Seq(User)
    <3>1. <<>> \in Seq(User)
      OBVIOUS
    <3>. QED  BY <3>1 DEF Init
  <2>2. age \in [User -> 0..(TTL + 1)]
    BY DEF Init
  <2>3. /\ stage \in [Proc -> {"idle", "fetch", "put"}]
        /\ who \in [Proc -> User \cup {None}]
        /\ \A p \in Proc : stage[p] # "idle" => who[p] \in User
    BY DEF Init
  <2>4. cached \in SUBSET User
    BY DEF Init
  <2>. QED  BY <2>1, <2>2, <2>3, <2>4 DEF TypeOK
<1>. QED  BY <1>2, <1>3, <1>4 DEF IInv

\* Every step preserves the invariant.
LEMMA StepIInv == IInv /\ [Next]_vars => IInv'
<1> SUFFICES ASSUME IInv, [Next]_vars PROVE IInv'
  OBVIOUS
<1>1. ASSUME UNCHANGED cacheVars PROVE Covered' /\ Bounded'
  BY <1>1 DEF IInv, Covered, Bounded, Keys, cacheVars
<1>2. ASSUME NEW p \in Proc, NEW u \in User, StartCapture(p, u) PROVE IInv'
  BY <1>1, <1>2 DEF StartCapture, IInv, TypeOK, cacheVars
<1>3. ASSUME NEW p \in Proc, Fetched(p) \/ NotFetched(p) PROVE IInv'
  BY <1>1, <1>3 DEF Fetched, NotFetched, IInv, TypeOK, cacheVars
<1>4. ASSUME NEW p \in Proc, Put(p) PROVE IInv'
  BY <1>4, StepPut
<1>5. ASSUME NEW u \in User, Get(u) \/ Forget(u) PROVE IInv'
  <2>1. UNCHANGED cacheVars \/ Drop(u)
    BY <1>5 DEF Get, Forget, Found, Missed
  <2>2. UNCHANGED signInVars
    BY <1>5 DEF Get, Forget
  <2>3. CASE UNCHANGED cacheVars
    BY <1>1, <2>2, <2>3 DEF IInv, TypeOK, cacheVars, signInVars
  <2>4. CASE Drop(u)
    BY <2>2, <2>4, StepDrop DEF IInv, TypeOK, signInVars
  <2>. QED  BY <2>1, <2>3, <2>4
<1>6. ASSUME Tick PROVE IInv'
  <2>1. age' \in [User -> 0..(TTL + 1)]
    BY <1>6 DEF Tick, IInv, TypeOK
  <2>2. Covered' /\ Bounded'
    BY <1>6 DEF Tick, IInv, Covered, Bounded, Keys
  <2>. QED  BY <1>6, <2>1, <2>2 DEF Tick, IInv, TypeOK, signInVars
<1>7. ASSUME UNCHANGED vars PROVE IInv'
  BY <1>1, <1>7 DEF IInv, TypeOK, vars, cacheVars, signInVars
<1>. QED  BY <1>2, <1>3, <1>4, <1>5, <1>6, <1>7 DEF Next

\* The invariant holds in every reachable state.
THEOREM Inductive == Spec => []IInv
<1>1. Init => IInv
  BY InitIInv
<1>2. IInv /\ [Next]_vars => IInv'
  BY StepIInv
<1>. QED  BY <1>1, <1>2, PTL DEF Spec

\* The cache never holds more than MaxEntries photos.
THEOREM AlwaysBounded == Spec => []Bounded
<1>1. IInv => Bounded
  BY DEF IInv
<1>. QED  BY <1>1, Inductive, PTL

\* Storing a photo costs at most one photo, and none while there is room.
THEOREM CostsOne == Spec => PutEvictsOne
<1>1. IInv /\ [Next]_vars =>
        [\A p \in Proc : stage[p] = "put" /\ stage'[p] = "idle" =>
           LET gone == (cached \cup {who[p]}) \ cached'
           IN  /\ Cardinality(gone) <= 1
               /\ Cardinality(cached \cup {who[p]}) <= Max => gone = {}]_vars
  <2> SUFFICES ASSUME IInv, Next, NEW p \in Proc, stage[p] = "put", stage'[p] = "idle"
               PROVE  LET gone == (cached \cup {who[p]}) \ cached'
                      IN  /\ Cardinality(gone) <= 1
                          /\ Cardinality(cached \cup {who[p]}) <= Max => gone = {}
    OBVIOUS
  <2> DEFINE u == who[p]
             queue == IF u \in cached THEN order ELSE Append(order, u)
  <2>1. Put(p)
    <3>1. stage \in [Proc -> {"idle", "fetch", "put"}]
      BY DEF IInv, TypeOK
    <3>. QED  BY <3>1 DEF Next, StartCapture, Fetched, NotFetched, Put, Get,
                          Forget, Tick, signInVars
  <2>2. /\ cached \cup {u} \in SUBSET User /\ queue \in Seq(User)
        /\ IsFiniteSet(cached \cup {u})
        /\ Cardinality(cached \cup {u}) <= Max + 1
    BY PutStarts
  <2>3. PICK n \in 0..Len(queue) :
          /\ \A m \in 0..(n - 1) : Cardinality(Evicted(cached \cup {u}, queue, m)) > Max
          /\ cached' = Evicted(cached \cup {u}, queue, n)
    BY <2>1 DEF Put, Evict
  <2> HIDE DEF queue
  <2>. QED  BY <2>2, <2>3, EvictedFew
<1>. QED  BY <1>1, Inductive, PTL DEF Spec, PutEvictsOne
=============================================================================
