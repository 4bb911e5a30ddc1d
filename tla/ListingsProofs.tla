-------------------------- MODULE ListingsProofs --------------------------
(***************************************************************************)
(* Listings and their cache, for every number of listings, queries,        *)
(* requests, writes and faults and every size of the store.  The cache is  *)
(* proved about first, operation by operation; the requests over it then   *)
(* have an invariant for each property.                                    *)
(***************************************************************************)
EXTENDS Listings, FiniteSetTheorems, TLAPS

-----------------------------------------------------------------------------
(* The cache.                                                              *)

(* What callers of the cache do to it.                                     *)
CacheOp ==
  \/ UNCHANGED cacheVars
  \/ \E k \in Keys : Get(k) \/ Expire(k)
  \/ \E K \in SUBSET Keys : Drop(K)
  \/ \E k \in Keys, v \in Values : Set(k, v)

(* Whatever is to be had is owed, and nothing owed has expired.  The keys  *)
(* after an owed one in the store were used since it was; one that was     *)
(* pushed out saw MaxEntries others used.                                  *)
CacheInv ==
  /\ \A k \in Keys : Hit(k) => k \in owed
  /\ owed \intersect expired = {}
  /\ \A k \in owed : IF data[k] # None THEN behind[k] \subseteq since[k]
                     ELSE Cardinality(since[k]) >= MaxEntries

(* No entry appears, and no value changes.                                 *)
NoNews == \A j \in Keys : Hit(j)' => Hit(j) /\ data'[j] = data[j]

LEMMA DropShape ==
  ASSUME CacheTypeOK, CacheInv, NEW K \in SUBSET Keys, Drop(K)
  PROVE  CacheTypeOK' /\ CacheInv' /\ NoNews /\ \A j \in K : ~ Hit(j)'
<1>1. /\ \A j \in Keys : data'[j] = IF j \in K THEN None ELSE data[j]
      /\ data' \in [Keys -> Values \union {None}]
  BY DEF Drop, Without, CacheTypeOK
<1>2. /\ \A j \in Keys : behind'[j] = IF j \in K THEN {} ELSE behind[j] \ K
      /\ behind' \in [Keys -> SUBSET Keys]
  BY DEF Drop, CacheTypeOK
<1>3. /\ \A j \in Keys : since'[j] = IF j \in K THEN {} ELSE since[j]
      /\ since' \in [Keys -> SUBSET Keys]
  BY DEF Drop, CacheTypeOK
<1>4. expired' = expired \ K /\ owed' = owed \ K /\ backend' = backend
  BY DEF Drop
<1>5. CacheTypeOK'
  BY <1>1, <1>2, <1>3, <1>4 DEF CacheTypeOK, Present
<1>6. NoNews /\ \A j \in K : ~ Hit(j)'
  BY <1>1, <1>4 DEF NoNews, Hit, Present
<1>7. CacheInv'
  <2>1. \A k \in Keys : Hit(k)' => k \in owed'
    BY <1>4, <1>6 DEF CacheInv, NoNews
  <2>2. owed' \intersect expired' = {}
    BY <1>4 DEF CacheInv
  <2>3. ASSUME NEW k \in owed'
        PROVE  IF data'[k] # None THEN behind'[k] \subseteq since'[k]
               ELSE Cardinality(since'[k]) >= MaxEntries
    <3>1. k \in owed /\ k \notin K /\ k \in Keys
      BY <1>4 DEF CacheTypeOK
    <3>2. data'[k] = data[k] /\ behind'[k] \subseteq behind[k] /\ since'[k] = since[k]
      BY <1>1, <1>2, <1>3, <3>1
    <3>3. QED
      BY <3>1, <3>2 DEF CacheInv
  <2>4. QED
    BY <2>1, <2>2, <2>3 DEF CacheInv
<1>8. QED
  BY <1>5, <1>6, <1>7

(* How use counts.                                                         *)
LEMMA UsedShape ==
  ASSUME CacheTypeOK, NEW k \in Keys, Used(k)
  PROVE  /\ since' \in [Keys -> SUBSET Keys]
         /\ \A j \in owed \ {k} : /\ since'[j] = since[j] \union {k}
                                  /\ Cardinality(since'[j]) \in Nat
                                  /\ Cardinality(since'[j]) >= Cardinality(since[j])
<1>1. /\ since' \in [Keys -> SUBSET Keys]
      /\ \A j \in owed \ {k} : since'[j] = since[j] \union {k}
  BY DEF Used, CacheTypeOK
<1>2. ASSUME NEW j \in owed \ {k}
      PROVE  Cardinality(since'[j]) \in Nat /\ Cardinality(since'[j]) >= Cardinality(since[j])
  <2>1. since[j] \subseteq since'[j] /\ since'[j] \in SUBSET Keys
    BY <1>1 DEF CacheTypeOK
  <2>2. IsFiniteSet(since'[j])
    BY <2>1, FS_Subset, CacheAssumption
  <2>3. since[j] \in SUBSET since'[j]
    BY <2>1
  <2>4. Cardinality(since'[j]) \in Nat
    BY <2>2, FS_CardinalityType
  <2>5. Cardinality(since[j]) <= Cardinality(since'[j])
    BY <2>2, <2>3, FS_Subset
  <2>6. Cardinality(since[j]) \in Nat
    BY <2>2, <2>3, FS_Subset, FS_CardinalityType
  <2>7. QED
    BY <2>4, <2>5, <2>6
<1>3. QED
  BY <1>1, <1>2

LEMMA GetShape ==
  ASSUME CacheTypeOK, CacheInv, NEW k \in Keys, Get(k)
  PROVE  CacheTypeOK' /\ CacheInv' /\ NoNews
<1>1. CASE k \notin Present /\ UNCHANGED cacheVars
  BY <1>1 DEF cacheVars, CacheTypeOK, CacheInv, NoNews, Hit, Present
<1>2. CASE Drop({k})
  BY <1>2, DropShape
<1>3. CASE /\ Hit(k) /\ behind' = MovedToEnd(k, Present) /\ Used(k)
           /\ UNCHANGED <<backend, data, expired, owed>>
  <2>1. /\ behind' \in [Keys -> SUBSET Keys]
        /\ \A j \in Present \ {k} : behind'[j] \subseteq behind[j] \union {k}
        /\ behind'[k] = {}
    BY <1>3 DEF MovedToEnd, Present, CacheTypeOK
  <2>2. CacheTypeOK' /\ NoNews
    BY <1>3, <2>1, UsedShape DEF CacheTypeOK, NoNews, Hit, Present
  <2>3. \A j \in Keys : Hit(j)' => j \in owed'
    BY <1>3 DEF CacheInv, Hit, Present
  <2>4. ASSUME NEW j \in owed'
        PROVE  IF data'[j] # None THEN behind'[j] \subseteq since'[j]
               ELSE Cardinality(since'[j]) >= MaxEntries
    <3>1. j \in owed /\ j \in Keys /\ data'[j] = data[j]
      BY <1>3 DEF CacheTypeOK
    <3>2. CASE j = k
      BY <1>3, <2>1, <3>1, <3>2 DEF Hit, Present
    <3>3. CASE j # k /\ data[j] # None
      <4>1. behind[j] \subseteq since[j] /\ j \in Present
        BY <3>1, <3>3 DEF CacheInv, Present
      <4>2. since'[j] = since[j] \union {k}
        BY <1>3, <3>1, <3>3, UsedShape
      <4>3. QED
        BY <2>1, <3>1, <3>3, <4>1, <4>2
    <3>4. CASE j # k /\ data[j] = None
      <4>1. Cardinality(since[j]) >= MaxEntries /\ Cardinality(since[j]) \in Nat
        <5>1. since[j] \in SUBSET Keys
          BY <3>1 DEF CacheTypeOK
        <5>2. QED
          BY <3>1, <3>4, <5>1, FS_Subset, FS_CardinalityType, CacheAssumption DEF CacheInv
      <4>2. Cardinality(since'[j]) \in Nat /\ Cardinality(since'[j]) >= Cardinality(since[j])
        BY <1>3, <3>1, <3>4, UsedShape
      <4>3. QED
        BY <3>1, <3>4, <4>1, <4>2, CacheAssumption
    <3>5. QED
      BY <3>2, <3>3, <3>4
  <2>5. owed' \intersect expired' = {}
    BY <1>3 DEF CacheInv
  <2>6. QED
    BY <2>2, <2>3, <2>4, <2>5 DEF CacheInv
<1>4. QED
  BY <1>1, <1>2, <1>3 DEF Get

LEMMA ExpireShape ==
  ASSUME CacheTypeOK, CacheInv, NEW k \in Keys, Expire(k)
  PROVE  CacheTypeOK' /\ CacheInv' /\ NoNews
<1>1. /\ Hit(k) /\ expired' = expired \union {k} /\ owed' = owed \ {k}
      /\ data' = data /\ behind' = behind /\ backend' = backend
      /\ since' \in [Keys -> SUBSET Keys] /\ \A j \in Keys \ {k} : since'[j] = since[j]
  BY DEF Expire, CacheTypeOK
<1>2. CacheTypeOK' /\ NoNews
  BY <1>1 DEF CacheTypeOK, NoNews, Hit, Present
<1>3. CacheInv'
  BY <1>1 DEF CacheInv, CacheTypeOK, Hit, Present
<1>4. QED
  BY <1>2, <1>3

(* What a store pushes out: nothing, or the one entry all others are       *)
(* behind of, which is not the new one.                                    *)
Pushed(k, v, E) ==
  /\ \A j \in Keys : data'[j] = IF j \in E THEN None ELSE IF j = k THEN v ELSE data[j]
  /\ data' \in [Keys -> Values \union {None}]
  /\ expired' = expired \ ({k} \union E)
  /\ behind' \in [Keys -> SUBSET Keys] /\ behind'[k] = {}
  /\ \A j \in Keys : data'[j] # None => behind'[j] \subseteq behind[j] \union {k}
  /\ \A j \in E : \E S \in SUBSET (behind[j] \union {k}) :
       IsFiniteSet(S) /\ Cardinality(S) >= MaxEntries
  /\ Used(k) /\ owed' = owed \union {k} /\ backend' = backend

LEMMA SetShape ==
  ASSUME CacheTypeOK, NEW k \in Keys, NEW v \in Values, Set(k, v)
  PROVE  \E E \in SUBSET (Keys \ {k}) : Pushed(k, v, E)
<1> DEFINE P == Present \union {k}
           order == MovedToEnd(k, P)
<1>3. /\ P \in SUBSET Keys /\ k \in P /\ IsFiniteSet(P)
      /\ order \in [Keys -> SUBSET Keys] /\ order[k] = {}
      /\ \A j \in Keys : order[j] \subseteq behind[j] \union {k}
  <2>1. P \in SUBSET Keys /\ k \in P
    BY DEF Present
  <2>2. IsFiniteSet(P)
    BY <2>1, FS_Subset, CacheAssumption
  <2>3. QED
    BY <2>1, <2>2 DEF MovedToEnd, CacheTypeOK
<1>4. PICK E \in SUBSET P :
        /\ IF backend = "memory" /\ Cardinality(P) > MaxEntries
           THEN \E front \in P : E = {front} /\ P \ {front} \subseteq order[front]
           ELSE E = {}
        /\ data' = Without([data EXCEPT ![k] = v], E)
        /\ expired' = expired \ ({k} \union E)
        /\ behind' = [j \in Keys |-> IF j \in E THEN {} ELSE order[j] \ E]
  BY DEF Set
<1> HIDE DEF P, order
<1>5. /\ \A j \in Keys : data'[j] = IF j \in E THEN None ELSE IF j = k THEN v ELSE data[j]
      /\ data' \in [Keys -> Values \union {None}]
  BY <1>4 DEF Without, CacheTypeOK
<1>6. /\ behind' \in [Keys -> SUBSET Keys] /\ behind'[k] = {}
      /\ \A j \in Keys : data'[j] # None => behind'[j] \subseteq behind[j] \union {k}
  BY <1>3, <1>4
<1>7. \A j \in E : \E S \in SUBSET (behind[j] \union {k}) :
         IsFiniteSet(S) /\ Cardinality(S) >= MaxEntries /\ j # k
  <2>1. SUFFICES ASSUME NEW j \in E
                 PROVE  \E S \in SUBSET (behind[j] \union {k}) :
                          IsFiniteSet(S) /\ Cardinality(S) >= MaxEntries /\ j # k
    OBVIOUS
  <2>2. j \in P /\ P \ {j} \subseteq order[j] /\ Cardinality(P) > MaxEntries
    BY <1>4
  <2>3. /\ IsFiniteSet(P \ {j}) /\ Cardinality(P) \in Nat
        /\ Cardinality(P \ {j}) = Cardinality(P) - 1
    BY <1>3, <2>2, FS_RemoveElement, FS_CardinalityType
  <2>4. MaxEntries \in Nat /\ MaxEntries > 0
    BY CacheAssumption
  <2>5. Cardinality(P \ {j}) >= MaxEntries
    BY <2>2, <2>3, <2>4
  <2>6. j # k
    <3>1. SUFFICES ASSUME j = k PROVE FALSE
      OBVIOUS
    <3>2. P \ {j} = {}
      BY <1>3, <2>2, <3>1
    <3>3. Cardinality(P \ {j}) = 0
      BY <3>2, FS_EmptySet
    <3>4. QED
      BY <2>4, <2>5, <3>3
  <2>7. P \ {j} \in SUBSET (behind[j] \union {k})
    BY <1>3, <2>2
  <2>8. QED
    BY <2>3, <2>5, <2>6, <2>7
<1>8. E \in SUBSET (Keys \ {k})
  BY <1>3, <1>7
<1>9. Used(k) /\ owed' = owed \union {k} /\ backend' = backend
  BY DEF Set
<1>10. Pushed(k, v, E)
  BY <1>4, <1>5, <1>6, <1>7, <1>9 DEF Pushed
<1>11. QED
  BY <1>8, <1>10

(* After a store the key has its value, and no other has a new one.        *)
Stored(k, v) ==
  /\ Hit(k)' /\ data'[k] = v
  /\ \A j \in Keys \ {k} : Hit(j)' => Hit(j) /\ data'[j] = data[j]

LEMMA SetStep ==
  ASSUME CacheTypeOK, CacheInv, NEW k \in Keys, NEW v \in Values, Set(k, v)
  PROVE  CacheTypeOK' /\ CacheInv' /\ Stored(k, v)
<1>1. PICK E \in SUBSET (Keys \ {k}) : Pushed(k, v, E)
  BY SetShape
<1>2. v # None
  BY CacheAssumption
<1>3. /\ since' \in [Keys -> SUBSET Keys]
      /\ \A j \in owed \ {k} : /\ since'[j] = since[j] \union {k}
                               /\ Cardinality(since'[j]) \in Nat
                               /\ Cardinality(since'[j]) >= Cardinality(since[j])
  BY <1>1, UsedShape DEF Pushed
<1>4. Stored(k, v)
  BY <1>1, <1>2 DEF Pushed, Stored, Hit, Present
<1>5. CacheTypeOK'
  BY <1>1, <1>2, <1>3 DEF Pushed, CacheTypeOK, Present
<1>6. ASSUME NEW j \in owed'
      PROVE  IF data'[j] # None THEN behind'[j] \subseteq since'[j]
             ELSE Cardinality(since'[j]) >= MaxEntries
  <2>1. j \in Keys /\ (j \in owed \/ j = k)
    BY <1>1 DEF Pushed, CacheTypeOK
  <2>2. CASE j = k
    BY <1>1, <1>2, <2>2 DEF Pushed
  <2>3. CASE j # k /\ data'[j] # None
    <3>1. data[j] # None /\ behind'[j] \subseteq behind[j] \union {k}
      BY <1>1, <2>1, <2>3 DEF Pushed
    <3>2. behind[j] \subseteq since[j]
      BY <2>1, <2>3, <3>1 DEF CacheInv
    <3>3. QED
      BY <1>3, <2>1, <2>3, <3>1, <3>2
  <2>4. CASE j # k /\ j \in E
    <3>1. PICK S \in SUBSET (behind[j] \union {k}) : IsFiniteSet(S) /\ Cardinality(S) >= MaxEntries
      BY <1>1, <2>4 DEF Pushed
    <3>2. CASE data[j] # None
      <4>1. behind[j] \subseteq since[j]
        BY <2>1, <2>4, <3>2 DEF CacheInv
      <4>2. S \in SUBSET since'[j] /\ since'[j] \in SUBSET Keys
        BY <1>3, <2>1, <2>4, <4>1
      <4>3. IsFiniteSet(since'[j])
        BY <4>2, FS_Subset, CacheAssumption
      <4>4. Cardinality(S) <= Cardinality(since'[j]) /\ Cardinality(S) \in Nat /\ Cardinality(since'[j]) \in Nat
        BY <3>1, <4>2, <4>3, FS_Subset, FS_CardinalityType
      <4>5. Cardinality(since'[j]) >= MaxEntries
        BY <3>1, <4>4, CacheAssumption
      <4>6. data'[j] = None
        BY <1>1, <2>1, <2>4 DEF Pushed
      <4>7. QED
        BY <4>5, <4>6
    <3>3. CASE data[j] = None
      <4>1. Cardinality(since[j]) >= MaxEntries
        BY <2>1, <2>4, <3>3 DEF CacheInv
      <4>2. since[j] \in SUBSET Keys
        BY <2>1 DEF CacheTypeOK
      <4>3. Cardinality(since[j]) \in Nat
        BY <4>2, FS_Subset, FS_CardinalityType, CacheAssumption
      <4>4. Cardinality(since'[j]) >= MaxEntries
        BY <1>3, <2>1, <2>4, <4>1, <4>3, CacheAssumption
      <4>5. data'[j] = None
        BY <1>1, <2>1, <2>4 DEF Pushed
      <4>6. QED
        BY <4>4, <4>5
    <3>4. QED
      BY <3>2, <3>3
  <2>5. CASE j # k /\ j \notin E /\ data'[j] = None
    <3>1. data[j] = None
      BY <1>1, <2>1, <2>5 DEF Pushed
    <3>2. Cardinality(since[j]) >= MaxEntries
      BY <2>1, <2>5, <3>1 DEF CacheInv
    <3>3. since[j] \in SUBSET Keys
      BY <2>1 DEF CacheTypeOK
    <3>4. Cardinality(since[j]) \in Nat
      BY <3>3, FS_Subset, FS_CardinalityType, CacheAssumption
    <3>5. Cardinality(since'[j]) >= MaxEntries
      BY <1>3, <2>1, <2>5, <3>2, <3>4, CacheAssumption
    <3>6. QED
      BY <2>5, <3>5
  <2>6. QED
    BY <2>2, <2>3, <2>4, <2>5
<1>7. \A j \in Keys : Hit(j)' => j \in owed'
  BY <1>1, <1>4 DEF Stored, CacheInv, Pushed
<1>8. owed' \intersect expired' = {}
  BY <1>1 DEF CacheInv, Pushed
<1>9. QED
  BY <1>4, <1>5, <1>6, <1>7, <1>8 DEF CacheInv

LEMMA CacheStep ==
  ASSUME CacheTypeOK, CacheInv, CacheOp
  PROVE  CacheTypeOK' /\ CacheInv'
<1>1. CASE UNCHANGED cacheVars
  BY <1>1 DEF cacheVars, CacheTypeOK, CacheInv, Hit, Present
<1>2. QED
  BY <1>1, GetShape, ExpireShape, DropShape, SetStep DEF CacheOp

(* Every operation of the cache is one of a lossy map, or changes nothing. *)
LEMMA LossyStep ==
  ASSUME CacheTypeOK, CacheInv, CacheOp
  PROVE  Lossy!Next \/ UNCHANGED Lossy!vars
<1> DEFINE m == [k \in Keys |-> IF k \in expired THEN None ELSE data[k]]
<1>a. CacheTypeOK' /\ CacheInv'
  BY CacheStep
<1>b. \A k \in Keys : m'[k] # None => k \in owed'
  BY <1>a DEF CacheInv, Hit, Present
<1>1. CASE UNCHANGED cacheVars
  BY <1>1 DEF cacheVars, Lossy!vars
<1>2. ASSUME NEW K \in SUBSET Keys, Drop(K) PROVE Lossy!Next
  <2>1. \A k \in Keys : m'[k] = IF k \in K THEN None ELSE m[k]
    BY <1>2 DEF Drop, Without, CacheTypeOK
  <2>2. m' = Lossy!Forgotten(m, K)
    BY <2>1 DEF Lossy!Forgotten
  <2>3. owed' \in SUBSET owed
    BY <1>2 DEF Drop
  <2>4. Lossy!Forget
    BY <1>b, <2>2, <2>3 DEF Lossy!Forget
  <2>5. QED
    BY <2>4 DEF Lossy!Next
<1>3. ASSUME NEW k \in Keys, Expire(k) PROVE Lossy!Next
  <2>1. \A j \in Keys : m'[j] = IF j \in {k} THEN None ELSE m[j]
    BY <1>3 DEF Expire
  <2>2. m' = Lossy!Forgotten(m, {k})
    BY <2>1 DEF Lossy!Forgotten
  <2>3. owed' \in SUBSET owed /\ {k} \in SUBSET Keys
    BY <1>3 DEF Expire
  <2>4. Lossy!Forget
    BY <1>b, <2>2, <2>3 DEF Lossy!Forget
  <2>5. QED
    BY <2>4 DEF Lossy!Next
<1>4. ASSUME NEW k \in Keys, Get(k) PROVE Lossy!Next \/ UNCHANGED Lossy!vars
  <2>1. CASE UNCHANGED cacheVars
    BY <1>1, <2>1
  <2>2. CASE Drop({k})
    BY <1>2, <2>2
  <2>3. CASE UNCHANGED <<backend, data, expired, owed>>
    BY <2>3 DEF Lossy!vars
  <2>4. QED
    BY <1>4, <2>1, <2>2, <2>3 DEF Get
<1>5. ASSUME NEW k \in Keys, NEW v \in Values, Set(k, v) PROVE Lossy!Next
  <2>1. PICK E \in SUBSET (Keys \ {k}) : Pushed(k, v, E)
    BY <1>5, SetShape
  <2>2. \A j \in Keys : m'[j] = IF j \in E THEN None ELSE IF j = k THEN v ELSE m[j]
    BY <2>1, CacheAssumption DEF Pushed
  <2>3. [m EXCEPT ![k] = v] \in [Keys -> Values \union {None}]
    BY DEF CacheTypeOK
  <2>4. m' = Lossy!Forgotten([m EXCEPT ![k] = v], E)
    BY <2>2, <2>3 DEF Lossy!Forgotten
  <2>5. owed' = owed \union {k}
    BY <2>1 DEF Pushed
  <2>6. Lossy!Put(k, v)
    BY <2>4, <2>5 DEF Lossy!Put
  <2>7. QED
    BY <2>6 DEF Lossy!Next
<1>6. QED
  BY <1>1, <1>2, <1>3, <1>4, <1>5 DEF CacheOp

-----------------------------------------------------------------------------
(* Requests.                                                               *)

Steps == {"idle", "query", "store", "insert", "write", "clear", "enrich", "publish",
          "validate", "fetch", "keep", "shown"}
ReqType == [at : Steps, key : Keys, prop : Properties \union {Nothing},
            via : {"agent", "route", "task"}, vec : Texts \union {NoVector},
            patch : [text : Texts \union {Keep}, status : {"published", "rented", "delisted", Keep},
                     featured : BOOLEAN \union {Keep}],
            snap : Results, crossed : BOOLEAN, shut : SUBSET Properties,
            todo : SUBSET Properties, due : SUBSET Queries]
ReqOK == req \in [Handlers -> ReqType]

(* Whoever clears, or has a route behind it, holds a listing.              *)
Owned == \A h \in Handlers :
           req[h].at = "clear" \/ req[h].via = "route" => req[h].prop \in Properties

Rows == /\ text \in [Properties -> Texts] /\ vector \in [Properties -> Texts \union {NoVector}]
        /\ status \in [Properties -> {"absent", "draft", "published", "rented", "delisted"}]

LEMMA ResultTyped ==
  ASSUME NEW S \in SUBSET Properties, NEW v \in [Properties -> Texts]
  PROVE  {<<p, v[p]>> : p \in S} \in Results
BY DEF Results

LEMMA EmptyResult == {} \in Results
<1>1. PICK t \in Texts : TRUE
  BY ListingsAssumption
<1>2. [p \in Properties |-> t] \in [Properties -> Texts]
  OBVIOUS
<1>3. PICK v \in [Properties -> Texts] : TRUE
  BY <1>2
<1>4. {} = {<<p, v[p]>> : p \in {}}
  OBVIOUS
<1>5. {} \in SUBSET Properties
  OBVIOUS
<1>6. QED
  BY <1>3, <1>4, <1>5, ResultTyped

LEMMA ShownTyped ==
  ASSUME Rows
  PROVE  Visible \in Results /\ OnOffer \in Results
<1>1. {q \in Properties : status[q] = "published" /\ vector[q] # NoVector} \in SUBSET Properties
  OBVIOUS
<1>2. Open \in SUBSET Properties
  BY DEF Open
<1>3. text \in [Properties -> Texts]
  BY DEF Rows
<1>4. Visible \in Results
  BY <1>1, <1>3, ResultTyped DEF Visible
<1>5. OnOffer \in Results
  BY <1>2, <1>3, ResultTyped DEF OnOffer
<1>6. QED
  BY <1>4, <1>5

LEMMA IdleTyped == Idle \in ReqType
<1>1. Featured \in Keys
  BY ListingsAssumption
<1>2. QED
  BY <1>1, EmptyResult DEF Idle, ReqType, Steps

(* A request that only changes itself.                                     *)
Calm(h) == \A k \in Handlers \ {h} : req'[k] = req[k]

LEMMA Becomes ==
  ASSUME ReqOK, NEW h \in Handlers, NEW e \in ReqType, req' = [req EXCEPT ![h] = e]
  PROVE  ReqOK' /\ req'[h] = e /\ Calm(h)
BY DEF ReqOK, Calm

(* What a request keeps while another one writes a row.                    *)
Alike(k) ==
  /\ req'[k].at = req[k].at /\ req'[k].key = req[k].key /\ req'[k].prop = req[k].prop
  /\ req'[k].via = req[k].via /\ req'[k].vec = req[k].vec /\ req'[k].snap = req[k].snap
  /\ req'[k].patch = req[k].patch /\ req'[k].todo = req[k].todo
Tells(k) ==
  /\ Alike(k) /\ req'[k].due = req[k].due
  /\ req'[k].shut = req[k].shut \ Open'
  /\ req'[k].crossed = (req[k].crossed \/ (req[k].at = "store" /\ Visible' # Visible))

LEMMA WroteShape ==
  ASSUME ReqOK, NEW h \in Handlers, NEW e \in ReqType, Wrote(h, e)
  PROVE  ReqOK' /\ req'[h] = e /\ \A k \in Handlers \ {h} : Tells(k)
<1>1. req'[h] = e /\ req' = [k \in Handlers |-> req'[k]]
  BY DEF Wrote
<1>2. ASSUME NEW k \in Handlers \ {h}
      PROVE  req'[k] \in ReqType /\ Tells(k)
  <2>1. PICK r : r = req[k]
    OBVIOUS
  <2>2. r \in ReqType
    BY <2>1 DEF ReqOK
  <2>3. PICK c : c = (r.crossed \/ (r.at = "store" /\ Visible' # Visible))
    OBVIOUS
  <2>4. PICK s : s = r.shut \ Open'
    OBVIOUS
  <2>5. c \in BOOLEAN
    BY <2>3
  <2>6. s \in SUBSET Properties
    BY <2>2, <2>4 DEF ReqType
  <2>7. PICK d : d = [r EXCEPT !.crossed = c, !.shut = s]
    OBVIOUS
  <2>8. d \in ReqType
    BY <2>2, <2>5, <2>6, <2>7 DEF ReqType
  <2>9. /\ d.at = r.at /\ d.key = r.key /\ d.prop = r.prop /\ d.via = r.via /\ d.vec = r.vec
        /\ d.snap = r.snap /\ d.patch = r.patch /\ d.todo = r.todo /\ d.due = r.due
        /\ d.crossed = c /\ d.shut = s
    BY <2>2, <2>7 DEF ReqType
  <2>10. req'[k] = d
    BY <2>1, <2>3, <2>4, <2>7 DEF Wrote
  <2>11. QED
    BY <2>1, <2>3, <2>4, <2>8, <2>9, <2>10 DEF Tells, Alike
<1>3. QED
  BY <1>1, <1>2 DEF ReqOK

Base == TypeOK /\ ReqOK /\ Owned

LEMMA IdleFields ==
  /\ Idle.at = "idle" /\ Idle.key = Featured /\ Idle.prop = Nothing /\ Idle.via = "agent"
  /\ Idle.crossed = FALSE
BY DEF Idle

LEMMA ClearingShape ==
  ASSUME ReqOK, NEW h \in Handlers
  PROVE  /\ Clearing(h) \in ReqType /\ Clearing(h).at = "clear"
         /\ Clearing(h).prop = req[h].prop /\ Clearing(h).via = req[h].via
         /\ Clearing(h).due = {q \in Queries : Hit(q)}
<1>1. PICK r : r = req[h]
  OBVIOUS
<1>2. r \in ReqType
  BY <1>1 DEF ReqOK
<1>3. PICK D \in SUBSET Queries : D = {q \in Queries : Hit(q)}
  OBVIOUS
<1>4. PICK e : e = [Idle EXCEPT !.at = "clear", !.prop = r.prop, !.via = r.via, !.due = D]
  OBVIOUS
<1>5. e \in ReqType
  BY <1>2, <1>4, IdleTyped DEF ReqType, Steps
<1>6. e.at = "clear" /\ e.prop = r.prop /\ e.via = r.via /\ e.due = D
  BY <1>4, IdleTyped DEF ReqType
<1>7. QED
  BY <1>1, <1>3, <1>4, <1>5, <1>6 DEF Clearing

(* A request that has cleared ends, or starts its enrichment.              *)
Ended(h) ==
  \/ req'[h] = Idle
  \/ /\ req'[h].at = "enrich" /\ req'[h].via = "task"
     /\ req'[h].prop = req[h].prop /\ req[h].prop \in Properties

LEMMA DoneShape ==
  ASSUME Base, NEW h \in Handlers, Done(h)
  PROVE  ReqOK' /\ Calm(h) /\ Ended(h)
<1>1. CASE req[h].via = "route"
  <2>1. PICK p \in Properties : p = req[h].prop
    BY <1>1 DEF Base, Owned
  <2>2. PICK e : e = [Idle EXCEPT !.at = "enrich", !.prop = p, !.via = "task"]
    OBVIOUS
  <2>3. e \in ReqType
    BY <2>2, IdleTyped DEF ReqType, Steps
  <2>4. e.at = "enrich" /\ e.prop = p /\ e.via = "task"
    BY <2>2, IdleTyped DEF ReqType
  <2>5. req' = [req EXCEPT ![h] = e]
    BY <1>1, <2>1, <2>2 DEF Done
  <2>6. QED
    BY <2>1, <2>3, <2>4, <2>5, Becomes DEF Ended, Base
<1>2. CASE req[h].via # "route"
  <2>1. req' = [req EXCEPT ![h] = Idle]
    BY <1>2 DEF Done
  <2>2. QED
    BY <2>1, Becomes, IdleTyped DEF Ended, Base
<1>3. QED
  BY <1>1, <1>2

LEMMA GoesOnShape ==
  ASSUME ReqOK, NEW h \in Handlers, NEW entry \in GoesOn(h)
  PROVE  /\ entry \in ReqType
         /\ \/ entry = Idle
            \/ entry.at = "enrich" /\ entry.prop \in Properties /\ entry.via = req[h].via
<1>1. CASE req[h].todo = {}
  BY <1>1, IdleTyped DEF GoesOn
<1>2. CASE req[h].todo # {}
  <2>1. PICK r : r = req[h]
    OBVIOUS
  <2>2. r \in ReqType
    BY <2>1 DEF ReqOK
  <2>3. PICK p \in r.todo : entry = [r EXCEPT !.at = "enrich", !.prop = p, !.todo = r.todo \ {p}]
    BY <1>2, <2>1 DEF GoesOn
  <2>4. p \in Properties /\ r.todo \ {p} \in SUBSET Properties
    BY <2>2, <2>3 DEF ReqType
  <2>5. entry \in ReqType
    BY <2>2, <2>3, <2>4 DEF ReqType, Steps
  <2>6. entry.at = "enrich" /\ entry.prop = p /\ entry.via = r.via
    BY <2>2, <2>3 DEF ReqType
  <2>7. QED
    BY <2>1, <2>4, <2>5, <2>6
<1>3. QED
  BY <1>1, <1>2

LEMMA SearchGetReq ==
  ASSUME Base, NEW h \in Handlers, NEW q \in Queries, SearchGet(h, q)
  PROVE  /\ ReqOK' /\ Calm(h) /\ req[h].at = "idle"
         /\ req'[h].at = "query" /\ req'[h].key = q /\ req'[h].prop = Nothing /\
            req'[h].via = "agent" /\ req'[h].crossed = FALSE
<1>1. PICK r : r = req[h]
  OBVIOUS
<1>2. r \in ReqType
  BY <1>1 DEF Base, ReqOK
<1>3. q \in Keys
  BY ListingsAssumption
<1>4. PICK e : e = [Idle EXCEPT !.at = "query", !.key = q]
  OBVIOUS
<1>5. e \in ReqType
  BY <1>2, <1>4, IdleTyped, <1>3 DEF ReqType, Steps
<1>6. e.at = "query" /\ e.key = q /\ e.prop = Nothing /\ e.via = "agent" /\
        e.crossed = FALSE
  BY <1>2, <1>4, IdleTyped, IdleFields, <1>3 DEF ReqType
<1>7. req' = [req EXCEPT ![h] = e] /\ req[h].at = "idle"
  BY <1>1, <1>4, IdleFields, <1>3 DEF SearchGet
<1>8. QED
  BY <1>1, <1>5, <1>6, <1>7, Becomes, <1>3 DEF Base

LEMMA SearchQueryReq ==
  ASSUME Base, NEW h \in Handlers, SearchQuery(h)
  PROVE  /\ ReqOK' /\ Calm(h) /\ req[h].at = "query"
         /\ req'[h].at = "store" /\ req'[h].key = req[h].key /\ req'[h].prop =
            req[h].prop /\ req'[h].via = req[h].via /\ req'[h].vec = req[h].vec
            /\ req'[h].snap = Visible /\ req'[h].crossed = req[h].crossed /\
            req'[h].shut = req[h].shut /\ req'[h].due = req[h].due
<1>1. PICK r : r = req[h]
  OBVIOUS
<1>2. r \in ReqType
  BY <1>1 DEF Base, ReqOK
<1>3. Visible \in Results
  BY ShownTyped DEF Base, TypeOK, Rows
<1>4. PICK e : e = [r EXCEPT !.at = "store", !.snap = Visible]
  OBVIOUS
<1>5. e \in ReqType
  BY <1>2, <1>4, IdleTyped, <1>3 DEF ReqType, Steps
<1>6. e.at = "store" /\ e.key = r.key /\ e.prop = r.prop /\ e.via = r.via /\
        e.vec = r.vec /\ e.snap = Visible /\ e.crossed = r.crossed /\ e.shut =
        r.shut /\ e.due = r.due
  BY <1>2, <1>4, IdleTyped, IdleFields, <1>3 DEF ReqType
<1>7. req' = [req EXCEPT ![h] = e] /\ req[h].at = "query"
  BY <1>1, <1>4, IdleFields, <1>3 DEF SearchQuery
<1>8. QED
  BY <1>1, <1>5, <1>6, <1>7, Becomes, <1>3 DEF Base

LEMMA CreateInsertReq ==
  ASSUME Base, NEW h \in Handlers, CreateInsert(h)
  PROVE  /\ ReqOK' /\ Calm(h) /\ req[h].at = "insert"
         /\ req'[h].at = "clear" /\ req'[h].key = Featured /\ req'[h].prop =
            req[h].prop /\ req'[h].via = req[h].via /\ req'[h].crossed = FALSE
            /\ req'[h].due = {q \in Queries : Hit(q)}
<1>1. PICK r : r = req[h]
  OBVIOUS
<1>2. r \in ReqType
  BY <1>1 DEF Base, ReqOK
<1>4. PICK e : e = [Idle EXCEPT !.at = "clear", !.prop = r.prop, !.via = r.via,
        !.due = {q \in Queries : Hit(q)}]
  OBVIOUS
<1>5. e \in ReqType
  BY <1>2, <1>4, IdleTyped DEF ReqType, Steps
<1>6. e.at = "clear" /\ e.key = Featured /\ e.prop = r.prop /\ e.via = r.via /\
        e.crossed = FALSE /\ e.due = {q \in Queries : Hit(q)}
  BY <1>2, <1>4, IdleTyped, IdleFields DEF ReqType
<1>7. req' = [req EXCEPT ![h] = e] /\ req[h].at = "insert"
  BY <1>1, <1>4, IdleFields DEF CreateInsert, Clearing
<1>8. QED
  BY <1>1, <1>5, <1>6, <1>7, Becomes DEF Base

(* An owner starts to edit p.                                              *)
BeginsUpdate(h, p) ==
  \E via \in {"agent", "route"}, patch \in Patches : UpdateRead(h, p, via, patch)

LEMMA UpdateReadReq ==
  ASSUME Base, NEW h \in Handlers, NEW p \in Properties, BeginsUpdate(h, p)
  PROVE  /\ ReqOK' /\ Calm(h) /\ req[h].at = "idle" /\ req'[h].at = "write"
         /\ req'[h].key = Featured /\ req'[h].prop = p
         /\ req'[h].via \in {"agent", "route"} /\ req'[h].crossed = FALSE
<1>1. PICK via \in {"agent", "route"}, patch \in Patches : UpdateRead(h, p, via, patch)
  BY DEF BeginsUpdate
<1>2. PICK e : e = [Idle EXCEPT !.at = "write", !.prop = p, !.via = via, !.patch = patch]
  OBVIOUS
<1>3. e \in ReqType
  BY <1>2, IdleTyped, ListingsAssumption DEF ReqType, Steps
<1>4. /\ e.at = "write" /\ e.key = Featured /\ e.prop = p
      /\ e.via \in {"agent", "route"} /\ e.crossed = FALSE
  BY <1>2, IdleTyped, IdleFields DEF ReqType
<1>5. req' = [req EXCEPT ![h] = e] /\ req[h].at = "idle"
  BY <1>1, <1>2, IdleFields DEF UpdateRead, Enter
<1>6. ReqOK' /\ req'[h] = e /\ Calm(h)
  BY <1>3, <1>5, Becomes DEF Base
<1>7. QED
  BY <1>4, <1>5, <1>6

LEMMA RefusedReq ==
  ASSUME Base, NEW h \in Handlers, NEW p \in Properties, Refused(h, p)
  PROVE  /\ ReqOK' /\ Calm(h) /\ req[h].at = "idle"
         /\ req'[h].at = "enrich" /\ req'[h].key = Featured /\ req'[h].prop = p
            /\ req'[h].via = "task" /\ req'[h].crossed = FALSE
<1>1. PICK r : r = req[h]
  OBVIOUS
<1>2. r \in ReqType
  BY <1>1 DEF Base, ReqOK
<1>4. PICK e : e = [Idle EXCEPT !.at = "enrich", !.prop = p, !.via = "task"]
  OBVIOUS
<1>5. e \in ReqType
  BY <1>2, <1>4, IdleTyped DEF ReqType, Steps
<1>6. e.at = "enrich" /\ e.key = Featured /\ e.prop = p /\ e.via = "task" /\
        e.crossed = FALSE
  BY <1>2, <1>4, IdleTyped, IdleFields DEF ReqType
<1>7. req' = [req EXCEPT ![h] = e] /\ req[h].at = "idle"
  BY <1>1, <1>4, IdleFields DEF Refused, Enter
<1>8. QED
  BY <1>1, <1>5, <1>6, <1>7, Becomes DEF Base

LEMMA EnrichReadReq ==
  ASSUME Base, NEW h \in Handlers, EnrichRead(h)
  PROVE  /\ ReqOK' /\ Calm(h) /\ req[h].at = "enrich"
         /\ req'[h].at = "publish" /\ req'[h].key = req[h].key /\ req'[h].prop =
            req[h].prop /\ req'[h].via = req[h].via /\ req'[h].vec =
            text[req[h].prop] /\ req'[h].snap = req[h].snap /\ req'[h].crossed =
            req[h].crossed /\ req'[h].shut = req[h].shut /\ req'[h].due =
            req[h].due
<1>1. PICK r : r = req[h]
  OBVIOUS
<1>2. r \in ReqType
  BY <1>1 DEF Base, ReqOK
<1>3. r.prop \in Properties /\ text[r.prop] \in Texts
  BY <1>1 DEF Base, TypeOK, WriterSteps, EnrichRead
<1>4. PICK e : e = [r EXCEPT !.at = "publish", !.vec = text[r.prop]]
  OBVIOUS
<1>5. e \in ReqType
  BY <1>2, <1>4, IdleTyped, <1>3 DEF ReqType, Steps
<1>6. e.at = "publish" /\ e.key = r.key /\ e.prop = r.prop /\ e.via = r.via /\
        e.vec = text[r.prop] /\ e.snap = r.snap /\ e.crossed = r.crossed /\
        e.shut = r.shut /\ e.due = r.due
  BY <1>2, <1>4, IdleTyped, IdleFields, <1>3 DEF ReqType
<1>7. req' = [req EXCEPT ![h] = e] /\ req[h].at = "enrich"
  BY <1>1, <1>4, IdleFields, <1>3 DEF EnrichRead
<1>8. QED
  BY <1>1, <1>5, <1>6, <1>7, Becomes, <1>3 DEF Base

LEMMA FeaturedFetchReq ==
  ASSUME Base, NEW h \in Handlers, FeaturedFetch(h)
  PROVE  /\ ReqOK' /\ Calm(h) /\ req[h].at = "fetch"
         /\ req'[h].at = "keep" /\ req'[h].key = req[h].key /\ req'[h].prop =
            req[h].prop /\ req'[h].via = req[h].via /\ req'[h].vec = req[h].vec
            /\ req'[h].snap = OnOffer /\ req'[h].crossed = req[h].crossed /\
            req'[h].shut = req[h].shut /\ req'[h].due = req[h].due
<1>1. PICK r : r = req[h]
  OBVIOUS
<1>2. r \in ReqType
  BY <1>1 DEF Base, ReqOK
<1>3. OnOffer \in Results
  BY ShownTyped DEF Base, TypeOK, Rows
<1>4. PICK e : e = [r EXCEPT !.at = "keep", !.snap = OnOffer]
  OBVIOUS
<1>5. e \in ReqType
  BY <1>2, <1>4, IdleTyped, <1>3 DEF ReqType, Steps
<1>6. e.at = "keep" /\ e.key = r.key /\ e.prop = r.prop /\ e.via = r.via /\
        e.vec = r.vec /\ e.snap = OnOffer /\ e.crossed = r.crossed /\ e.shut =
        r.shut /\ e.due = r.due
  BY <1>2, <1>4, IdleTyped, IdleFields, <1>3 DEF ReqType
<1>7. req' = [req EXCEPT ![h] = e] /\ req[h].at = "fetch"
  BY <1>1, <1>4, IdleFields, <1>3 DEF FeaturedFetch
<1>8. QED
  BY <1>1, <1>5, <1>6, <1>7, Becomes, <1>3 DEF Base

LEMMA FeaturedStoreReq ==
  ASSUME Base, NEW h \in Handlers, FeaturedStore(h)
  PROVE  /\ ReqOK' /\ Calm(h) /\ req[h].at = "keep"
         /\ req'[h].at = "shown" /\ req'[h].key = req[h].key /\ req'[h].prop =
            req[h].prop /\ req'[h].via = req[h].via /\ req'[h].vec = req[h].vec
            /\ req'[h].snap = req[h].snap /\ req'[h].crossed = req[h].crossed /\
            req'[h].shut = req[h].shut /\ req'[h].due = req[h].due
<1>1. PICK r : r = req[h]
  OBVIOUS
<1>2. r \in ReqType
  BY <1>1 DEF Base, ReqOK
<1>4. PICK e : e = [r EXCEPT !.at = "shown"]
  OBVIOUS
<1>5. e \in ReqType
  BY <1>2, <1>4, IdleTyped DEF ReqType, Steps
<1>6. e.at = "shown" /\ e.key = r.key /\ e.prop = r.prop /\ e.via = r.via /\
        e.vec = r.vec /\ e.snap = r.snap /\ e.crossed = r.crossed /\ e.shut =
        r.shut /\ e.due = r.due
  BY <1>2, <1>4, IdleTyped, IdleFields DEF ReqType
<1>7. req' = [req EXCEPT ![h] = e] /\ req[h].at = "keep"
  BY <1>1, <1>4, IdleFields DEF FeaturedStore, Go
<1>8. QED
  BY <1>1, <1>5, <1>6, <1>7, Becomes DEF Base

LEMMA CreateEmbedReq ==
  ASSUME Base, NEW h \in Handlers, NEW p \in Properties, NEW via \in {"agent",
         "route"}, NEW d \in BOOLEAN, CreateEmbed(h, p, via, d)
  PROVE  /\ ReqOK' /\ Calm(h) /\ req[h].at = "idle"
         /\ req'[h].at = "insert" /\ req'[h].prop = p /\ req'[h].via = via
         /\ req'[h].vec \in {text[p], NoVector}
<1>1. PICK v \in {text[p], NoVector} :
        Enter(h, p, [Idle EXCEPT !.at = "insert", !.prop = p, !.via = via, !.vec = v])
  BY DEF CreateEmbed
<1>2. PICK e : e = [Idle EXCEPT !.at = "insert", !.prop = p, !.via = via, !.vec = v]
  OBVIOUS
<1>3. v \in Texts \union {NoVector}
  BY <1>1 DEF Base, TypeOK
<1>4. e \in ReqType
  BY <1>2, <1>3, IdleTyped DEF ReqType, Steps
<1>5. e.at = "insert" /\ e.prop = p /\ e.via = via /\ e.vec = v
  BY <1>2, IdleTyped DEF ReqType
<1>6. req' = [req EXCEPT ![h] = e] /\ req[h] = Idle
  BY <1>1, <1>2 DEF Enter
<1>7. QED
  BY <1>1, <1>4, <1>5, <1>6, Becomes, IdleFields DEF Base

LEMMA SweepStartReq ==
  ASSUME Base, NEW h \in Handlers, SweepStart(h)
  PROVE  /\ ReqOK' /\ Calm(h) /\ req[h].at = "idle"
         /\ req'[h].at = "enrich" /\ req'[h].prop \in Properties /\ req'[h].via = "task"
         /\ mixed \subseteq mixed' /\ mixed' \subseteq mixed \union Properties
<1>1. PICK found \in SUBSET Properties : found = {p \in Properties : status[p] \notin {"absent", "published"}}
  OBVIOUS
<1>2. PICK p \in found :
        Enter(h, p, [Idle EXCEPT !.at = "enrich", !.prop = p, !.via = "task", !.todo = found \ {p}])
  BY <1>1 DEF SweepStart
<1>3. PICK e : e = [Idle EXCEPT !.at = "enrich", !.prop = p, !.via = "task", !.todo = found \ {p}]
  OBVIOUS
<1>4. e \in ReqType
  BY <1>2, <1>3, IdleTyped DEF ReqType, Steps
<1>5. e.at = "enrich" /\ e.prop = p /\ e.via = "task"
  BY <1>3, IdleTyped DEF ReqType
<1>6. req' = [req EXCEPT ![h] = e] /\ req[h] = Idle
  BY <1>2, <1>3 DEF Enter
<1>7. ReqOK' /\ req'[h] = e /\ Calm(h)
  BY <1>4, <1>6, Becomes DEF Base
<1>8. mixed \subseteq mixed' /\ mixed' \subseteq mixed \union Properties
  BY <1>2 DEF Enter
<1>9. QED
  BY <1>2, <1>5, <1>6, <1>7, <1>8, IdleFields

LEMMA ClearMemoryReq ==
  ASSUME Base, NEW h \in Handlers, ClearMemory(h)
  PROVE  /\ ReqOK' /\ Calm(h) /\ req[h].at = "clear"
         /\ Ended(h)
BY DoneShape DEF ClearMemory

LEMMA ClearEndReq ==
  ASSUME Base, NEW h \in Handlers, ClearEnd(h)
  PROVE  /\ ReqOK' /\ Calm(h) /\ req[h].at = "clear"
         /\ Ended(h)
BY DoneShape DEF ClearEnd

LEMMA ClearPageReq ==
  ASSUME Base, NEW h \in Handlers, ClearPage(h)
  PROVE  /\ ReqOK' /\ Calm(h) /\ req[h].at = "clear"
         /\ req'[h].at = "clear" /\ req'[h].prop = req[h].prop /\ req'[h].via = req[h].via
         /\ \E K \in SUBSET Queries : /\ Drop(K) /\ missed' = missed \ K
                                       /\ req'[h].due = req[h].due \ K
<1>1. PICK K \in SUBSET Queries :
        Drop(K) /\ missed' = missed \ K /\ req' = [req EXCEPT ![h].due = @ \ K]
  BY DEF ClearPage
<1>2. PICK r : r = req[h]
  OBVIOUS
<1>3. r \in ReqType /\ r.at = "clear"
  BY <1>2 DEF Base, ReqOK, ClearPage
<1>4. PICK D : D = r.due \ K
  OBVIOUS
<1>5. D \in SUBSET Queries
  BY <1>3, <1>4 DEF ReqType
<1>6. PICK e : e = [r EXCEPT !.due = D]
  OBVIOUS
<1>7. e \in ReqType
  BY <1>3, <1>5, <1>6 DEF ReqType
<1>8. e.at = r.at /\ e.prop = r.prop /\ e.via = r.via /\ e.due = D
  BY <1>3, <1>6 DEF ReqType
<1>9. req' = [req EXCEPT ![h] = e]
  BY <1>1, <1>2, <1>4, <1>6
<1>10. QED
  BY <1>1, <1>2, <1>3, <1>4, <1>7, <1>8, <1>9, Becomes DEF Base

LEMMA EnrichSkipsReq ==
  ASSUME Base, NEW h \in Handlers, EnrichSkips(h)
  PROVE  /\ ReqOK' /\ Calm(h) /\ req[h].at = "enrich"
         /\ req'[h] = Idle \/ (req'[h].at = "enrich" /\ req'[h].prop \in Properties /\ req'[h].via = req[h].via)
<1>1. PICK entry \in GoesOn(h) : req' = [req EXCEPT ![h] = entry]
  BY DEF EnrichSkips
<1>2. ReqOK /\ req[h].at = "enrich"
  BY DEF Base, EnrichSkips
<1>3. /\ entry \in ReqType
      /\ \/ entry = Idle
         \/ entry.at = "enrich" /\ entry.prop \in Properties /\ entry.via = req[h].via
  BY <1>2, GoesOnShape
<1>4. ReqOK' /\ req'[h] = entry /\ Calm(h)
  BY <1>1, <1>2, <1>3, Becomes
<1>5. QED
  BY <1>2, <1>3, <1>4

LEMMA EnrichWriteReq ==
  ASSUME Base, NEW h \in Handlers, EnrichWrite(h)
  PROVE  /\ ReqOK' /\ (\A k \in Handlers \ {h} : Tells(k)) /\ req[h].at = "publish"
         /\ req'[h] = Idle \/ (req'[h].at = "enrich" /\ req'[h].prop \in Properties /\ req'[h].via = req[h].via)
<1>1. PICK entry \in GoesOn(h) : Wrote(h, entry)
  BY DEF EnrichWrite
<1>2. ReqOK /\ req[h].at = "publish"
  BY DEF Base, EnrichWrite
<1>3. /\ entry \in ReqType
      /\ \/ entry = Idle
         \/ entry.at = "enrich" /\ entry.prop \in Properties /\ entry.via = req[h].via
  BY <1>2, GoesOnShape
<1>4. QED
  BY <1>1, <1>2, <1>3, WroteShape

LEMMA UpdateWriteReq ==
  ASSUME Base, NEW h \in Handlers, UpdateWrite(h)
  PROVE  /\ ReqOK' /\ (\A k \in Handlers \ {h} : Tells(k)) /\ req[h].at = "write"
         /\ req'[h].at = "clear" /\ req'[h].prop = req[h].prop /\ req'[h].via = req[h].via
         /\ req'[h].due = {q \in Queries : Hit(q)}
<1>1. Wrote(h, Clearing(h))
  BY DEF UpdateWrite
<1>2. QED
  BY <1>1, ClearingShape, WroteShape DEF Base, UpdateWrite

LEMMA FeaturedGetReq ==
  ASSUME Base, NEW h \in Handlers, FeaturedGet(h)
  PROVE  /\ ReqOK' /\ Calm(h) /\ req[h].at = "idle"
         /\ req'[h].at \in {"validate", "fetch"} /\ req'[h].prop = Nothing
         /\ req'[h].via = "agent" /\ req'[h].shut = Properties \ Open
<1>1. PICK at \in {"validate", "fetch"} :
        at = IF Hit(Featured) /\ data[Featured] # {} THEN "validate" ELSE "fetch"
  OBVIOUS
<1>2. PICK snap : snap = IF Hit(Featured) THEN data[Featured] ELSE {}
  OBVIOUS
<1>3. snap \in Results
  BY <1>2, EmptyResult, ListingsAssumption DEF Base, TypeOK, CacheTypeOK, Hit, Present
<1>4. PICK e : e = [Idle EXCEPT !.shut = Properties \ Open, !.snap = snap, !.at = at]
  OBVIOUS
<1>5. e \in ReqType
  BY <1>3, <1>4, IdleTyped DEF ReqType, Steps
<1>6. e.at = at /\ e.shut = Properties \ Open /\ e.prop = Nothing /\ e.via = "agent"
  BY <1>4, IdleTyped, IdleFields DEF ReqType
<1>7. req' = [req EXCEPT ![h] = e] /\ req[h] = Idle
  BY <1>1, <1>2, <1>4 DEF FeaturedGet
<1>8. QED
  BY <1>1, <1>5, <1>6, <1>7, Becomes, IdleFields DEF Base

LEMMA FeaturedValidateReq ==
  ASSUME Base, NEW h \in Handlers, FeaturedValidate(h)
  PROVE  /\ ReqOK' /\ Calm(h) /\ req[h].at = "validate"
         /\ req'[h].prop = req[h].prop /\ req'[h].via = req[h].via /\ req'[h].shut = req[h].shut
         /\ \/ req'[h].at = "fetch"
            \/ req'[h].at = "shown" /\ req'[h].snap = req[h].snap /\ \A x \in req[h].snap : x[1] \in Open
<1>1. PICK r : r = req[h]
  OBVIOUS
<1>2. r \in ReqType /\ r.at = "validate"
  BY <1>1 DEF Base, ReqOK, FeaturedValidate
<1>3. CASE \A x \in r.snap : x[1] \in Open
  <2>1. PICK e : e = [r EXCEPT !.at = "shown"]
    OBVIOUS
  <2>2. e \in ReqType
    BY <1>2, <2>1 DEF ReqType, Steps
  <2>3. e.at = "shown" /\ e.prop = r.prop /\ e.via = r.via /\ e.shut = r.shut /\ e.snap = r.snap
    BY <1>2, <2>1 DEF ReqType
  <2>4. req' = [req EXCEPT ![h] = e]
    BY <1>1, <1>3, <2>1 DEF FeaturedValidate
  <2>5. QED
    BY <1>1, <1>2, <1>3, <2>2, <2>3, <2>4, Becomes DEF Base
<1>4. CASE ~ \A x \in r.snap : x[1] \in Open
  <2>1. PICK e : e = [r EXCEPT !.at = "fetch", !.snap = {}]
    OBVIOUS
  <2>2. e \in ReqType
    BY <1>2, <2>1, EmptyResult DEF ReqType, Steps
  <2>3. e.at = "fetch" /\ e.prop = r.prop /\ e.via = r.via /\ e.shut = r.shut
    BY <1>2, <2>1 DEF ReqType
  <2>4. req' = [req EXCEPT ![h] = e]
    BY <1>1, <1>4, <2>1 DEF FeaturedValidate
  <2>5. QED
    BY <1>1, <1>2, <2>2, <2>3, <2>4, Becomes DEF Base
<1>5. QED
  BY <1>3, <1>4

LEMMA FeaturedShownReq ==
  ASSUME Base, NEW h \in Handlers, FeaturedShown(h)
  PROVE  /\ ReqOK' /\ Calm(h) /\ req[h].at = "shown"
         /\ req'[h] = Idle
BY Becomes, IdleTyped DEF FeaturedShown, Leave, Base

LEMMA FailsReq ==
  ASSUME Base, NEW h \in Handlers, Fails(h)
  PROVE  /\ ReqOK' /\ Calm(h) /\ req[h].at \notin {"idle", "enrich", "shown"}
         /\ \/ req[h].at # "validate" /\ Ended(h)
            \/ /\ req[h].at = "validate" /\ req'[h].at = "fetch" /\ req'[h].prop = req[h].prop
               /\ req'[h].via = req[h].via /\ req'[h].shut = req[h].shut
<1>1. PICK r : r = req[h]
  OBVIOUS
<1>2. r \in ReqType /\ r.at \notin {"idle", "enrich", "shown"}
  BY <1>1 DEF Base, ReqOK, Fails
<1>3. CASE r.at = "validate"
  <2>1. PICK e : e = [r EXCEPT !.at = "fetch"]
    OBVIOUS
  <2>2. e \in ReqType
    BY <1>2, <2>1 DEF ReqType, Steps
  <2>3. e.at = "fetch" /\ e.prop = r.prop /\ e.via = r.via /\ e.shut = r.shut
    BY <1>2, <2>1 DEF ReqType
  <2>4. req' = [req EXCEPT ![h] = e]
    BY <1>1, <1>3, <2>1 DEF Fails, Go
  <2>5. QED
    BY <1>1, <1>2, <1>3, <2>2, <2>3, <2>4, Becomes DEF Base
<1>4. CASE r.at # "validate"
  BY <1>1, <1>2, <1>4, DoneShape DEF Fails
<1>5. QED
  BY <1>3, <1>4

(* A running SCAN need not return a key that was not there.                *)
Scans(k) ==
  /\ Alike(k) /\ req'[k].crossed = req[k].crossed /\ req'[k].shut = req[k].shut
LEMMA SearchStoreReq ==
  ASSUME Base, NEW h \in Handlers, SearchStore(h)
  PROVE  /\ ReqOK' /\ (\A k \in Handlers \ {h} :
                         /\ Scans(k)
                         /\ \A j \in Keys \ {req[h].key} :
                              j \in req[k].due => j \in req'[k].due)
         /\ req[h].at = "store"
         /\ req'[h] = Idle
<1>1. PICK q : q = req[h].key
  OBVIOUS
<1>2. /\ req' = [k \in Handlers |->
                  IF k = h THEN Idle ELSE [req[k] EXCEPT !.due = IF Hit(q) THEN @ ELSE @ \ {q}]]
      /\ req[h].at = "store"
  BY <1>1 DEF SearchStore
<1>3. ASSUME NEW k \in Handlers \ {h}
      PROVE  /\ req'[k] \in ReqType /\ Scans(k)
             /\ \A j \in Keys \ {q} : j \in req[k].due => j \in req'[k].due
  <2>1. PICK r : r = req[k]
    OBVIOUS
  <2>2. r \in ReqType
    BY <2>1 DEF Base, ReqOK
  <2>3. PICK D : D = IF Hit(q) THEN r.due ELSE r.due \ {q}
    OBVIOUS
  <2>4. D \in SUBSET Queries /\ \A j \in Keys \ {q} : j \in r.due => j \in D
    BY <2>2, <2>3 DEF ReqType
  <2>5. PICK e : e = [r EXCEPT !.due = D]
    OBVIOUS
  <2>6. e \in ReqType
    BY <2>2, <2>4, <2>5 DEF ReqType
  <2>7. /\ e.at = r.at /\ e.key = r.key /\ e.prop = r.prop /\ e.via = r.via /\ e.vec = r.vec
        /\ e.snap = r.snap /\ e.patch = r.patch /\ e.todo = r.todo /\ e.due = D
        /\ e.crossed = r.crossed /\ e.shut = r.shut
    BY <2>2, <2>5 DEF ReqType
  <2>8. req'[k] = e
    BY <1>2, <2>1, <2>3, <2>5
  <2>9. QED
    BY <2>1, <2>4, <2>6, <2>7, <2>8 DEF Scans, Alike
<1>4. req'[h] = Idle /\ req' = [k \in Handlers |-> req'[k]]
  BY <1>2
<1>5. ReqOK'
  BY <1>3, <1>4, IdleTyped DEF ReqOK
<1>6. QED
  BY <1>1, <1>2, <1>3, <1>4, <1>5

-----------------------------------------------------------------------------
(* What a step does to the cache.                                          *)

(* Requests do nothing to the cache but what its operations do.            *)
LEMMA CacheMoves ==
  ASSUME Base, [Next]_vars PROVE CacheOp
<1>1. CASE UNCHANGED vars
  BY <1>1 DEF vars, cacheVars, rowVars, counters, CacheOp
<1>2. ASSUME NEW h \in Handlers, NEW q \in Queries, SearchGet(h, q)
      PROVE  CacheOp
  <2>1. q \in Keys /\ Get(q)
    BY <1>2, ListingsAssumption DEF SearchGet
  <2>2. QED
    BY <2>1 DEF CacheOp
<1>3. ASSUME NEW h \in Handlers, NEW q \in Queries, SearchAnswered(h, q)
      PROVE  CacheOp
  <2>1. q \in Keys /\ Get(q)
    BY <1>3, ListingsAssumption DEF SearchAnswered
  <2>2. QED
    BY <2>1 DEF CacheOp
<1>4. ASSUME NEW h \in Handlers, SearchQuery(h)
      PROVE  CacheOp
  BY <1>4 DEF SearchQuery, CacheOp
<1>5. ASSUME NEW h \in Handlers, SearchStore(h)
      PROVE  CacheOp
  <2>1. req[h].key \in Keys /\ req[h].snap \in Values /\ Set(req[h].key, req[h].snap)
    BY <1>5, ListingsAssumption DEF SearchStore, Base, ReqOK, ReqType
  <2>2. QED
    BY <2>1 DEF CacheOp
<1>6. ASSUME NEW h \in Handlers, NEW p \in Properties, NEW via \in {"agent",
            "route"}, NEW d \in BOOLEAN, CreateEmbed(h, p, via, d)
      PROVE  CacheOp
  BY <1>6 DEF CreateEmbed, CacheOp
<1>7. ASSUME NEW h \in Handlers, CreateInsert(h)
      PROVE  CacheOp
  BY <1>7 DEF CreateInsert, CacheOp
<1>8. ASSUME NEW h \in Handlers, NEW p \in Properties, NEW via \in {"agent",
            "route"}, NEW patch \in Patches, UpdateRead(h, p, via, patch)
      PROVE  CacheOp
  BY <1>8 DEF UpdateRead, CacheOp
<1>9. ASSUME NEW h \in Handlers, UpdateWrite(h)
      PROVE  CacheOp
  BY <1>9 DEF UpdateWrite, CacheOp
<1>10. ASSUME NEW h \in Handlers, NEW p \in Properties, Refused(h, p)
      PROVE  CacheOp
  BY <1>10 DEF Refused, CacheOp
<1>11. ASSUME NEW h \in Handlers, ClearMemory(h)
      PROVE  CacheOp
  <2>1. Queries \in SUBSET Keys /\ Drop(Queries)
    BY <1>11, ListingsAssumption DEF ClearMemory
  <2>2. QED
    BY <2>1 DEF CacheOp
<1>12. ASSUME NEW h \in Handlers, ClearPage(h)
      PROVE  CacheOp
  <2>1. PICK K \in SUBSET Queries : Drop(K)
    BY <1>12, ClearPageReq
  <2>2. K \in SUBSET Keys
    BY ListingsAssumption
  <2>3. QED
    BY <2>1, <2>2 DEF CacheOp
<1>13. ASSUME NEW h \in Handlers, ClearEnd(h)
      PROVE  CacheOp
  BY <1>13 DEF ClearEnd, CacheOp
<1>14. ASSUME NEW h \in Handlers, SweepStart(h)
      PROVE  CacheOp
  BY <1>14 DEF SweepStart, CacheOp
<1>15. ASSUME NEW h \in Handlers, EnrichSkips(h)
      PROVE  CacheOp
  BY <1>15 DEF EnrichSkips, CacheOp
<1>16. ASSUME NEW h \in Handlers, EnrichRead(h)
      PROVE  CacheOp
  BY <1>16 DEF EnrichRead, CacheOp
<1>17. ASSUME NEW h \in Handlers, EnrichWrite(h)
      PROVE  CacheOp
  BY <1>17 DEF EnrichWrite, CacheOp
<1>18. ASSUME NEW h \in Handlers, FeaturedGet(h)
      PROVE  CacheOp
  <2>1. Featured \in Keys /\ Get(Featured)
    BY <1>18, ListingsAssumption DEF FeaturedGet
  <2>2. QED
    BY <2>1 DEF CacheOp
<1>19. ASSUME NEW h \in Handlers, FeaturedValidate(h)
      PROVE  CacheOp
  BY <1>19 DEF FeaturedValidate, CacheOp
<1>20. ASSUME NEW h \in Handlers, FeaturedFetch(h)
      PROVE  CacheOp
  BY <1>20 DEF FeaturedFetch, CacheOp
<1>21. ASSUME NEW h \in Handlers, FeaturedStore(h)
      PROVE  CacheOp
  <2>1. Featured \in Keys /\ req[h].snap \in Values /\ Set(Featured, req[h].snap)
    BY <1>21, ListingsAssumption DEF FeaturedStore, Base, ReqOK, ReqType
  <2>2. QED
    BY <2>1 DEF CacheOp
<1>22. ASSUME NEW h \in Handlers, FeaturedShown(h)
      PROVE  CacheOp
  BY <1>22 DEF FeaturedShown, CacheOp
<1>23. ASSUME NEW h \in Handlers, Fails(h)
      PROVE  CacheOp
  BY <1>23 DEF Fails, CacheOp
<1>24. ASSUME Restart
      PROVE  CacheOp
  <2>1. Drop(Keys) \/ UNCHANGED cacheVars
    BY <1>24 DEF Restart
  <2>2. QED
    BY <2>1 DEF CacheOp
<1>25. ASSUME Expires
      PROVE  CacheOp
  BY <1>25 DEF Expires, CacheOp
<1>26. QED
  BY <1>1, <1>2, <1>3, <1>4, <1>5, <1>6, <1>7, <1>8, <1>9, <1>10, <1>11, <1>12,
     <1>13, <1>14, <1>15, <1>16, <1>17, <1>18, <1>19, <1>20, <1>21, <1>22,
     <1>23, <1>24, <1>25 DEF Next, SearchStep, OwnerStep, EnrichStep,
     FeaturedStep

-----------------------------------------------------------------------------
(* Types.                                                                  *)

RowsOK ==
  /\ Rows /\ described \in [Properties -> BOOLEAN] /\ featured \in [Properties -> BOOLEAN]
  /\ writes \in 0 .. MaxWrites /\ faults \in 0 .. MaxFaults

Settled(r) ==
  /\ r.at \in WriterSteps \/ r.at = "clear" \/ r.via = "route" => r.prop \in Properties
  /\ r.at \in {"write", "clear", "publish"} => status[r.prop] # "absent"
PlacesOK == \A h \in Handlers : Settled(req[h])

LEMMA BaseParts == Base <=> CacheTypeOK /\ RowsOK /\ ReqOK /\ PlacesOK
BY Zenon DEF Base, TypeOK, Owned, RowsOK, Rows, PlacesOK, Settled

(* A row, once there, stays.                                               *)
RowsStay == \A p \in Properties : status[p] # "absent" => status'[p] # "absent"

(* A step keeps the types of the rows, and takes none away.                *)
LEMMA RowsStep ==
  ASSUME Base, RowsOK, [Next]_vars PROVE RowsOK' /\ RowsStay
<1>1. CASE UNCHANGED vars
  BY <1>1 DEF vars, cacheVars, rowVars, counters, RowsOK, Rows, RowsStay
<1>2. ASSUME NEW h \in Handlers, NEW q \in Queries, SearchGet(h, q)
      PROVE  RowsOK' /\ RowsStay
  <2>1. UNCHANGED <<status, text, vector, described, featured>>
    BY <1>2 DEF SearchGet, rowVars, counters
  <2>2. writes' \in 0 .. MaxWrites /\ faults' \in 0 .. MaxFaults
    BY <1>2, ListingsAssumption DEF SearchGet, rowVars, counters, RowsOK
  <2>3. QED
    BY <2>1, <2>2 DEF RowsOK, Rows, RowsStay
<1>3. ASSUME NEW h \in Handlers, NEW q \in Queries, SearchAnswered(h, q)
      PROVE  RowsOK' /\ RowsStay
  <2>1. UNCHANGED <<status, text, vector, described, featured>>
    BY <1>3 DEF SearchAnswered, rowVars, counters
  <2>2. writes' \in 0 .. MaxWrites /\ faults' \in 0 .. MaxFaults
    BY <1>3, ListingsAssumption DEF SearchAnswered, rowVars, counters, RowsOK
  <2>3. QED
    BY <2>1, <2>2 DEF RowsOK, Rows, RowsStay
<1>4. ASSUME NEW h \in Handlers, SearchQuery(h)
      PROVE  RowsOK' /\ RowsStay
  <2>1. UNCHANGED <<status, text, vector, described, featured>>
    BY <1>4 DEF SearchQuery, rowVars, counters
  <2>2. writes' \in 0 .. MaxWrites /\ faults' \in 0 .. MaxFaults
    BY <1>4, ListingsAssumption DEF SearchQuery, rowVars, counters, RowsOK
  <2>3. QED
    BY <2>1, <2>2 DEF RowsOK, Rows, RowsStay
<1>5. ASSUME NEW h \in Handlers, SearchStore(h)
      PROVE  RowsOK' /\ RowsStay
  <2>1. UNCHANGED <<status, text, vector, described, featured>>
    BY <1>5 DEF SearchStore, rowVars, counters
  <2>2. writes' \in 0 .. MaxWrites /\ faults' \in 0 .. MaxFaults
    BY <1>5, ListingsAssumption DEF SearchStore, rowVars, counters, RowsOK
  <2>3. QED
    BY <2>1, <2>2 DEF RowsOK, Rows, RowsStay
<1>6. ASSUME NEW h \in Handlers, NEW p \in Properties, NEW via \in {"agent",
            "route"}, NEW d \in BOOLEAN, CreateEmbed(h, p, via, d)
      PROVE  RowsOK' /\ RowsStay
  <2>1. UNCHANGED <<status, text, vector, featured>>
    BY <1>6 DEF CreateEmbed, rowVars, counters
  <2>2. writes' \in 0 .. MaxWrites /\ faults' \in 0 .. MaxFaults
    BY <1>6, ListingsAssumption DEF CreateEmbed, rowVars, counters, RowsOK
  <2>4. described' \in [Properties -> BOOLEAN]
    BY <1>6 DEF CreateEmbed, RowsOK
  <2>3. QED
    BY <2>1, <2>2, <2>4 DEF RowsOK, Rows, RowsStay
<1>7. ASSUME NEW h \in Handlers, CreateInsert(h)
      PROVE  RowsOK' /\ RowsStay
  <2>1. PICK p \in Properties : p = req[h].prop
    BY <1>7 DEF CreateInsert, Base, TypeOK, WriterSteps
  <2>2. req[h].vec \in Texts \union {NoVector}
    BY DEF Base, ReqOK, ReqType
  <2>3. /\ status' = [status EXCEPT ![p] = "draft"] /\ vector' = [vector EXCEPT ![p] = req[h].vec]
        /\ UNCHANGED <<text, described, featured, writes, faults>>
    BY <1>7, <2>1 DEF CreateInsert, counters
  <2>4. RowsOK'
    BY <2>1, <2>2, <2>3 DEF RowsOK, Rows
  <2>5. RowsStay
    BY <2>1, <2>3 DEF RowsOK, Rows, RowsStay
  <2>14. QED
    BY <2>4, <2>5
<1>8. ASSUME NEW h \in Handlers, NEW p \in Properties, NEW via \in {"agent",
            "route"}, NEW patch \in Patches, UpdateRead(h, p, via, patch)
      PROVE  RowsOK' /\ RowsStay
  <2>1. UNCHANGED <<status, text, vector, described, featured>>
    BY <1>8 DEF UpdateRead, rowVars, counters
  <2>2. writes' \in 0 .. MaxWrites /\ faults' \in 0 .. MaxFaults
    BY <1>8, ListingsAssumption DEF UpdateRead, rowVars, counters, RowsOK
  <2>3. QED
    BY <2>1, <2>2 DEF RowsOK, Rows, RowsStay
<1>9. ASSUME NEW h \in Handlers, UpdateWrite(h)
      PROVE  RowsOK' /\ RowsStay
  <2>1. PICK p \in Properties : p = req[h].prop
    BY <1>9 DEF UpdateWrite, Base, TypeOK, WriterSteps
  <2>2. PICK patch : patch = req[h].patch
    OBVIOUS
  <2>3. /\ patch.text \in Texts \union {Keep}
        /\ patch.status \in {"published", "rented", "delisted", Keep}
        /\ patch.featured \in BOOLEAN \union {Keep}
    BY <2>2 DEF Base, ReqOK, ReqType
  <2>6. PICK new : new = Patched(text[p], patch.text)
    OBVIOUS
  <2>7. PICK vec : vec = IF patch.text = Keep THEN vector[p] ELSE new
    OBVIOUS
  <2>8. PICK stat : stat = Patched(status[p], patch.status)
    OBVIOUS
  <2>9. PICK feat : feat = Patched(featured[p], patch.featured)
    OBVIOUS
  <2>10. new \in Texts /\ vec \in Texts \union {NoVector}
    BY <2>3, <2>6, <2>7 DEF Patched, RowsOK, Rows
  <2>11. stat \in {"absent", "draft", "published", "rented", "delisted"} /\ (status[p] # "absent" => stat # "absent")
    BY <2>3, <2>8 DEF Patched, RowsOK, Rows
  <2>12. feat \in BOOLEAN
    BY <2>3, <2>9, Zenon DEF Patched, RowsOK
  <2>13. /\ text' = [text EXCEPT ![p] = new] /\ vector' = [vector EXCEPT ![p] = vec]
         /\ status' = [status EXCEPT ![p] = stat] /\ featured' = [featured EXCEPT ![p] = feat]
         /\ UNCHANGED <<described, writes, faults>>
    BY <1>9, <2>1, <2>2, <2>6, <2>7, <2>8, <2>9 DEF UpdateWrite, counters
  <2>4. RowsOK'
    BY <2>1, <2>10, <2>11, <2>12, <2>13 DEF RowsOK, Rows
  <2>5. RowsStay
    BY <2>1, <2>11, <2>13 DEF RowsOK, Rows, RowsStay
  <2>14. QED
    BY <2>4, <2>5
<1>10. ASSUME NEW h \in Handlers, NEW p \in Properties, Refused(h, p)
      PROVE  RowsOK' /\ RowsStay
  <2>1. UNCHANGED <<status, text, vector, described, featured>>
    BY <1>10 DEF Refused, rowVars, counters
  <2>2. writes' \in 0 .. MaxWrites /\ faults' \in 0 .. MaxFaults
    BY <1>10, ListingsAssumption DEF Refused, rowVars, counters, RowsOK
  <2>3. QED
    BY <2>1, <2>2 DEF RowsOK, Rows, RowsStay
<1>11. ASSUME NEW h \in Handlers, ClearMemory(h)
      PROVE  RowsOK' /\ RowsStay
  <2>1. UNCHANGED <<status, text, vector, described, featured>>
    BY <1>11 DEF ClearMemory, rowVars, counters
  <2>2. writes' \in 0 .. MaxWrites /\ faults' \in 0 .. MaxFaults
    BY <1>11, ListingsAssumption DEF ClearMemory, rowVars, counters, RowsOK
  <2>3. QED
    BY <2>1, <2>2 DEF RowsOK, Rows, RowsStay
<1>12. ASSUME NEW h \in Handlers, ClearPage(h)
      PROVE  RowsOK' /\ RowsStay
  <2>1. UNCHANGED <<status, text, vector, described, featured>>
    BY <1>12 DEF ClearPage, rowVars, counters
  <2>2. writes' \in 0 .. MaxWrites /\ faults' \in 0 .. MaxFaults
    BY <1>12, ListingsAssumption DEF ClearPage, rowVars, counters, RowsOK
  <2>3. QED
    BY <2>1, <2>2 DEF RowsOK, Rows, RowsStay
<1>13. ASSUME NEW h \in Handlers, ClearEnd(h)
      PROVE  RowsOK' /\ RowsStay
  <2>1. UNCHANGED <<status, text, vector, described, featured>>
    BY <1>13 DEF ClearEnd, rowVars, counters
  <2>2. writes' \in 0 .. MaxWrites /\ faults' \in 0 .. MaxFaults
    BY <1>13, ListingsAssumption DEF ClearEnd, rowVars, counters, RowsOK
  <2>3. QED
    BY <2>1, <2>2 DEF RowsOK, Rows, RowsStay
<1>14. ASSUME NEW h \in Handlers, SweepStart(h)
      PROVE  RowsOK' /\ RowsStay
  <2>1. UNCHANGED <<status, text, vector, described, featured>>
    BY <1>14 DEF SweepStart, rowVars, counters
  <2>2. writes' \in 0 .. MaxWrites /\ faults' \in 0 .. MaxFaults
    BY <1>14, ListingsAssumption DEF SweepStart, rowVars, counters, RowsOK
  <2>3. QED
    BY <2>1, <2>2 DEF RowsOK, Rows, RowsStay
<1>15. ASSUME NEW h \in Handlers, EnrichSkips(h)
      PROVE  RowsOK' /\ RowsStay
  <2>1. UNCHANGED <<status, text, vector, described, featured>>
    BY <1>15 DEF EnrichSkips, rowVars, counters
  <2>2. writes' \in 0 .. MaxWrites /\ faults' \in 0 .. MaxFaults
    BY <1>15, ListingsAssumption DEF EnrichSkips, rowVars, counters, RowsOK
  <2>3. QED
    BY <2>1, <2>2 DEF RowsOK, Rows, RowsStay
<1>16. ASSUME NEW h \in Handlers, EnrichRead(h)
      PROVE  RowsOK' /\ RowsStay
  <2>1. UNCHANGED <<status, text, vector, described, featured>>
    BY <1>16 DEF EnrichRead, rowVars, counters
  <2>2. writes' \in 0 .. MaxWrites /\ faults' \in 0 .. MaxFaults
    BY <1>16, ListingsAssumption DEF EnrichRead, rowVars, counters, RowsOK
  <2>3. QED
    BY <2>1, <2>2 DEF RowsOK, Rows, RowsStay
<1>17. ASSUME NEW h \in Handlers, EnrichWrite(h)
      PROVE  RowsOK' /\ RowsStay
  <2>1. PICK p \in Properties : p = req[h].prop
    BY <1>17 DEF EnrichWrite, Base, TypeOK, WriterSteps
  <2>2. req[h].vec \in Texts \union {NoVector}
    BY DEF Base, ReqOK, ReqType
  <2>3. /\ status' = [status EXCEPT ![p] = "published"] /\ vector' = [vector EXCEPT ![p] = req[h].vec]
        /\ UNCHANGED <<text, described, featured, writes, faults>>
    BY <1>17, <2>1 DEF EnrichWrite, counters
  <2>4. RowsOK'
    BY <2>1, <2>2, <2>3 DEF RowsOK, Rows
  <2>5. RowsStay
    BY <2>1, <2>3 DEF RowsOK, Rows, RowsStay
  <2>14. QED
    BY <2>4, <2>5
<1>18. ASSUME NEW h \in Handlers, FeaturedGet(h)
      PROVE  RowsOK' /\ RowsStay
  <2>1. UNCHANGED <<status, text, vector, described, featured>>
    BY <1>18 DEF FeaturedGet, rowVars, counters
  <2>2. writes' \in 0 .. MaxWrites /\ faults' \in 0 .. MaxFaults
    BY <1>18, ListingsAssumption DEF FeaturedGet, rowVars, counters, RowsOK
  <2>3. QED
    BY <2>1, <2>2 DEF RowsOK, Rows, RowsStay
<1>19. ASSUME NEW h \in Handlers, FeaturedValidate(h)
      PROVE  RowsOK' /\ RowsStay
  <2>1. UNCHANGED <<status, text, vector, described, featured>>
    BY <1>19 DEF FeaturedValidate, rowVars, counters
  <2>2. writes' \in 0 .. MaxWrites /\ faults' \in 0 .. MaxFaults
    BY <1>19, ListingsAssumption DEF FeaturedValidate, rowVars, counters, RowsOK
  <2>3. QED
    BY <2>1, <2>2 DEF RowsOK, Rows, RowsStay
<1>20. ASSUME NEW h \in Handlers, FeaturedFetch(h)
      PROVE  RowsOK' /\ RowsStay
  <2>1. UNCHANGED <<status, text, vector, described, featured>>
    BY <1>20 DEF FeaturedFetch, rowVars, counters
  <2>2. writes' \in 0 .. MaxWrites /\ faults' \in 0 .. MaxFaults
    BY <1>20, ListingsAssumption DEF FeaturedFetch, rowVars, counters, RowsOK
  <2>3. QED
    BY <2>1, <2>2 DEF RowsOK, Rows, RowsStay
<1>21. ASSUME NEW h \in Handlers, FeaturedStore(h)
      PROVE  RowsOK' /\ RowsStay
  <2>1. UNCHANGED <<status, text, vector, described, featured>>
    BY <1>21 DEF FeaturedStore, rowVars, counters
  <2>2. writes' \in 0 .. MaxWrites /\ faults' \in 0 .. MaxFaults
    BY <1>21, ListingsAssumption DEF FeaturedStore, rowVars, counters, RowsOK
  <2>3. QED
    BY <2>1, <2>2 DEF RowsOK, Rows, RowsStay
<1>22. ASSUME NEW h \in Handlers, FeaturedShown(h)
      PROVE  RowsOK' /\ RowsStay
  <2>1. UNCHANGED <<status, text, vector, described, featured>>
    BY <1>22 DEF FeaturedShown, rowVars, counters
  <2>2. writes' \in 0 .. MaxWrites /\ faults' \in 0 .. MaxFaults
    BY <1>22, ListingsAssumption DEF FeaturedShown, rowVars, counters, RowsOK
  <2>3. QED
    BY <2>1, <2>2 DEF RowsOK, Rows, RowsStay
<1>23. ASSUME NEW h \in Handlers, Fails(h)
      PROVE  RowsOK' /\ RowsStay
  <2>1. UNCHANGED <<status, text, vector, described, featured>>
    BY <1>23 DEF Fails, rowVars, counters
  <2>2. writes' \in 0 .. MaxWrites /\ faults' \in 0 .. MaxFaults
    BY <1>23, ListingsAssumption DEF Fails, rowVars, counters, RowsOK
  <2>3. QED
    BY <2>1, <2>2 DEF RowsOK, Rows, RowsStay
<1>24. ASSUME Restart
      PROVE  RowsOK' /\ RowsStay
  <2>1. UNCHANGED <<status, text, vector, described, featured>>
    BY <1>24 DEF Restart, rowVars, counters
  <2>2. writes' \in 0 .. MaxWrites /\ faults' \in 0 .. MaxFaults
    BY <1>24, ListingsAssumption DEF Restart, rowVars, counters, RowsOK
  <2>3. QED
    BY <2>1, <2>2 DEF RowsOK, Rows, RowsStay
<1>25. ASSUME Expires
      PROVE  RowsOK' /\ RowsStay
  <2>1. UNCHANGED <<status, text, vector, described, featured>>
    BY <1>25 DEF Expires, rowVars, counters
  <2>2. writes' \in 0 .. MaxWrites /\ faults' \in 0 .. MaxFaults
    BY <1>25, ListingsAssumption DEF Expires, rowVars, counters, RowsOK
  <2>3. QED
    BY <2>1, <2>2 DEF RowsOK, Rows, RowsStay
<1>26. QED
  BY <1>1, <1>2, <1>3, <1>4, <1>5, <1>6, <1>7, <1>8, <1>9, <1>10, <1>11, <1>12,
     <1>13, <1>14, <1>15, <1>16, <1>17, <1>18, <1>19, <1>20, <1>21, <1>22,
     <1>23, <1>24, <1>25 DEF Next, SearchStep, OwnerStep, EnrichStep,
     FeaturedStep

(* A step keeps the types of requests.                                     *)
LEMMA ReqStep ==
  ASSUME Base, [Next]_vars PROVE ReqOK'
<1>1. CASE UNCHANGED vars
  BY <1>1 DEF vars, cacheVars, rowVars, counters, ReqOK, Base
<1>2. ASSUME NEW h \in Handlers, NEW q \in Queries, SearchGet(h, q)
      PROVE  ReqOK'
  BY <1>2, SearchGetReq
<1>3. ASSUME NEW h \in Handlers, NEW q \in Queries, SearchAnswered(h, q)
      PROVE  ReqOK'
  BY <1>3 DEF SearchAnswered, ReqOK, Base
<1>4. ASSUME NEW h \in Handlers, SearchQuery(h)
      PROVE  ReqOK'
  BY <1>4, SearchQueryReq
<1>5. ASSUME NEW h \in Handlers, SearchStore(h)
      PROVE  ReqOK'
  BY <1>5, SearchStoreReq
<1>6. ASSUME NEW h \in Handlers, NEW p \in Properties, NEW via \in {"agent",
            "route"}, NEW d \in BOOLEAN, CreateEmbed(h, p, via, d)
      PROVE  ReqOK'
  BY <1>6, CreateEmbedReq
<1>7. ASSUME NEW h \in Handlers, CreateInsert(h)
      PROVE  ReqOK'
  BY <1>7, CreateInsertReq
<1>8. ASSUME NEW h \in Handlers, NEW p \in Properties, NEW via \in {"agent",
            "route"}, NEW patch \in Patches, UpdateRead(h, p, via, patch)
      PROVE  ReqOK'
  <2>0. BeginsUpdate(h, p)
    BY <1>8 DEF BeginsUpdate
  <2>1. QED
    BY <2>0, UpdateReadReq
<1>9. ASSUME NEW h \in Handlers, UpdateWrite(h)
      PROVE  ReqOK'
  BY <1>9, UpdateWriteReq
<1>10. ASSUME NEW h \in Handlers, NEW p \in Properties, Refused(h, p)
      PROVE  ReqOK'
  BY <1>10, RefusedReq
<1>11. ASSUME NEW h \in Handlers, ClearMemory(h)
      PROVE  ReqOK'
  BY <1>11, ClearMemoryReq
<1>12. ASSUME NEW h \in Handlers, ClearPage(h)
      PROVE  ReqOK'
  BY <1>12, ClearPageReq
<1>13. ASSUME NEW h \in Handlers, ClearEnd(h)
      PROVE  ReqOK'
  BY <1>13, ClearEndReq
<1>14. ASSUME NEW h \in Handlers, SweepStart(h)
      PROVE  ReqOK'
  BY <1>14, SweepStartReq
<1>15. ASSUME NEW h \in Handlers, EnrichSkips(h)
      PROVE  ReqOK'
  BY <1>15, EnrichSkipsReq
<1>16. ASSUME NEW h \in Handlers, EnrichRead(h)
      PROVE  ReqOK'
  BY <1>16, EnrichReadReq
<1>17. ASSUME NEW h \in Handlers, EnrichWrite(h)
      PROVE  ReqOK'
  BY <1>17, EnrichWriteReq
<1>18. ASSUME NEW h \in Handlers, FeaturedGet(h)
      PROVE  ReqOK'
  BY <1>18, FeaturedGetReq
<1>19. ASSUME NEW h \in Handlers, FeaturedValidate(h)
      PROVE  ReqOK'
  BY <1>19, FeaturedValidateReq
<1>20. ASSUME NEW h \in Handlers, FeaturedFetch(h)
      PROVE  ReqOK'
  BY <1>20, FeaturedFetchReq
<1>21. ASSUME NEW h \in Handlers, FeaturedStore(h)
      PROVE  ReqOK'
  BY <1>21, FeaturedStoreReq
<1>22. ASSUME NEW h \in Handlers, FeaturedShown(h)
      PROVE  ReqOK'
  BY <1>22, FeaturedShownReq
<1>23. ASSUME NEW h \in Handlers, Fails(h)
      PROVE  ReqOK'
  BY <1>23, FailsReq
<1>24. ASSUME Restart
      PROVE  ReqOK'
  BY <1>24, IdleTyped DEF Restart, ReqOK
<1>25. ASSUME Expires
      PROVE  ReqOK'
  BY <1>25 DEF Expires, ReqOK, Base
<1>26. QED
  BY <1>1, <1>2, <1>3, <1>4, <1>5, <1>6, <1>7, <1>8, <1>9, <1>10, <1>11, <1>12,
     <1>13, <1>14, <1>15, <1>16, <1>17, <1>18, <1>19, <1>20, <1>21, <1>22,
     <1>23, <1>24, <1>25 DEF Next, SearchStep, OwnerStep, EnrichStep,
     FeaturedStep

(* Whoever writes holds a listing, and past its read one that exists.      *)
LEMMA PlacesStep ==
  ASSUME Base, PlacesOK, RowsOK, RowsStay, [Next]_vars PROVE PlacesOK'
<1>1. CASE UNCHANGED vars
  BY <1>1 DEF vars, cacheVars, rowVars, counters, PlacesOK, Settled,
     WriterSteps, RowsStay
<1>2. ASSUME NEW h \in Handlers, NEW q \in Queries, SearchGet(h, q)
      PROVE  PlacesOK'
  <2>1. Settled(req[h])
    BY DEF PlacesOK
  <2>2. \A k \in Handlers \ {h} : req'[k].at = req[k].at /\ req'[k].prop = req[k].prop /\ req'[k].via = req[k].via
    BY <1>2, SearchGetReq DEF Calm
  <2>4. Settled(req[h])'
    BY <1>2, SearchGetReq, <2>1, IdleFields DEF Settled, WriterSteps, RowsStay
  <2>5. ASSUME NEW k \in Handlers, k # h PROVE Settled(req[k])'
    BY <2>2, <2>5 DEF PlacesOK, Settled, RowsStay, WriterSteps
  <2>6. QED
    BY <2>4, <2>5 DEF PlacesOK
<1>3. ASSUME NEW h \in Handlers, NEW q \in Queries, SearchAnswered(h, q)
      PROVE  PlacesOK'
  <2>1. req' = req
    BY <1>3 DEF SearchAnswered
  <2>2. QED
    BY <2>1 DEF PlacesOK, Settled, RowsStay, WriterSteps
<1>4. ASSUME NEW h \in Handlers, SearchQuery(h)
      PROVE  PlacesOK'
  <2>1. Settled(req[h])
    BY DEF PlacesOK
  <2>2. \A k \in Handlers \ {h} : req'[k].at = req[k].at /\ req'[k].prop = req[k].prop /\ req'[k].via = req[k].via
    BY <1>4, SearchQueryReq DEF Calm
  <2>4. Settled(req[h])'
    BY <1>4, SearchQueryReq, <2>1, IdleFields DEF Settled, WriterSteps, RowsStay
  <2>5. ASSUME NEW k \in Handlers, k # h PROVE Settled(req[k])'
    BY <2>2, <2>5 DEF PlacesOK, Settled, RowsStay, WriterSteps
  <2>6. QED
    BY <2>4, <2>5 DEF PlacesOK
<1>5. ASSUME NEW h \in Handlers, SearchStore(h)
      PROVE  PlacesOK'
  <2>1. Settled(req[h])
    BY DEF PlacesOK
  <2>2. \A k \in Handlers \ {h} : req'[k].at = req[k].at /\ req'[k].prop = req[k].prop /\ req'[k].via = req[k].via
    BY <1>5, SearchStoreReq DEF Scans, Alike
  <2>4. Settled(req[h])'
    BY <1>5, SearchStoreReq, <2>1, IdleFields DEF Settled, WriterSteps, RowsStay
  <2>5. ASSUME NEW k \in Handlers, k # h PROVE Settled(req[k])'
    BY <2>2, <2>5 DEF PlacesOK, Settled, RowsStay, WriterSteps
  <2>6. QED
    BY <2>4, <2>5 DEF PlacesOK
<1>6. ASSUME NEW h \in Handlers, NEW p \in Properties, NEW via \in {"agent",
            "route"}, NEW d \in BOOLEAN, CreateEmbed(h, p, via, d)
      PROVE  PlacesOK'
  <2>1. Settled(req[h])
    BY DEF PlacesOK
  <2>2. \A k \in Handlers \ {h} : req'[k].at = req[k].at /\ req'[k].prop = req[k].prop /\ req'[k].via = req[k].via
    BY <1>6, CreateEmbedReq DEF Calm
  <2>4. Settled(req[h])'
    BY <1>6, CreateEmbedReq, <2>1, IdleFields DEF Settled, WriterSteps, RowsStay
  <2>5. ASSUME NEW k \in Handlers, k # h PROVE Settled(req[k])'
    BY <2>2, <2>5 DEF PlacesOK, Settled, RowsStay, WriterSteps
  <2>6. QED
    BY <2>4, <2>5 DEF PlacesOK
<1>7. ASSUME NEW h \in Handlers, CreateInsert(h)
      PROVE  PlacesOK'
  <2>1. Settled(req[h])
    BY DEF PlacesOK
  <2>2. \A k \in Handlers \ {h} : req'[k].at = req[k].at /\ req'[k].prop = req[k].prop /\ req'[k].via = req[k].via
    BY <1>7, CreateInsertReq DEF Calm
  <2>3. req[h].prop \in Properties /\ status'[req[h].prop] # "absent"
    BY <1>7 DEF CreateInsert, PlacesOK, Settled, WriterSteps, RowsOK, Rows
  <2>4. Settled(req[h])'
    BY <1>7, CreateInsertReq, <2>1, IdleFields, <2>3 DEF Settled, WriterSteps, RowsStay
  <2>5. ASSUME NEW k \in Handlers, k # h PROVE Settled(req[k])'
    BY <2>2, <2>5 DEF PlacesOK, Settled, RowsStay, WriterSteps
  <2>6. QED
    BY <2>4, <2>5 DEF PlacesOK
<1>8. ASSUME NEW h \in Handlers, NEW p \in Properties, NEW via \in {"agent",
            "route"}, NEW patch \in Patches, UpdateRead(h, p, via, patch)
      PROVE  PlacesOK'
  <2>0. BeginsUpdate(h, p)
    BY <1>8 DEF BeginsUpdate
  <2>1. Settled(req[h])
    BY DEF PlacesOK
  <2>2. \A k \in Handlers \ {h} : req'[k].at = req[k].at /\ req'[k].prop = req[k].prop /\ req'[k].via = req[k].via
    BY <2>0, UpdateReadReq DEF Calm
  <2>3. p \in Properties /\ status[p] # "absent"
    BY <1>8 DEF UpdateRead
  <2>4. Settled(req[h])'
    BY <2>0, UpdateReadReq, <2>1, IdleFields, <2>3 DEF Settled, WriterSteps, RowsStay
  <2>5. ASSUME NEW k \in Handlers, k # h PROVE Settled(req[k])'
    BY <2>2, <2>5 DEF PlacesOK, Settled, RowsStay, WriterSteps
  <2>6. QED
    BY <2>4, <2>5 DEF PlacesOK
<1>9. ASSUME NEW h \in Handlers, UpdateWrite(h)
      PROVE  PlacesOK'
  <2>1. Settled(req[h])
    BY DEF PlacesOK
  <2>2. \A k \in Handlers \ {h} : req'[k].at = req[k].at /\ req'[k].prop = req[k].prop /\ req'[k].via = req[k].via
    BY <1>9, UpdateWriteReq DEF Tells, Alike
  <2>3. req[h].prop \in Properties /\ status[req[h].prop] # "absent"
    BY <1>9 DEF UpdateWrite, PlacesOK, Settled, WriterSteps
  <2>4. Settled(req[h])'
    BY <1>9, UpdateWriteReq, <2>1, IdleFields, <2>3 DEF Settled, WriterSteps, RowsStay
  <2>5. ASSUME NEW k \in Handlers, k # h PROVE Settled(req[k])'
    BY <2>2, <2>5 DEF PlacesOK, Settled, RowsStay, WriterSteps
  <2>6. QED
    BY <2>4, <2>5 DEF PlacesOK
<1>10. ASSUME NEW h \in Handlers, NEW p \in Properties, Refused(h, p)
      PROVE  PlacesOK'
  <2>1. Settled(req[h])
    BY DEF PlacesOK
  <2>2. \A k \in Handlers \ {h} : req'[k].at = req[k].at /\ req'[k].prop = req[k].prop /\ req'[k].via = req[k].via
    BY <1>10, RefusedReq DEF Calm
  <2>4. Settled(req[h])'
    BY <1>10, RefusedReq, <2>1, IdleFields DEF Settled, WriterSteps, RowsStay
  <2>5. ASSUME NEW k \in Handlers, k # h PROVE Settled(req[k])'
    BY <2>2, <2>5 DEF PlacesOK, Settled, RowsStay, WriterSteps
  <2>6. QED
    BY <2>4, <2>5 DEF PlacesOK
<1>11. ASSUME NEW h \in Handlers, ClearMemory(h)
      PROVE  PlacesOK'
  <2>1. Settled(req[h])
    BY DEF PlacesOK
  <2>2. \A k \in Handlers \ {h} : req'[k].at = req[k].at /\ req'[k].prop = req[k].prop /\ req'[k].via = req[k].via
    BY <1>11, ClearMemoryReq DEF Calm
  <2>4. Settled(req[h])'
    BY <1>11, ClearMemoryReq, <2>1, IdleFields DEF Settled, WriterSteps, RowsStay, Ended
  <2>5. ASSUME NEW k \in Handlers, k # h PROVE Settled(req[k])'
    BY <2>2, <2>5 DEF PlacesOK, Settled, RowsStay, WriterSteps
  <2>6. QED
    BY <2>4, <2>5 DEF PlacesOK
<1>12. ASSUME NEW h \in Handlers, ClearPage(h)
      PROVE  PlacesOK'
  <2>1. Settled(req[h])
    BY DEF PlacesOK
  <2>2. \A k \in Handlers \ {h} : req'[k].at = req[k].at /\ req'[k].prop = req[k].prop /\ req'[k].via = req[k].via
    BY <1>12, ClearPageReq DEF Calm
  <2>4. Settled(req[h])'
    BY <1>12, ClearPageReq, <2>1, IdleFields DEF Settled, WriterSteps, RowsStay
  <2>5. ASSUME NEW k \in Handlers, k # h PROVE Settled(req[k])'
    BY <2>2, <2>5 DEF PlacesOK, Settled, RowsStay, WriterSteps
  <2>6. QED
    BY <2>4, <2>5 DEF PlacesOK
<1>13. ASSUME NEW h \in Handlers, ClearEnd(h)
      PROVE  PlacesOK'
  <2>1. Settled(req[h])
    BY DEF PlacesOK
  <2>2. \A k \in Handlers \ {h} : req'[k].at = req[k].at /\ req'[k].prop = req[k].prop /\ req'[k].via = req[k].via
    BY <1>13, ClearEndReq DEF Calm
  <2>4. Settled(req[h])'
    BY <1>13, ClearEndReq, <2>1, IdleFields DEF Settled, WriterSteps, RowsStay, Ended
  <2>5. ASSUME NEW k \in Handlers, k # h PROVE Settled(req[k])'
    BY <2>2, <2>5 DEF PlacesOK, Settled, RowsStay, WriterSteps
  <2>6. QED
    BY <2>4, <2>5 DEF PlacesOK
<1>14. ASSUME NEW h \in Handlers, SweepStart(h)
      PROVE  PlacesOK'
  <2>1. Settled(req[h])
    BY DEF PlacesOK
  <2>2. \A k \in Handlers \ {h} : req'[k].at = req[k].at /\ req'[k].prop = req[k].prop /\ req'[k].via = req[k].via
    BY <1>14, SweepStartReq DEF Calm
  <2>4. Settled(req[h])'
    BY <1>14, SweepStartReq, <2>1, IdleFields DEF Settled, WriterSteps, RowsStay
  <2>5. ASSUME NEW k \in Handlers, k # h PROVE Settled(req[k])'
    BY <2>2, <2>5 DEF PlacesOK, Settled, RowsStay, WriterSteps
  <2>6. QED
    BY <2>4, <2>5 DEF PlacesOK
<1>15. ASSUME NEW h \in Handlers, EnrichSkips(h)
      PROVE  PlacesOK'
  <2>1. Settled(req[h])
    BY DEF PlacesOK
  <2>2. \A k \in Handlers \ {h} : req'[k].at = req[k].at /\ req'[k].prop = req[k].prop /\ req'[k].via = req[k].via
    BY <1>15, EnrichSkipsReq DEF Calm
  <2>4. Settled(req[h])'
    BY <1>15, EnrichSkipsReq, <2>1, IdleFields DEF Settled, WriterSteps, RowsStay
  <2>5. ASSUME NEW k \in Handlers, k # h PROVE Settled(req[k])'
    BY <2>2, <2>5 DEF PlacesOK, Settled, RowsStay, WriterSteps
  <2>6. QED
    BY <2>4, <2>5 DEF PlacesOK
<1>16. ASSUME NEW h \in Handlers, EnrichRead(h)
      PROVE  PlacesOK'
  <2>1. Settled(req[h])
    BY DEF PlacesOK
  <2>2. \A k \in Handlers \ {h} : req'[k].at = req[k].at /\ req'[k].prop = req[k].prop /\ req'[k].via = req[k].via
    BY <1>16, EnrichReadReq DEF Calm
  <2>3. req[h].prop \in Properties /\ status[req[h].prop] # "absent"
    BY <1>16 DEF EnrichRead, PlacesOK, Settled, WriterSteps
  <2>4. Settled(req[h])'
    BY <1>16, EnrichReadReq, <2>1, IdleFields, <2>3 DEF Settled, WriterSteps, RowsStay
  <2>5. ASSUME NEW k \in Handlers, k # h PROVE Settled(req[k])'
    BY <2>2, <2>5 DEF PlacesOK, Settled, RowsStay, WriterSteps
  <2>6. QED
    BY <2>4, <2>5 DEF PlacesOK
<1>17. ASSUME NEW h \in Handlers, EnrichWrite(h)
      PROVE  PlacesOK'
  <2>1. Settled(req[h])
    BY DEF PlacesOK
  <2>2. \A k \in Handlers \ {h} : req'[k].at = req[k].at /\ req'[k].prop = req[k].prop /\ req'[k].via = req[k].via
    BY <1>17, EnrichWriteReq DEF Tells, Alike
  <2>4. Settled(req[h])'
    BY <1>17, EnrichWriteReq, <2>1, IdleFields DEF Settled, WriterSteps, RowsStay
  <2>5. ASSUME NEW k \in Handlers, k # h PROVE Settled(req[k])'
    BY <2>2, <2>5 DEF PlacesOK, Settled, RowsStay, WriterSteps
  <2>6. QED
    BY <2>4, <2>5 DEF PlacesOK
<1>18. ASSUME NEW h \in Handlers, FeaturedGet(h)
      PROVE  PlacesOK'
  <2>1. Settled(req[h])
    BY DEF PlacesOK
  <2>2. \A k \in Handlers \ {h} : req'[k].at = req[k].at /\ req'[k].prop = req[k].prop /\ req'[k].via = req[k].via
    BY <1>18, FeaturedGetReq DEF Calm
  <2>4. Settled(req[h])'
    BY <1>18, FeaturedGetReq, <2>1, IdleFields DEF Settled, WriterSteps, RowsStay
  <2>5. ASSUME NEW k \in Handlers, k # h PROVE Settled(req[k])'
    BY <2>2, <2>5 DEF PlacesOK, Settled, RowsStay, WriterSteps
  <2>6. QED
    BY <2>4, <2>5 DEF PlacesOK
<1>19. ASSUME NEW h \in Handlers, FeaturedValidate(h)
      PROVE  PlacesOK'
  <2>1. Settled(req[h])
    BY DEF PlacesOK
  <2>2. \A k \in Handlers \ {h} : req'[k].at = req[k].at /\ req'[k].prop = req[k].prop /\ req'[k].via = req[k].via
    BY <1>19, FeaturedValidateReq DEF Calm
  <2>4. Settled(req[h])'
    BY <1>19, FeaturedValidateReq, <2>1, IdleFields DEF Settled, WriterSteps, RowsStay
  <2>5. ASSUME NEW k \in Handlers, k # h PROVE Settled(req[k])'
    BY <2>2, <2>5 DEF PlacesOK, Settled, RowsStay, WriterSteps
  <2>6. QED
    BY <2>4, <2>5 DEF PlacesOK
<1>20. ASSUME NEW h \in Handlers, FeaturedFetch(h)
      PROVE  PlacesOK'
  <2>1. Settled(req[h])
    BY DEF PlacesOK
  <2>2. \A k \in Handlers \ {h} : req'[k].at = req[k].at /\ req'[k].prop = req[k].prop /\ req'[k].via = req[k].via
    BY <1>20, FeaturedFetchReq DEF Calm
  <2>4. Settled(req[h])'
    BY <1>20, FeaturedFetchReq, <2>1, IdleFields DEF Settled, WriterSteps, RowsStay
  <2>5. ASSUME NEW k \in Handlers, k # h PROVE Settled(req[k])'
    BY <2>2, <2>5 DEF PlacesOK, Settled, RowsStay, WriterSteps
  <2>6. QED
    BY <2>4, <2>5 DEF PlacesOK
<1>21. ASSUME NEW h \in Handlers, FeaturedStore(h)
      PROVE  PlacesOK'
  <2>1. Settled(req[h])
    BY DEF PlacesOK
  <2>2. \A k \in Handlers \ {h} : req'[k].at = req[k].at /\ req'[k].prop = req[k].prop /\ req'[k].via = req[k].via
    BY <1>21, FeaturedStoreReq DEF Calm
  <2>4. Settled(req[h])'
    BY <1>21, FeaturedStoreReq, <2>1, IdleFields DEF Settled, WriterSteps, RowsStay
  <2>5. ASSUME NEW k \in Handlers, k # h PROVE Settled(req[k])'
    BY <2>2, <2>5 DEF PlacesOK, Settled, RowsStay, WriterSteps
  <2>6. QED
    BY <2>4, <2>5 DEF PlacesOK
<1>22. ASSUME NEW h \in Handlers, FeaturedShown(h)
      PROVE  PlacesOK'
  <2>1. Settled(req[h])
    BY DEF PlacesOK
  <2>2. \A k \in Handlers \ {h} : req'[k].at = req[k].at /\ req'[k].prop = req[k].prop /\ req'[k].via = req[k].via
    BY <1>22, FeaturedShownReq DEF Calm
  <2>4. Settled(req[h])'
    BY <1>22, FeaturedShownReq, <2>1, IdleFields DEF Settled, WriterSteps, RowsStay
  <2>5. ASSUME NEW k \in Handlers, k # h PROVE Settled(req[k])'
    BY <2>2, <2>5 DEF PlacesOK, Settled, RowsStay, WriterSteps
  <2>6. QED
    BY <2>4, <2>5 DEF PlacesOK
<1>23. ASSUME NEW h \in Handlers, Fails(h)
      PROVE  PlacesOK'
  <2>1. Settled(req[h])
    BY DEF PlacesOK
  <2>2. \A k \in Handlers \ {h} : req'[k].at = req[k].at /\ req'[k].prop = req[k].prop /\ req'[k].via = req[k].via
    BY <1>23, FailsReq DEF Calm
  <2>4. Settled(req[h])'
    BY <1>23, FailsReq, <2>1, IdleFields DEF Settled, WriterSteps, RowsStay, Ended
  <2>5. ASSUME NEW k \in Handlers, k # h PROVE Settled(req[k])'
    BY <2>2, <2>5 DEF PlacesOK, Settled, RowsStay, WriterSteps
  <2>6. QED
    BY <2>4, <2>5 DEF PlacesOK
<1>24. ASSUME Restart
      PROVE  PlacesOK'
  <2>1. \A k \in Handlers : req'[k] = Idle
    BY <1>24 DEF Restart
  <2>2. QED
    BY <2>1, IdleFields DEF PlacesOK, Settled, WriterSteps
<1>25. ASSUME Expires
      PROVE  PlacesOK'
  <2>1. req' = req
    BY <1>25 DEF Expires
  <2>2. QED
    BY <2>1 DEF PlacesOK, Settled, RowsStay, WriterSteps
<1>26. QED
  BY <1>1, <1>2, <1>3, <1>4, <1>5, <1>6, <1>7, <1>8, <1>9, <1>10, <1>11, <1>12,
     <1>13, <1>14, <1>15, <1>16, <1>17, <1>18, <1>19, <1>20, <1>21, <1>22,
     <1>23, <1>24, <1>25 DEF Next, SearchStep, OwnerStep, EnrichStep,
     FeaturedStep

LEMMA TypeStep ==
  ASSUME Base, CacheInv, [Next]_vars
  PROVE  Base' /\ CacheInv'
<1>1. CacheTypeOK /\ RowsOK /\ ReqOK /\ PlacesOK
  BY BaseParts
<1>2. CacheTypeOK' /\ CacheInv'
  BY <1>1, CacheMoves, CacheStep
<1>3. RowsOK' /\ RowsStay
  BY <1>1, RowsStep
<1>4. ReqOK'
  BY ReqStep
<1>5. PlacesOK'
  BY <1>1, <1>3, PlacesStep
<1>6. Base' <=> CacheTypeOK' /\ RowsOK' /\ ReqOK' /\ PlacesOK'
  BY BaseParts, PTL
<1>7. QED
  BY <1>2, <1>3, <1>4, <1>5, <1>6

LEMMA TypeInit == Init => Base /\ CacheInv
<1> SUFFICES ASSUME Init PROVE Base /\ CacheInv
  OBVIOUS
<1>1. CacheTypeOK /\ CacheInv
  BY DEF Init, CacheInit, CacheTypeOK, CacheInv, Hit, Present
<1>2. (CHOOSE t \in Texts : TRUE) \in Texts
  BY ListingsAssumption
<1>3. RowsOK
  BY <1>2, ListingsAssumption DEF Init, RowsOK, Rows
<1>4. ReqOK
  BY IdleTyped DEF Init, ReqOK
<1>5. PlacesOK
  BY IdleFields DEF Init, PlacesOK, Settled, WriterSteps
<1>6. QED
  BY <1>1, <1>3, <1>4, <1>5, BaseParts

LEMMA Always == Spec => [](Base /\ CacheInv)
<1>1. Init => Base /\ CacheInv
  BY TypeInit
<1>2. Base /\ CacheInv /\ [Next]_vars => (Base /\ CacheInv)'
  BY TypeStep
<1>3. QED
  BY <1>1, <1>2, PTL DEF Spec

(* Rows, the store and requests stay in their sets in every behaviour; who *)
(* writes holds a listing, and past its read one that exists.              *)
THEOREM TypeCorrect == Spec => []TypeOK
<1>1. Base => TypeOK
  BY DEF Base
<1>2. QED
  BY <1>1, Always, PTL

(* Whatever the number of entries and keys: an entry that fewer than       *)
(* MaxEntries others were used after is still there.                       *)
THEOREM EntriesAreKept == Spec => []KeptWhileRecent
<1>1. ASSUME CacheTypeOK, CacheInv, NEW k \in owed, Cardinality(since[k]) < MaxEntries
      PROVE  Hit(k)
  <2>1. k \in Keys /\ since[k] \in SUBSET Keys
    BY <1>1 DEF CacheTypeOK
  <2>2. Cardinality(since[k]) \in Nat
    BY <2>1, FS_Subset, FS_CardinalityType, CacheAssumption
  <2>3. data[k] # None
    BY <1>1, <2>2, CacheAssumption DEF CacheInv
  <2>4. QED
    BY <1>1, <2>1, <2>3 DEF Hit, Present, CacheInv
<1>2. Base /\ CacheInv => KeptWhileRecent
  BY <1>1, BaseParts DEF KeptWhileRecent
<1>3. QED
  BY <1>2, Always, PTL

(* The cache service implements a lossy map: a value that was replaced,    *)
(* invalidated or has expired never comes back.                            *)
THEOREM CacheIsLossyMap == Spec => IsLossyMap
<1>1. Init => Lossy!Init
  BY DEF Init, CacheInit, Lossy!Init
<1>2. Base /\ CacheInv /\ [Next]_vars => [Lossy!Next]_(Lossy!vars)
  BY BaseParts, CacheMoves, LossyStep
<1>3. QED
  BY <1>1, <1>2, Always, PTL DEF Spec, Lossy!Spec, IsLossyMap

-----------------------------------------------------------------------------
(* The front page.                                                         *)

(* While a front page is made, nothing that is open counts as shut; what   *)
(* is about to be shown was open at some moment of the request.            *)
FrontOK(r) ==
  /\ r.at \in {"validate", "fetch", "keep", "shown"} => r.shut \intersect Open = {}
  /\ r.at \in {"keep", "shown"} => \A x \in r.snap : x[1] \notin r.shut
Front == \A h \in Handlers : FrontOK(req[h])

(* A step shows nothing that was shut throughout.                          *)
LEMMA FrontStep ==
  ASSUME Base, Front, [Next]_vars PROVE Front'
<1>1. CASE UNCHANGED vars
  BY <1>1 DEF vars, cacheVars, rowVars, counters, Front, FrontOK, Open
<1>2. ASSUME NEW h \in Handlers, NEW q \in Queries, SearchGet(h, q)
      PROVE  Front'
  <2>1. FrontOK(req[h])
    BY DEF Front
  <2>2. Open' = Open
    BY <1>2 DEF SearchGet, rowVars, Open
  <2>3. FrontOK(req[h])'
    BY <1>2, SearchGetReq, IdleFields, <2>1, <2>2 DEF FrontOK
  <2>6. \A k \in Handlers \ {h} : req'[k] = req[k]
    BY <1>2, SearchGetReq DEF Calm
  <2>4. ASSUME NEW k \in Handlers, k # h PROVE FrontOK(req[k])'
    BY <2>2, <2>4, <2>6 DEF Front, FrontOK
  <2>7. QED
    BY <2>3, <2>4 DEF Front
<1>3. ASSUME NEW h \in Handlers, NEW q \in Queries, SearchAnswered(h, q)
      PROVE  Front'
  <2>1. req' = req /\ Open' = Open
    BY <1>3 DEF SearchAnswered, rowVars, Open
  <2>2. QED
    BY <2>1 DEF Front, FrontOK
<1>4. ASSUME NEW h \in Handlers, SearchQuery(h)
      PROVE  Front'
  <2>1. FrontOK(req[h])
    BY DEF Front
  <2>2. Open' = Open
    BY <1>4 DEF SearchQuery, rowVars, Open
  <2>3. FrontOK(req[h])'
    BY <1>4, SearchQueryReq, IdleFields, <2>1, <2>2 DEF FrontOK
  <2>6. \A k \in Handlers \ {h} : req'[k] = req[k]
    BY <1>4, SearchQueryReq DEF Calm
  <2>4. ASSUME NEW k \in Handlers, k # h PROVE FrontOK(req[k])'
    BY <2>2, <2>4, <2>6 DEF Front, FrontOK
  <2>7. QED
    BY <2>3, <2>4 DEF Front
<1>5. ASSUME NEW h \in Handlers, SearchStore(h)
      PROVE  Front'
  <2>1. FrontOK(req[h])
    BY DEF Front
  <2>2. Open' = Open
    BY <1>5 DEF SearchStore, rowVars, Open
  <2>3. FrontOK(req[h])'
    BY <1>5, SearchStoreReq, IdleFields, <2>1, <2>2 DEF FrontOK
  <2>6. \A k \in Handlers \ {h} : Scans(k)
    BY <1>5, SearchStoreReq
  <2>4. ASSUME NEW k \in Handlers, k # h PROVE FrontOK(req[k])'
    BY <2>2, <2>4, <2>6 DEF Scans, Alike, Front, FrontOK
  <2>7. QED
    BY <2>3, <2>4 DEF Front
<1>6. ASSUME NEW h \in Handlers, NEW p \in Properties, NEW via \in {"agent",
            "route"}, NEW d \in BOOLEAN, CreateEmbed(h, p, via, d)
      PROVE  Front'
  <2>1. FrontOK(req[h])
    BY DEF Front
  <2>2. Open' = Open
    BY <1>6 DEF CreateEmbed, Open
  <2>3. FrontOK(req[h])'
    BY <1>6, CreateEmbedReq, IdleFields, <2>1, <2>2 DEF FrontOK
  <2>6. \A k \in Handlers \ {h} : req'[k] = req[k]
    BY <1>6, CreateEmbedReq DEF Calm
  <2>4. ASSUME NEW k \in Handlers, k # h PROVE FrontOK(req[k])'
    BY <2>2, <2>4, <2>6 DEF Front, FrontOK
  <2>7. QED
    BY <2>3, <2>4 DEF Front
<1>7. ASSUME NEW h \in Handlers, CreateInsert(h)
      PROVE  Front'
  <2>1. FrontOK(req[h])
    BY DEF Front
  <2>2. Open' \subseteq Open
    BY <1>7 DEF CreateInsert, Open, Base, TypeOK
  <2>3. FrontOK(req[h])'
    BY <1>7, CreateInsertReq, IdleFields, <2>1, <2>2 DEF FrontOK
  <2>6. \A k \in Handlers \ {h} : req'[k] = req[k]
    BY <1>7, CreateInsertReq DEF Calm
  <2>4. ASSUME NEW k \in Handlers, k # h PROVE FrontOK(req[k])'
    BY <2>2, <2>4, <2>6 DEF Front, FrontOK
  <2>7. QED
    BY <2>3, <2>4 DEF Front
<1>8. ASSUME NEW h \in Handlers, NEW p \in Properties, NEW via \in {"agent",
            "route"}, NEW patch \in Patches, UpdateRead(h, p, via, patch)
      PROVE  Front'
  <2>0. BeginsUpdate(h, p)
    BY <1>8 DEF BeginsUpdate
  <2>1. FrontOK(req[h])
    BY DEF Front
  <2>2. Open' = Open
    BY <1>8 DEF UpdateRead, rowVars, Open
  <2>3. FrontOK(req[h])'
    BY <2>0, UpdateReadReq, IdleFields, <2>1, <2>2 DEF FrontOK
  <2>6. \A k \in Handlers \ {h} : req'[k] = req[k]
    BY <2>0, UpdateReadReq DEF Calm
  <2>4. ASSUME NEW k \in Handlers, k # h PROVE FrontOK(req[k])'
    BY <2>2, <2>4, <2>6 DEF Front, FrontOK
  <2>7. QED
    BY <2>3, <2>4 DEF Front
<1>9. ASSUME NEW h \in Handlers, UpdateWrite(h)
      PROVE  Front'
  <2>1. FrontOK(req[h])
    BY DEF Front
  <2>2. \A k \in Handlers \ {h} : Tells(k)
    BY <1>9, UpdateWriteReq
  <2>3. FrontOK(req[h])'
    BY <1>9, UpdateWriteReq, IdleFields DEF FrontOK
  <2>4. ASSUME NEW k \in Handlers, k # h PROVE FrontOK(req[k])'
    BY <2>2, <2>4 DEF Tells, Alike, Front, FrontOK
  <2>7. QED
    BY <2>3, <2>4 DEF Front
<1>10. ASSUME NEW h \in Handlers, NEW p \in Properties, Refused(h, p)
      PROVE  Front'
  <2>1. FrontOK(req[h])
    BY DEF Front
  <2>2. Open' = Open
    BY <1>10 DEF Refused, rowVars, Open
  <2>3. FrontOK(req[h])'
    BY <1>10, RefusedReq, IdleFields, <2>1, <2>2 DEF FrontOK
  <2>6. \A k \in Handlers \ {h} : req'[k] = req[k]
    BY <1>10, RefusedReq DEF Calm
  <2>4. ASSUME NEW k \in Handlers, k # h PROVE FrontOK(req[k])'
    BY <2>2, <2>4, <2>6 DEF Front, FrontOK
  <2>7. QED
    BY <2>3, <2>4 DEF Front
<1>11. ASSUME NEW h \in Handlers, ClearMemory(h)
      PROVE  Front'
  <2>1. FrontOK(req[h])
    BY DEF Front
  <2>2. Open' = Open
    BY <1>11 DEF ClearMemory, rowVars, Open
  <2>3. FrontOK(req[h])'
    BY <1>11, ClearMemoryReq, IdleFields, <2>1, <2>2 DEF FrontOK, Ended
  <2>6. \A k \in Handlers \ {h} : req'[k] = req[k]
    BY <1>11, ClearMemoryReq DEF Calm
  <2>4. ASSUME NEW k \in Handlers, k # h PROVE FrontOK(req[k])'
    BY <2>2, <2>4, <2>6 DEF Front, FrontOK
  <2>7. QED
    BY <2>3, <2>4 DEF Front
<1>12. ASSUME NEW h \in Handlers, ClearPage(h)
      PROVE  Front'
  <2>1. FrontOK(req[h])
    BY DEF Front
  <2>2. Open' = Open
    BY <1>12 DEF ClearPage, rowVars, Open
  <2>3. FrontOK(req[h])'
    BY <1>12, ClearPageReq, IdleFields, <2>1, <2>2 DEF FrontOK
  <2>6. \A k \in Handlers \ {h} : req'[k] = req[k]
    BY <1>12, ClearPageReq DEF Calm
  <2>4. ASSUME NEW k \in Handlers, k # h PROVE FrontOK(req[k])'
    BY <2>2, <2>4, <2>6 DEF Front, FrontOK
  <2>7. QED
    BY <2>3, <2>4 DEF Front
<1>13. ASSUME NEW h \in Handlers, ClearEnd(h)
      PROVE  Front'
  <2>1. FrontOK(req[h])
    BY DEF Front
  <2>2. Open' = Open
    BY <1>13 DEF ClearEnd, rowVars, Open
  <2>3. FrontOK(req[h])'
    BY <1>13, ClearEndReq, IdleFields, <2>1, <2>2 DEF FrontOK, Ended
  <2>6. \A k \in Handlers \ {h} : req'[k] = req[k]
    BY <1>13, ClearEndReq DEF Calm
  <2>4. ASSUME NEW k \in Handlers, k # h PROVE FrontOK(req[k])'
    BY <2>2, <2>4, <2>6 DEF Front, FrontOK
  <2>7. QED
    BY <2>3, <2>4 DEF Front
<1>14. ASSUME NEW h \in Handlers, SweepStart(h)
      PROVE  Front'
  <2>1. FrontOK(req[h])
    BY DEF Front
  <2>2. Open' = Open
    BY <1>14 DEF SweepStart, rowVars, Open
  <2>3. FrontOK(req[h])'
    BY <1>14, SweepStartReq, IdleFields, <2>1, <2>2 DEF FrontOK
  <2>6. \A k \in Handlers \ {h} : req'[k] = req[k]
    BY <1>14, SweepStartReq DEF Calm
  <2>4. ASSUME NEW k \in Handlers, k # h PROVE FrontOK(req[k])'
    BY <2>2, <2>4, <2>6 DEF Front, FrontOK
  <2>7. QED
    BY <2>3, <2>4 DEF Front
<1>15. ASSUME NEW h \in Handlers, EnrichSkips(h)
      PROVE  Front'
  <2>1. FrontOK(req[h])
    BY DEF Front
  <2>2. Open' = Open
    BY <1>15 DEF EnrichSkips, rowVars, Open
  <2>3. FrontOK(req[h])'
    BY <1>15, EnrichSkipsReq, IdleFields, <2>1, <2>2 DEF FrontOK
  <2>6. \A k \in Handlers \ {h} : req'[k] = req[k]
    BY <1>15, EnrichSkipsReq DEF Calm
  <2>4. ASSUME NEW k \in Handlers, k # h PROVE FrontOK(req[k])'
    BY <2>2, <2>4, <2>6 DEF Front, FrontOK
  <2>7. QED
    BY <2>3, <2>4 DEF Front
<1>16. ASSUME NEW h \in Handlers, EnrichRead(h)
      PROVE  Front'
  <2>1. FrontOK(req[h])
    BY DEF Front
  <2>2. Open' = Open
    BY <1>16 DEF EnrichRead, rowVars, Open
  <2>3. FrontOK(req[h])'
    BY <1>16, EnrichReadReq, IdleFields, <2>1, <2>2 DEF FrontOK
  <2>6. \A k \in Handlers \ {h} : req'[k] = req[k]
    BY <1>16, EnrichReadReq DEF Calm
  <2>4. ASSUME NEW k \in Handlers, k # h PROVE FrontOK(req[k])'
    BY <2>2, <2>4, <2>6 DEF Front, FrontOK
  <2>7. QED
    BY <2>3, <2>4 DEF Front
<1>17. ASSUME NEW h \in Handlers, EnrichWrite(h)
      PROVE  Front'
  <2>1. FrontOK(req[h])
    BY DEF Front
  <2>2. \A k \in Handlers \ {h} : Tells(k)
    BY <1>17, EnrichWriteReq
  <2>3. FrontOK(req[h])'
    BY <1>17, EnrichWriteReq, IdleFields DEF FrontOK
  <2>4. ASSUME NEW k \in Handlers, k # h PROVE FrontOK(req[k])'
    BY <2>2, <2>4 DEF Tells, Alike, Front, FrontOK
  <2>7. QED
    BY <2>3, <2>4 DEF Front
<1>18. ASSUME NEW h \in Handlers, FeaturedGet(h)
      PROVE  Front'
  <2>1. FrontOK(req[h])
    BY DEF Front
  <2>2. Open' = Open
    BY <1>18 DEF FeaturedGet, rowVars, Open
  <2>3. FrontOK(req[h])'
    BY <1>18, FeaturedGetReq, IdleFields, <2>1, <2>2 DEF FrontOK
  <2>6. \A k \in Handlers \ {h} : req'[k] = req[k]
    BY <1>18, FeaturedGetReq DEF Calm
  <2>4. ASSUME NEW k \in Handlers, k # h PROVE FrontOK(req[k])'
    BY <2>2, <2>4, <2>6 DEF Front, FrontOK
  <2>7. QED
    BY <2>3, <2>4 DEF Front
<1>19. ASSUME NEW h \in Handlers, FeaturedValidate(h)
      PROVE  Front'
  <2>1. FrontOK(req[h])
    BY DEF Front
  <2>2. Open' = Open
    BY <1>19 DEF FeaturedValidate, rowVars, Open
  <2>3. FrontOK(req[h])'
    BY <1>19, FeaturedValidateReq, IdleFields, <2>1, <2>2 DEF FrontOK
  <2>6. \A k \in Handlers \ {h} : req'[k] = req[k]
    BY <1>19, FeaturedValidateReq DEF Calm
  <2>4. ASSUME NEW k \in Handlers, k # h PROVE FrontOK(req[k])'
    BY <2>2, <2>4, <2>6 DEF Front, FrontOK
  <2>7. QED
    BY <2>3, <2>4 DEF Front
<1>20. ASSUME NEW h \in Handlers, FeaturedFetch(h)
      PROVE  Front'
  <2>1. FrontOK(req[h])
    BY DEF Front
  <2>2. Open' = Open
    BY <1>20 DEF FeaturedFetch, rowVars, Open
  <2>5. \A x \in OnOffer : x[1] \in Open
    BY DEF OnOffer
  <2>3. FrontOK(req[h])'
    BY <1>20, FeaturedFetchReq, IdleFields, <2>1, <2>2, <2>5 DEF FrontOK
  <2>6. \A k \in Handlers \ {h} : req'[k] = req[k]
    BY <1>20, FeaturedFetchReq DEF Calm
  <2>4. ASSUME NEW k \in Handlers, k # h PROVE FrontOK(req[k])'
    BY <2>2, <2>4, <2>6 DEF Front, FrontOK
  <2>7. QED
    BY <2>3, <2>4 DEF Front
<1>21. ASSUME NEW h \in Handlers, FeaturedStore(h)
      PROVE  Front'
  <2>1. FrontOK(req[h])
    BY DEF Front
  <2>2. Open' = Open
    BY <1>21 DEF FeaturedStore, rowVars, Open
  <2>3. FrontOK(req[h])'
    BY <1>21, FeaturedStoreReq, IdleFields, <2>1, <2>2 DEF FrontOK
  <2>6. \A k \in Handlers \ {h} : req'[k] = req[k]
    BY <1>21, FeaturedStoreReq DEF Calm
  <2>4. ASSUME NEW k \in Handlers, k # h PROVE FrontOK(req[k])'
    BY <2>2, <2>4, <2>6 DEF Front, FrontOK
  <2>7. QED
    BY <2>3, <2>4 DEF Front
<1>22. ASSUME NEW h \in Handlers, FeaturedShown(h)
      PROVE  Front'
  <2>1. FrontOK(req[h])
    BY DEF Front
  <2>2. Open' = Open
    BY <1>22 DEF FeaturedShown, rowVars, Open
  <2>3. FrontOK(req[h])'
    BY <1>22, FeaturedShownReq, IdleFields, <2>1, <2>2 DEF FrontOK
  <2>6. \A k \in Handlers \ {h} : req'[k] = req[k]
    BY <1>22, FeaturedShownReq DEF Calm
  <2>4. ASSUME NEW k \in Handlers, k # h PROVE FrontOK(req[k])'
    BY <2>2, <2>4, <2>6 DEF Front, FrontOK
  <2>7. QED
    BY <2>3, <2>4 DEF Front
<1>23. ASSUME NEW h \in Handlers, Fails(h)
      PROVE  Front'
  <2>1. FrontOK(req[h])
    BY DEF Front
  <2>2. Open' = Open
    BY <1>23 DEF Fails, rowVars, Open
  <2>3. FrontOK(req[h])'
    BY <1>23, FailsReq, IdleFields, <2>1, <2>2 DEF FrontOK, Ended
  <2>6. \A k \in Handlers \ {h} : req'[k] = req[k]
    BY <1>23, FailsReq DEF Calm
  <2>4. ASSUME NEW k \in Handlers, k # h PROVE FrontOK(req[k])'
    BY <2>2, <2>4, <2>6 DEF Front, FrontOK
  <2>7. QED
    BY <2>3, <2>4 DEF Front
<1>24. ASSUME Restart
      PROVE  Front'
  <2>1. \A k \in Handlers : req'[k] = Idle
    BY <1>24 DEF Restart
  <2>2. QED
    BY <2>1, IdleFields DEF Front, FrontOK
<1>25. ASSUME Expires
      PROVE  Front'
  <2>1. req' = req /\ Open' = Open
    BY <1>25 DEF Expires, rowVars, Open
  <2>2. QED
    BY <2>1 DEF Front, FrontOK
<1>26. QED
  BY <1>1, <1>2, <1>3, <1>4, <1>5, <1>6, <1>7, <1>8, <1>9, <1>10, <1>11, <1>12,
     <1>13, <1>14, <1>15, <1>16, <1>17, <1>18, <1>19, <1>20, <1>21, <1>22,
     <1>23, <1>24, <1>25 DEF Next, SearchStep, OwnerStep, EnrichStep,
     FeaturedStep

(* Nothing is shown on the front page that was off offer during the whole  *)
(* request, however old the cached page and whatever is written beside it. *)
THEOREM TheFrontPageWasOpen == Spec => []FeaturedWasOpen
<1>1. Init => Front
  BY IdleFields DEF Init, Front, FrontOK
<1>2. (Base /\ CacheInv) /\ Front /\ [Next]_vars => Front'
  BY FrontStep
<1>3. (Base /\ CacheInv) /\ Front => FeaturedWasOpen
  BY DEF Front, FrontOK, FeaturedWasOpen
<1>4. QED
  BY <1>1, <1>2, <1>3, Always, PTL DEF Spec

-----------------------------------------------------------------------------
(* Vectors.                                                                *)

Edits == {"insert", "write", "publish"}

(* Whoever inserts a listing is the only one to, with the vector of the    *)
(* text it will have, or none.                                             *)
Inserts ==
  \A h \in Handlers : req[h].at = "insert" =>
    /\ status[req[h].prop] = "absent" /\ req[h].vec \in {text[req[h].prop], NoVector}
    /\ \A k \in Handlers \ {h} : req[k].at = "insert" => req[k].prop # req[h].prop

(* Two that are about to write the same row have made it mixed.            *)
LoneEdits ==
  \A h, k \in Handlers :
    h # k /\ req[h].at \in Edits /\ req[k].at \in Edits /\ req[h].prop = req[k].prop
      => req[h].prop \in mixed

(* What an enrichment is about to publish is the vector of the text.       *)
Published ==
  \A h \in Handlers : req[h].at = "publish" /\ req[h].prop \notin mixed
                        => req[h].vec = text[req[h].prop]

Vectors ==
  /\ \A p \in Properties : status[p] = "absent" => p \notin embedded
  /\ Inserts /\ LoneEdits /\ Published /\ VectorIsCurrent

(* Nobody else is about to write: h alone, or nobody, has moved.           *)
Retires(h) == \A k \in Handlers : req'[k].at \in Edits =>
                k # h /\ req'[k].at = req[k].at /\ req'[k].prop = req[k].prop /\ req'[k].vec = req[k].vec

LEMMA LoneKept ==
  ASSUME LoneEdits, mixed \subseteq mixed', NEW h, Retires(h)
  PROVE  LoneEdits'
BY DEF LoneEdits, Retires

(* Whatever changes no row and starts no write keeps the vectors.          *)
LEMMA VectorsKept ==
  ASSUME Vectors, mixed \subseteq mixed', NEW h, Retires(h),
         UNCHANGED <<status, text, vector, embedded>>
  PROVE  Vectors'
<1>1. LoneEdits'
  BY LoneKept DEF Vectors
<1>2. Inserts' /\ Published'
  BY DEF Vectors, Inserts, Published, Retires, Edits
<1>3. VectorIsCurrent'
  BY DEF Vectors, VectorIsCurrent
<1>4. QED
  BY <1>1, <1>2, <1>3 DEF Vectors

(* One row is written.                                                     *)
Rewrites(p) ==
  \A x \in Properties \ {p} : /\ status'[x] = status[x] /\ text'[x] = text[x]
                              /\ vector'[x] = vector[x] /\ (x \in embedded' <=> x \in embedded)

(* A row is written, by the only one to write it unless it is mixed.       *)
LEMMA VectorWritten ==
  ASSUME Base, Vectors, NEW h \in Handlers, Retires(h), req[h].at \in Edits,
         mixed' = mixed, Rewrites(req[h].prop), status'[req[h].prop] # "absent",
         \/ text'[req[h].prop] = text[req[h].prop]
         \/ req[h].at # "insert" /\ status[req[h].prop] # "absent",
         req[h].prop \notin mixed =>
           \/ vector'[req[h].prop] = text'[req[h].prop]
           \/ vector'[req[h].prop] = NoVector /\ req[h].prop \notin embedded'
  PROVE  Vectors'
<1>1. PICK p \in Properties : p = req[h].prop
  BY DEF Base, TypeOK, WriterSteps, Edits
<1>2. \A k \in Handlers : req'[k].at \in Edits => req[k].prop \in Properties
  BY DEF Base, TypeOK, WriterSteps, Edits, Retires
<1>3. LoneEdits'
  BY LoneKept DEF Vectors
<1>4. \A x \in Properties : status'[x] = "absent" => x \notin embedded'
  BY <1>1 DEF Vectors, Rewrites
<1>5. ASSUME NEW k \in Handlers, req'[k].at = "insert"
      PROVE  /\ status'[req'[k].prop] = "absent" /\ req'[k].vec \in {text'[req'[k].prop], NoVector}
             /\ \A j \in Handlers \ {k} : req'[j].at = "insert" => req'[j].prop # req'[k].prop
  <2>1. /\ k # h /\ req[k].at = "insert" /\ req'[k].prop = req[k].prop /\ req'[k].vec = req[k].vec
        /\ req[k].prop \in Properties
    BY <1>2, <1>5 DEF Retires, Edits
  <2>2. /\ status[req[k].prop] = "absent" /\ req[k].vec \in {text[req[k].prop], NoVector}
        /\ \A j \in Handlers \ {k} : req[j].at = "insert" => req[j].prop # req[k].prop
    BY <2>1 DEF Vectors, Inserts
  <2>3. req[k].prop # p
    <3>1. CASE req[h].at = "insert"
      BY <1>1, <2>1, <2>2, <3>1
    <3>2. CASE req[h].at \in {"write", "publish"}
      BY <1>1, <2>2, <3>2 DEF Base, TypeOK
    <3>3. QED
      BY <3>1, <3>2 DEF Edits
  <2>4. status'[req[k].prop] = status[req[k].prop] /\ text'[req[k].prop] = text[req[k].prop]
    BY <1>1, <2>1, <2>3 DEF Rewrites
  <2>5. \A j \in Handlers \ {k} : req'[j].at = "insert" => req'[j].prop # req'[k].prop
    BY <2>1, <2>2 DEF Retires, Edits
  <2>6. QED
    BY <2>1, <2>2, <2>4, <2>5
<1>6. ASSUME NEW k \in Handlers, req'[k].at = "publish", req'[k].prop \notin mixed'
      PROVE  req'[k].vec = text'[req'[k].prop]
  <2>1. /\ k # h /\ req[k].at = "publish" /\ req'[k].prop = req[k].prop /\ req'[k].vec = req[k].vec
        /\ req[k].prop \in Properties
    BY <1>2, <1>6 DEF Retires, Edits
  <2>2. req[k].prop # p
    BY <1>1, <1>6, <2>1 DEF Vectors, LoneEdits, Edits
  <2>3. text'[req[k].prop] = text[req[k].prop]
    BY <1>1, <2>1, <2>2 DEF Rewrites
  <2>4. QED
    BY <1>6, <2>1, <2>3 DEF Vectors, Published
<1>7. VectorIsCurrent'
  BY <1>1 DEF Vectors, VectorIsCurrent, Rewrites
<1>8. QED
  BY <1>3, <1>4, <1>5, <1>6, <1>7 DEF Vectors, Inserts, Published

(* A step keeps the vectors current where nobody interfered.               *)
LEMMA VectorsStep ==
  ASSUME Base, Vectors, [Next]_vars PROVE Vectors'
<1>1. CASE UNCHANGED vars
  BY <1>1 DEF vars, cacheVars, rowVars, counters, Vectors, Inserts, LoneEdits,
     Published, VectorIsCurrent
<1>2. ASSUME NEW h \in Handlers, NEW q \in Queries, SearchGet(h, q)
      PROVE  Vectors'
  <2>1. \A k \in Handlers \ {h} : req'[k].at = req[k].at /\ req'[k].prop = req[k].prop /\ req'[k].vec = req[k].vec
    BY <1>2, SearchGetReq DEF Calm
  <2>2. req'[h].at \notin Edits
    BY <1>2, SearchGetReq, IdleFields DEF Edits
  <2>3. Retires(h)
    BY <2>1, <2>2 DEF Retires
  <2>4. mixed \subseteq mixed'
    BY <1>2 DEF SearchGet
  <2>5. UNCHANGED <<status, text, vector, embedded>>
    BY <1>2 DEF SearchGet, rowVars
  <2>6. QED
    BY <2>3, <2>4, <2>5, VectorsKept
<1>3. ASSUME NEW h \in Handlers, NEW q \in Queries, SearchAnswered(h, q)
      PROVE  Vectors'
  <2>1. req' = req /\ mixed' = mixed /\ UNCHANGED <<status, text, vector, embedded>>
    BY <1>3 DEF SearchAnswered, rowVars
  <2>3. LoneEdits' /\ Inserts' /\ Published' /\ VectorIsCurrent'
    BY <2>1 DEF Vectors, LoneEdits, Inserts, Published, VectorIsCurrent
  <2>4. QED
    BY <2>1, <2>3 DEF Vectors
<1>4. ASSUME NEW h \in Handlers, SearchQuery(h)
      PROVE  Vectors'
  <2>1. \A k \in Handlers \ {h} : req'[k].at = req[k].at /\ req'[k].prop = req[k].prop /\ req'[k].vec = req[k].vec
    BY <1>4, SearchQueryReq DEF Calm
  <2>2. req'[h].at \notin Edits
    BY <1>4, SearchQueryReq, IdleFields DEF Edits
  <2>3. Retires(h)
    BY <2>1, <2>2 DEF Retires
  <2>4. mixed \subseteq mixed'
    BY <1>4 DEF SearchQuery
  <2>5. UNCHANGED <<status, text, vector, embedded>>
    BY <1>4 DEF SearchQuery, rowVars
  <2>6. QED
    BY <2>3, <2>4, <2>5, VectorsKept
<1>5. ASSUME NEW h \in Handlers, SearchStore(h)
      PROVE  Vectors'
  <2>1. \A k \in Handlers \ {h} : req'[k].at = req[k].at /\ req'[k].prop = req[k].prop /\ req'[k].vec = req[k].vec
    BY <1>5, SearchStoreReq DEF Scans, Alike
  <2>2. req'[h].at \notin Edits
    BY <1>5, SearchStoreReq, IdleFields DEF Edits
  <2>3. Retires(h)
    BY <2>1, <2>2 DEF Retires
  <2>4. mixed \subseteq mixed'
    BY <1>5 DEF SearchStore
  <2>5. UNCHANGED <<status, text, vector, embedded>>
    BY <1>5 DEF SearchStore, rowVars
  <2>6. QED
    BY <2>3, <2>4, <2>5, VectorsKept
<1>6. ASSUME NEW h \in Handlers, NEW p \in Properties, NEW via \in {"agent",
            "route"}, NEW d \in BOOLEAN, CreateEmbed(h, p, via, d)
      PROVE  Vectors'
  <2>1. \A k \in Handlers \ {h} : req'[k].at = req[k].at /\ req'[k].prop = req[k].prop /\ req'[k].vec = req[k].vec
    BY <1>6, CreateEmbedReq DEF Calm
  <2>2. /\ req'[h].at = "insert" /\ req'[h].prop = p /\ req'[h].vec \in {text[p], NoVector}
    BY <1>6, CreateEmbedReq
  <2>3. status[p] = "absent" /\ \A k \in Handlers : req[k].at \in Edits => req[k].prop # p
    BY <1>6 DEF CreateEmbed, Working, WriterSteps, Edits
  <2>4. mixed' = mixed /\ UNCHANGED <<status, text, vector, embedded>>
    BY <1>6 DEF CreateEmbed, Enter
  <2>5. Inserts'
    BY <2>1, <2>2, <2>3, <2>4 DEF Vectors, Inserts, Edits
  <2>6. LoneEdits'
    BY <2>1, <2>2, <2>3, <2>4 DEF Vectors, LoneEdits, Edits
  <2>7. Published'
    BY <2>1, <2>2, <2>4 DEF Vectors, Published
  <2>8. QED
    BY <2>4, <2>5, <2>6, <2>7 DEF Vectors, VectorIsCurrent
<1>7. ASSUME NEW h \in Handlers, CreateInsert(h)
      PROVE  Vectors'
  <2>1. \A k \in Handlers \ {h} : req'[k].at = req[k].at /\ req'[k].prop = req[k].prop /\ req'[k].vec = req[k].vec
    BY <1>7, CreateInsertReq DEF Calm
  <2>2. PICK p \in Properties : p = req[h].prop
    BY <1>7 DEF CreateInsert, Base, TypeOK, WriterSteps
  <2>3. req'[h].at \notin Edits
    BY <1>7, CreateInsertReq, IdleFields DEF Edits
  <2>4. Retires(h)
    BY <2>1, <2>3 DEF Retires
  <2>5. mixed' = mixed
    BY <1>7 DEF CreateInsert
  <2>6. req[h].at = "insert" /\ req[h].vec \in {text[p], NoVector} /\ status[p] = "absent" /\ p \notin embedded
    BY <1>7, <2>2 DEF CreateInsert, Vectors, Inserts
  <2>7. /\ Rewrites(p) /\ status'[p] = "draft" /\ vector'[p] = req[h].vec
        /\ text' = text /\ embedded' = embedded
    BY <1>7, <2>2 DEF CreateInsert, Rewrites, Base, TypeOK
  <2>8. QED
    BY <2>2, <2>4, <2>5, <2>6, <2>7, VectorWritten DEF Edits
<1>8. ASSUME NEW h \in Handlers, NEW p \in Properties, NEW via \in {"agent",
            "route"}, NEW patch \in Patches, UpdateRead(h, p, via, patch)
      PROVE  Vectors'
  <2>0. BeginsUpdate(h, p)
    BY <1>8 DEF BeginsUpdate
  <2>1. \A k \in Handlers \ {h} : req'[k].at = req[k].at /\ req'[k].prop = req[k].prop /\ req'[k].vec = req[k].vec
    BY <2>0, UpdateReadReq DEF Calm
  <2>2. req'[h].at = "write" /\ req'[h].prop = p
    BY <2>0, UpdateReadReq
  <2>3. mixed' = IF Working(p) = {} THEN mixed ELSE mixed \union {p}
    BY <1>8 DEF UpdateRead, Enter
  <2>4. mixed \subseteq mixed' /\ ((\E k \in Handlers : req[k].at \in Edits /\ req[k].prop = p) => p \in mixed')
    BY <2>3 DEF Working, WriterSteps, Edits
  <2>5. UNCHANGED <<status, text, vector, embedded>>
    BY <1>8 DEF UpdateRead, rowVars
  <2>6. Inserts'
    BY <2>1, <2>2, <2>5 DEF Vectors, Inserts
  <2>7. LoneEdits'
    BY <2>1, <2>2, <2>4 DEF Vectors, LoneEdits
  <2>8. Published'
    BY <2>1, <2>2, <2>4, <2>5 DEF Vectors, Published
  <2>9. QED
    BY <2>4, <2>5, <2>6, <2>7, <2>8 DEF Vectors, VectorIsCurrent
<1>9. ASSUME NEW h \in Handlers, UpdateWrite(h)
      PROVE  Vectors'
  <2>1. \A k \in Handlers \ {h} : req'[k].at = req[k].at /\ req'[k].prop = req[k].prop /\ req'[k].vec = req[k].vec
    BY <1>9, UpdateWriteReq DEF Tells, Alike
  <2>2. PICK p \in Properties : p = req[h].prop
    BY <1>9 DEF UpdateWrite, Base, TypeOK, WriterSteps
  <2>3. req'[h].at \notin Edits
    BY <1>9, UpdateWriteReq, IdleFields DEF Edits
  <2>4. Retires(h)
    BY <2>1, <2>3 DEF Retires
  <2>5. mixed' = mixed
    BY <1>9 DEF UpdateWrite
  <2>6. PICK patch : patch = req[h].patch
    OBVIOUS
  <2>7. PICK new : new = Patched(text[p], patch.text)
    OBVIOUS
  <2>8. PICK stat : stat = Patched(status[p], patch.status)
    OBVIOUS
  <2>9. /\ req[h].at = "write" /\ status' = [status EXCEPT ![p] = stat] /\ text' = [text EXCEPT ![p] = new]
        /\ vector' = [vector EXCEPT ![p] = IF patch.text = Keep THEN @ ELSE new]
        /\ embedded' = IF patch.text = Keep THEN embedded ELSE embedded \union {p}
    BY <1>9, <2>2, <2>6, <2>7, <2>8 DEF UpdateWrite
  <2>10. status[p] # "absent"
    BY <2>2, <2>9 DEF Base, TypeOK
  <2>11. stat # "absent"
    <3>1. patch.status \in {"published", "rented", "delisted", Keep}
      BY <2>6 DEF Base, ReqOK, ReqType
    <3>2. QED
      BY <2>8, <2>10, <3>1 DEF Patched
  <2>12. Rewrites(p) /\ status'[p] = stat /\ text'[p] = new
    BY <2>2, <2>9 DEF Rewrites, Base, TypeOK
  <2>13. CASE patch.text = Keep
    <3>1. vector'[p] = vector[p] /\ text'[p] = text[p] /\ embedded' = embedded
      BY <2>7, <2>9, <2>12, <2>13 DEF Patched, Base, TypeOK
    <3>2. p \notin mixed => vector[p] = text[p] \/ (vector[p] = NoVector /\ p \notin embedded)
      BY <2>10 DEF Vectors, VectorIsCurrent
    <3>3. QED
      BY <2>2, <2>4, <2>5, <2>9, <2>10, <2>11, <2>12, <3>1, <3>2, VectorWritten DEF Edits
  <2>14. CASE patch.text # Keep
    <3>1. vector'[p] = new
      BY <2>9, <2>14 DEF Base, TypeOK
    <3>2. QED
      BY <2>2, <2>4, <2>5, <2>9, <2>10, <2>11, <2>12, <3>1, VectorWritten DEF Edits
  <2>15. QED
    BY <2>13, <2>14
<1>10. ASSUME NEW h \in Handlers, NEW p \in Properties, Refused(h, p)
      PROVE  Vectors'
  <2>1. \A k \in Handlers \ {h} : req'[k].at = req[k].at /\ req'[k].prop = req[k].prop /\ req'[k].vec = req[k].vec
    BY <1>10, RefusedReq DEF Calm
  <2>2. req'[h].at \notin Edits
    BY <1>10, RefusedReq, IdleFields DEF Edits
  <2>3. Retires(h)
    BY <2>1, <2>2 DEF Retires
  <2>4. mixed \subseteq mixed'
    BY <1>10 DEF Refused, Enter
  <2>5. UNCHANGED <<status, text, vector, embedded>>
    BY <1>10 DEF Refused, rowVars
  <2>6. QED
    BY <2>3, <2>4, <2>5, VectorsKept
<1>11. ASSUME NEW h \in Handlers, ClearMemory(h)
      PROVE  Vectors'
  <2>1. \A k \in Handlers \ {h} : req'[k].at = req[k].at /\ req'[k].prop = req[k].prop /\ req'[k].vec = req[k].vec
    BY <1>11, ClearMemoryReq DEF Calm
  <2>2. req'[h].at \notin Edits
    BY <1>11, ClearMemoryReq, IdleFields DEF Edits, Ended
  <2>3. Retires(h)
    BY <2>1, <2>2 DEF Retires
  <2>4. mixed \subseteq mixed'
    BY <1>11 DEF ClearMemory
  <2>5. UNCHANGED <<status, text, vector, embedded>>
    BY <1>11 DEF ClearMemory, rowVars
  <2>6. QED
    BY <2>3, <2>4, <2>5, VectorsKept
<1>12. ASSUME NEW h \in Handlers, ClearPage(h)
      PROVE  Vectors'
  <2>1. \A k \in Handlers \ {h} : req'[k].at = req[k].at /\ req'[k].prop = req[k].prop /\ req'[k].vec = req[k].vec
    BY <1>12, ClearPageReq DEF Calm
  <2>2. req'[h].at \notin Edits
    BY <1>12, ClearPageReq, IdleFields DEF Edits
  <2>3. Retires(h)
    BY <2>1, <2>2 DEF Retires
  <2>4. mixed \subseteq mixed'
    BY <1>12 DEF ClearPage
  <2>5. UNCHANGED <<status, text, vector, embedded>>
    BY <1>12 DEF ClearPage, rowVars
  <2>6. QED
    BY <2>3, <2>4, <2>5, VectorsKept
<1>13. ASSUME NEW h \in Handlers, ClearEnd(h)
      PROVE  Vectors'
  <2>1. \A k \in Handlers \ {h} : req'[k].at = req[k].at /\ req'[k].prop = req[k].prop /\ req'[k].vec = req[k].vec
    BY <1>13, ClearEndReq DEF Calm
  <2>2. req'[h].at \notin Edits
    BY <1>13, ClearEndReq, IdleFields DEF Edits, Ended
  <2>3. Retires(h)
    BY <2>1, <2>2 DEF Retires
  <2>4. mixed \subseteq mixed'
    BY <1>13 DEF ClearEnd
  <2>5. UNCHANGED <<status, text, vector, embedded>>
    BY <1>13 DEF ClearEnd, rowVars
  <2>6. QED
    BY <2>3, <2>4, <2>5, VectorsKept
<1>14. ASSUME NEW h \in Handlers, SweepStart(h)
      PROVE  Vectors'
  <2>1. \A k \in Handlers \ {h} : req'[k].at = req[k].at /\ req'[k].prop = req[k].prop /\ req'[k].vec = req[k].vec
    BY <1>14, SweepStartReq DEF Calm
  <2>2. req'[h].at \notin Edits
    BY <1>14, SweepStartReq, IdleFields DEF Edits
  <2>3. Retires(h)
    BY <2>1, <2>2 DEF Retires
  <2>4. mixed \subseteq mixed'
    BY <1>14, SweepStartReq
  <2>5. UNCHANGED <<status, text, vector, embedded>>
    BY <1>14 DEF SweepStart, rowVars
  <2>6. QED
    BY <2>3, <2>4, <2>5, VectorsKept
<1>15. ASSUME NEW h \in Handlers, EnrichSkips(h)
      PROVE  Vectors'
  <2>1. \A k \in Handlers \ {h} : req'[k].at = req[k].at /\ req'[k].prop = req[k].prop /\ req'[k].vec = req[k].vec
    BY <1>15, EnrichSkipsReq DEF Calm
  <2>2. req'[h].at \notin Edits
    BY <1>15, EnrichSkipsReq, IdleFields DEF Edits
  <2>3. Retires(h)
    BY <2>1, <2>2 DEF Retires
  <2>4. mixed \subseteq mixed'
    BY <1>15 DEF EnrichSkips
  <2>5. UNCHANGED <<status, text, vector, embedded>>
    BY <1>15 DEF EnrichSkips, rowVars
  <2>6. QED
    BY <2>3, <2>4, <2>5, VectorsKept
<1>16. ASSUME NEW h \in Handlers, EnrichRead(h)
      PROVE  Vectors'
  <2>1. \A k \in Handlers \ {h} : req'[k].at = req[k].at /\ req'[k].prop = req[k].prop /\ req'[k].vec = req[k].vec
    BY <1>16, EnrichReadReq DEF Calm
  <2>2. PICK p \in Properties : p = req[h].prop
    BY <1>16 DEF EnrichRead, Base, TypeOK, WriterSteps
  <2>3. req[h].at = "enrich" /\ req'[h].at = "publish" /\ req'[h].prop = p /\ req'[h].vec = text[p]
    BY <1>16, <2>2, EnrichReadReq
  <2>4. mixed' = IF Working(p) = {h} THEN mixed ELSE mixed \union {p}
    BY <1>16, <2>2 DEF EnrichRead
  <2>5. mixed \subseteq mixed' /\ ((\E k \in Handlers \ {h} : req[k].at \in Edits /\ req[k].prop = p) => p \in mixed')
    BY <2>4 DEF Working, WriterSteps, Edits
  <2>6. UNCHANGED <<status, text, vector, embedded>>
    BY <1>16 DEF EnrichRead, rowVars
  <2>7. Inserts'
    BY <2>1, <2>3, <2>6 DEF Vectors, Inserts
  <2>8. LoneEdits'
    BY <2>1, <2>3, <2>5 DEF Vectors, LoneEdits
  <2>9. Published'
    BY <2>1, <2>3, <2>5, <2>6 DEF Vectors, Published
  <2>10. QED
    BY <2>5, <2>6, <2>7, <2>8, <2>9 DEF Vectors, VectorIsCurrent
<1>17. ASSUME NEW h \in Handlers, EnrichWrite(h)
      PROVE  Vectors'
  <2>1. \A k \in Handlers \ {h} : req'[k].at = req[k].at /\ req'[k].prop = req[k].prop /\ req'[k].vec = req[k].vec
    BY <1>17, EnrichWriteReq DEF Tells, Alike
  <2>2. PICK p \in Properties : p = req[h].prop
    BY <1>17 DEF EnrichWrite, Base, TypeOK, WriterSteps
  <2>3. req'[h].at \notin Edits
    BY <1>17, EnrichWriteReq, IdleFields DEF Edits
  <2>4. Retires(h)
    BY <2>1, <2>3 DEF Retires
  <2>5. mixed' = mixed
    BY <1>17 DEF EnrichWrite
  <2>6. req[h].at = "publish" /\ (p \notin mixed => req[h].vec = text[p])
    BY <1>17, <2>2 DEF EnrichWrite, Vectors, Published
  <2>7. /\ Rewrites(p) /\ status'[p] = "published" /\ vector'[p] = req[h].vec /\ text' = text
    BY <1>17, <2>2 DEF EnrichWrite, Rewrites, Base, TypeOK
  <2>8. QED
    BY <2>2, <2>4, <2>5, <2>6, <2>7, VectorWritten DEF Edits
<1>18. ASSUME NEW h \in Handlers, FeaturedGet(h)
      PROVE  Vectors'
  <2>1. \A k \in Handlers \ {h} : req'[k].at = req[k].at /\ req'[k].prop = req[k].prop /\ req'[k].vec = req[k].vec
    BY <1>18, FeaturedGetReq DEF Calm
  <2>2. req'[h].at \notin Edits
    BY <1>18, FeaturedGetReq, IdleFields DEF Edits
  <2>3. Retires(h)
    BY <2>1, <2>2 DEF Retires
  <2>4. mixed \subseteq mixed'
    BY <1>18 DEF FeaturedGet
  <2>5. UNCHANGED <<status, text, vector, embedded>>
    BY <1>18 DEF FeaturedGet, rowVars
  <2>6. QED
    BY <2>3, <2>4, <2>5, VectorsKept
<1>19. ASSUME NEW h \in Handlers, FeaturedValidate(h)
      PROVE  Vectors'
  <2>1. \A k \in Handlers \ {h} : req'[k].at = req[k].at /\ req'[k].prop = req[k].prop /\ req'[k].vec = req[k].vec
    BY <1>19, FeaturedValidateReq DEF Calm
  <2>2. req'[h].at \notin Edits
    BY <1>19, FeaturedValidateReq, IdleFields DEF Edits
  <2>3. Retires(h)
    BY <2>1, <2>2 DEF Retires
  <2>4. mixed \subseteq mixed'
    BY <1>19 DEF FeaturedValidate
  <2>5. UNCHANGED <<status, text, vector, embedded>>
    BY <1>19 DEF FeaturedValidate, rowVars
  <2>6. QED
    BY <2>3, <2>4, <2>5, VectorsKept
<1>20. ASSUME NEW h \in Handlers, FeaturedFetch(h)
      PROVE  Vectors'
  <2>1. \A k \in Handlers \ {h} : req'[k].at = req[k].at /\ req'[k].prop = req[k].prop /\ req'[k].vec = req[k].vec
    BY <1>20, FeaturedFetchReq DEF Calm
  <2>2. req'[h].at \notin Edits
    BY <1>20, FeaturedFetchReq, IdleFields DEF Edits
  <2>3. Retires(h)
    BY <2>1, <2>2 DEF Retires
  <2>4. mixed \subseteq mixed'
    BY <1>20 DEF FeaturedFetch
  <2>5. UNCHANGED <<status, text, vector, embedded>>
    BY <1>20 DEF FeaturedFetch, rowVars
  <2>6. QED
    BY <2>3, <2>4, <2>5, VectorsKept
<1>21. ASSUME NEW h \in Handlers, FeaturedStore(h)
      PROVE  Vectors'
  <2>1. \A k \in Handlers \ {h} : req'[k].at = req[k].at /\ req'[k].prop = req[k].prop /\ req'[k].vec = req[k].vec
    BY <1>21, FeaturedStoreReq DEF Calm
  <2>2. req'[h].at \notin Edits
    BY <1>21, FeaturedStoreReq, IdleFields DEF Edits
  <2>3. Retires(h)
    BY <2>1, <2>2 DEF Retires
  <2>4. mixed \subseteq mixed'
    BY <1>21 DEF FeaturedStore
  <2>5. UNCHANGED <<status, text, vector, embedded>>
    BY <1>21 DEF FeaturedStore, rowVars
  <2>6. QED
    BY <2>3, <2>4, <2>5, VectorsKept
<1>22. ASSUME NEW h \in Handlers, FeaturedShown(h)
      PROVE  Vectors'
  <2>1. \A k \in Handlers \ {h} : req'[k].at = req[k].at /\ req'[k].prop = req[k].prop /\ req'[k].vec = req[k].vec
    BY <1>22, FeaturedShownReq DEF Calm
  <2>2. req'[h].at \notin Edits
    BY <1>22, FeaturedShownReq, IdleFields DEF Edits
  <2>3. Retires(h)
    BY <2>1, <2>2 DEF Retires
  <2>4. mixed \subseteq mixed'
    BY <1>22 DEF FeaturedShown
  <2>5. UNCHANGED <<status, text, vector, embedded>>
    BY <1>22 DEF FeaturedShown, rowVars
  <2>6. QED
    BY <2>3, <2>4, <2>5, VectorsKept
<1>23. ASSUME NEW h \in Handlers, Fails(h)
      PROVE  Vectors'
  <2>1. \A k \in Handlers \ {h} : req'[k].at = req[k].at /\ req'[k].prop = req[k].prop /\ req'[k].vec = req[k].vec
    BY <1>23, FailsReq DEF Calm
  <2>2. req'[h].at \notin Edits
    BY <1>23, FailsReq, IdleFields DEF Edits, Ended
  <2>3. Retires(h)
    BY <2>1, <2>2 DEF Retires
  <2>4. mixed \subseteq mixed'
    BY <1>23 DEF Fails
  <2>5. UNCHANGED <<status, text, vector, embedded>>
    BY <1>23 DEF Fails, rowVars
  <2>6. QED
    BY <2>3, <2>4, <2>5, VectorsKept
<1>24. ASSUME Restart
      PROVE  Vectors'
  <2>1. \A k \in Handlers : req'[k] = Idle
    BY <1>24 DEF Restart
  <2>2. mixed \subseteq mixed' /\ UNCHANGED <<status, text, vector, embedded>>
    BY <1>24 DEF Restart, rowVars
  <2>3. PICK h : Retires(h)
    BY <2>1, IdleFields DEF Retires, Edits
  <2>4. QED
    BY <2>2, <2>3, VectorsKept
<1>25. ASSUME Expires
      PROVE  Vectors'
  <2>1. req' = req /\ mixed' = mixed /\ UNCHANGED <<status, text, vector, embedded>>
    BY <1>25 DEF Expires, rowVars
  <2>3. LoneEdits' /\ Inserts' /\ Published' /\ VectorIsCurrent'
    BY <2>1 DEF Vectors, LoneEdits, Inserts, Published, VectorIsCurrent
  <2>4. QED
    BY <2>1, <2>3 DEF Vectors
<1>26. QED
  BY <1>1, <1>2, <1>3, <1>4, <1>5, <1>6, <1>7, <1>8, <1>9, <1>10, <1>11, <1>12,
     <1>13, <1>14, <1>15, <1>16, <1>17, <1>18, <1>19, <1>20, <1>21, <1>22,
     <1>23, <1>24, <1>25 DEF Next, SearchStep, OwnerStep, EnrichStep,
     FeaturedStep

LEMMA VectorsAlways == Spec => []Vectors
<1>1. Init => Vectors
  BY IdleFields DEF Init, Vectors, Inserts, LoneEdits, Published, VectorIsCurrent, Edits
<1>2. (Base /\ CacheInv) /\ Vectors /\ [Next]_vars => Vectors'
  BY VectorsStep
<1>3. QED
  BY <1>1, <1>2, Always, PTL DEF Spec

(* The vector of a listing is of its present text, unless writers of the   *)
(* listing overlapped or failed, or it has not been computed since a       *)
(* creation that had to do without (create_property_worker,                *)
(* update_property_worker, enrich_property).                               *)
THEOREM VectorsAreCurrent == Spec => []VectorIsCurrent
<1>1. Vectors => VectorIsCurrent
  BY DEF Vectors
<1>2. QED
  BY <1>1, VectorsAlways, PTL

-----------------------------------------------------------------------------
(* Cached searches.                                                        *)

(* A search that nothing has crossed is about to store what is visible.    *)
SearchOK(r) ==
  /\ r.at \in {"query", "store"} => r.key \in Queries
  /\ r.at = "query" => ~ r.crossed
  /\ r.at = "store" /\ ~ r.crossed => r.snap = Visible

(* An invalidation that will remove q is under way.                        *)
Clears(q) == \E h \in Handlers : req[h].at = "clear" /\ (backend = "memory" \/ q \in req[h].due)

Fresh ==
  /\ \A h \in Handlers : SearchOK(req[h])
  /\ \A q \in Queries \ missed : Hit(q) => data[q] = Visible \/ Clears(q)

(* Most steps leave rows and invalidations alone.                          *)
LEMMA FreshKept ==
  ASSUME Fresh, Visible' = Visible, backend' = backend, missed' = missed,
         \A q \in Queries : Hit(q)' => Hit(q) /\ data'[q] = data[q],
         \A k \in Handlers : req'[k] = req[k] \/ (req[k].at # "clear" /\ SearchOK(req[k])')
  PROVE  Fresh'
<1>1. \A k \in Handlers : SearchOK(req[k])'
  BY DEF Fresh, SearchOK
<1>2. \A q \in Queries : Clears(q) => Clears(q)'
  BY DEF Clears
<1>3. ASSUME NEW q \in Queries \ missed', Hit(q)'
      PROVE  data'[q] = Visible' \/ Clears(q)'
  BY <1>2, <1>3 DEF Fresh
<1>4. QED
  BY <1>1, <1>3 DEF Fresh

LEMMA VisibleKept ==
  ASSUME UNCHANGED <<status, text, vector>>
  PROVE  Visible' = Visible
BY DEF Visible

(* What a write tells a search in flight.                                  *)
LEMMA TellsSearch ==
  ASSUME NEW k \in Handlers, SearchOK(req[k]), Tells(k)
  PROVE  SearchOK(req[k])'
BY DEF SearchOK, Tells, Alike

LEMMA CacheQuiet ==
  ASSUME CacheTypeOK, CacheInv,
         \/ \E k \in Keys : Get(k) \/ Expire(k)
         \/ \E K \in SUBSET Keys : Drop(K)
  PROVE  /\ backend' = backend
         /\ \A j \in Keys : Hit(j)' => Hit(j) /\ data'[j] = data[j]
<1>1. ASSUME NEW k \in Keys, Get(k) PROVE NoNews /\ backend' = backend
  BY <1>1, GetShape DEF Get, Drop, cacheVars
<1>2. ASSUME NEW k \in Keys, Expire(k) PROVE NoNews /\ backend' = backend
  BY <1>2, ExpireShape DEF Expire
<1>3. ASSUME NEW K \in SUBSET Keys, Drop(K) PROVE NoNews /\ backend' = backend
  BY <1>3, DropShape DEF Drop
<1>4. QED
  BY <1>1, <1>2, <1>3 DEF NoNews

(* A step outdates no cached search, or says so.                           *)
LEMMA FreshStep ==
  ASSUME Base, CacheInv, Vectors, Fresh, [Next]_vars PROVE Fresh'
<1>1. CASE UNCHANGED vars
  BY <1>1 DEF vars, cacheVars, rowVars, counters, Fresh, SearchOK, Clears,
     Visible, Hit, Present
<1>2. ASSUME NEW h \in Handlers, NEW q \in Queries, SearchGet(h, q)
      PROVE  Fresh'
  <2>1. Visible' = Visible
    BY <1>2, VisibleKept DEF SearchGet, rowVars
  <2>2. backend' = backend /\ \A j \in Queries : Hit(j)' => Hit(j) /\ data'[j] = data[j]
    BY <1>2, ListingsAssumption, CacheQuiet, BaseParts DEF SearchGet
  <2>3. \A k \in Handlers \ {h} : req'[k] = req[k]
    BY <1>2, SearchGetReq DEF Calm
  <2>4. req[h].at # "clear" /\ SearchOK(req[h])'
    BY <1>2, SearchGetReq, IdleFields DEF SearchOK
  <2>5. missed' = missed
    BY <1>2 DEF SearchGet
  <2>6. QED
    BY <2>1, <2>2, <2>3, <2>4, <2>5, FreshKept
<1>3. ASSUME NEW h \in Handlers, NEW q \in Queries, SearchAnswered(h, q)
      PROVE  Fresh'
  <2>1. Visible' = Visible
    BY <1>3, VisibleKept DEF SearchAnswered, rowVars
  <2>2. backend' = backend /\ \A j \in Queries : Hit(j)' => Hit(j) /\ data'[j] = data[j]
    BY <1>3, ListingsAssumption, CacheQuiet, BaseParts DEF SearchAnswered
  <2>3. req' = req /\ missed' = missed
    BY <1>3 DEF SearchAnswered
  <2>4. QED
    BY <2>1, <2>2, <2>3, FreshKept
<1>4. ASSUME NEW h \in Handlers, SearchQuery(h)
      PROVE  Fresh'
  <2>1. Visible' = Visible
    BY <1>4, VisibleKept DEF SearchQuery, rowVars
  <2>2. backend' = backend /\ \A j \in Queries : Hit(j)' => Hit(j) /\ data'[j] = data[j]
    BY <1>4 DEF SearchQuery, cacheVars, Hit, Present
  <2>3. \A k \in Handlers \ {h} : req'[k] = req[k]
    BY <1>4, SearchQueryReq DEF Calm
  <2>4. req[h].at # "clear" /\ SearchOK(req[h])'
    <3>1. SearchOK(req[h])
      BY DEF Fresh
    <3>2. QED
      BY <1>4, SearchQueryReq, <2>1, <3>1 DEF SearchOK
  <2>5. missed' = missed
    BY <1>4 DEF SearchQuery
  <2>6. QED
    BY <2>1, <2>2, <2>3, <2>4, <2>5, FreshKept
<1>5. ASSUME NEW h \in Handlers, SearchStore(h)
      PROVE  Fresh'
  <2>1. Visible' = Visible
    BY <1>5, VisibleKept DEF SearchStore, rowVars
  <2>2. PICK q \in Queries : q = req[h].key
    BY <1>5 DEF SearchStore, Fresh, SearchOK
  <2>3. q \in Keys /\ Queries \subseteq Keys /\ req[h].snap \in Values
    BY ListingsAssumption DEF Base, ReqOK, ReqType
  <2>4. Stored(q, req[h].snap) /\ backend' = backend
    BY <1>5, <2>2, <2>3, BaseParts, SetStep DEF SearchStore, Set
  <2>5. /\ req'[h] = Idle /\ req[h].at = "store"
        /\ \A k \in Handlers \ {h} : Scans(k) /\ \A j \in Keys \ {q} : j \in req[k].due => j \in req'[k].due
    BY <1>5, <2>2, SearchStoreReq
  <2>6. \A k \in Handlers : SearchOK(req[k])'
    BY <2>1, <2>5, IdleFields DEF Scans, Alike, Fresh, SearchOK
  <2>7. ASSUME NEW j \in Queries \ missed', Hit(j)', j # q
        PROVE  data'[j] = Visible' \/ Clears(j)'
    <3>1. j \in Keys /\ Hit(j) /\ data'[j] = data[j]
      BY <2>3, <2>4, <2>7 DEF Stored
    <3>2. j \notin missed
      BY <1>5, <2>2, <2>7 DEF SearchStore
    <3>3. Clears(j) => Clears(j)'
      BY <2>4, <2>5, <2>7, <3>1 DEF Clears, Scans, Alike
    <3>4. QED
      BY <2>1, <3>1, <3>2, <3>3 DEF Fresh
  <2>8. ASSUME q \notin missed' PROVE data'[q] = Visible'
    <3>1. ~ req[h].crossed
      BY <1>5, <2>2, <2>8 DEF SearchStore
    <3>2. req[h].snap = Visible
      BY <2>5, <3>1 DEF Fresh, SearchOK
    <3>3. QED
      BY <2>1, <2>4, <3>2 DEF Stored
  <2>9. QED
    BY <2>6, <2>7, <2>8 DEF Fresh
<1>6. ASSUME NEW h \in Handlers, NEW p \in Properties, NEW via \in {"agent",
            "route"}, NEW d \in BOOLEAN, CreateEmbed(h, p, via, d)
      PROVE  Fresh'
  <2>1. Visible' = Visible
    BY <1>6, VisibleKept DEF CreateEmbed
  <2>2. backend' = backend /\ \A j \in Queries : Hit(j)' => Hit(j) /\ data'[j] = data[j]
    BY <1>6 DEF CreateEmbed, cacheVars, Hit, Present
  <2>3. \A k \in Handlers \ {h} : req'[k] = req[k]
    BY <1>6, CreateEmbedReq DEF Calm
  <2>4. req[h].at # "clear" /\ SearchOK(req[h])'
    BY <1>6, CreateEmbedReq, IdleFields DEF SearchOK
  <2>5. missed' = missed
    BY <1>6 DEF CreateEmbed
  <2>6. QED
    BY <2>1, <2>2, <2>3, <2>4, <2>5, FreshKept
<1>7. ASSUME NEW h \in Handlers, CreateInsert(h)
      PROVE  Fresh'
  <2>7. PICK p \in Properties : p = req[h].prop
    BY <1>7 DEF CreateInsert, Base, TypeOK, WriterSteps
  <2>1. Visible' = Visible
    <3>1. status[p] = "absent"
      BY <1>7, <2>7 DEF CreateInsert, Vectors, Inserts
    <3>2. /\ status'[p] = "draft" /\ text' = text
          /\ \A x \in Properties \ {p} : status'[x] = status[x] /\ vector'[x] = vector[x]
      BY <1>7, <2>7 DEF CreateInsert, Base, TypeOK
    <3>3. QED
      BY <3>1, <3>2 DEF Visible
  <2>2. backend' = backend /\ \A j \in Queries : Hit(j)' => Hit(j) /\ data'[j] = data[j]
    BY <1>7 DEF CreateInsert, cacheVars, Hit, Present
  <2>3. \A k \in Handlers \ {h} : req'[k] = req[k]
    BY <1>7, CreateInsertReq DEF Calm
  <2>4. req[h].at # "clear" /\ SearchOK(req[h])'
    BY <1>7, CreateInsertReq DEF SearchOK
  <2>5. missed' = missed
    BY <1>7 DEF CreateInsert
  <2>6. QED
    BY <2>1, <2>2, <2>3, <2>4, <2>5, FreshKept
<1>8. ASSUME NEW h \in Handlers, NEW p \in Properties, NEW via \in {"agent",
            "route"}, NEW patch \in Patches, UpdateRead(h, p, via, patch)
      PROVE  Fresh'
  <2>0. BeginsUpdate(h, p)
    BY <1>8 DEF BeginsUpdate
  <2>1. Visible' = Visible
    BY <1>8, VisibleKept DEF UpdateRead, rowVars
  <2>2. backend' = backend /\ \A j \in Queries : Hit(j)' => Hit(j) /\ data'[j] = data[j]
    BY <1>8 DEF UpdateRead, cacheVars, Hit, Present
  <2>3. \A k \in Handlers \ {h} : req'[k] = req[k]
    BY <2>0, UpdateReadReq DEF Calm
  <2>4. req[h].at # "clear" /\ SearchOK(req[h])'
    BY <2>0, UpdateReadReq, IdleFields DEF SearchOK
  <2>5. missed' = missed
    BY <1>8 DEF UpdateRead
  <2>6. QED
    BY <2>1, <2>2, <2>3, <2>4, <2>5, FreshKept
<1>9. ASSUME NEW h \in Handlers, UpdateWrite(h)
      PROVE  Fresh'
  <2>1. /\ req'[h].at = "clear" /\ req'[h].due = {q \in Queries : Hit(q)}
        /\ \A k \in Handlers \ {h} : Tells(k)
    BY <1>9, UpdateWriteReq
  <2>2. cacheVars' = cacheVars
    BY <1>9 DEF UpdateWrite
  <2>3. \A k \in Handlers : SearchOK(req[k])'
    BY <2>1, TellsSearch DEF Fresh, SearchOK
  <2>4. \A q \in Queries : Hit(q)' => Clears(q)'
    BY <2>1, <2>2 DEF cacheVars, Hit, Present, Clears
  <2>5. QED
    BY <2>3, <2>4 DEF Fresh
<1>10. ASSUME NEW h \in Handlers, NEW p \in Properties, Refused(h, p)
      PROVE  Fresh'
  <2>1. Visible' = Visible
    BY <1>10, VisibleKept DEF Refused, rowVars
  <2>2. backend' = backend /\ \A j \in Queries : Hit(j)' => Hit(j) /\ data'[j] = data[j]
    BY <1>10 DEF Refused, cacheVars, Hit, Present
  <2>3. \A k \in Handlers \ {h} : req'[k] = req[k]
    BY <1>10, RefusedReq DEF Calm
  <2>4. req[h].at # "clear" /\ SearchOK(req[h])'
    BY <1>10, RefusedReq, IdleFields DEF SearchOK
  <2>5. missed' = missed
    BY <1>10 DEF Refused
  <2>6. QED
    BY <2>1, <2>2, <2>3, <2>4, <2>5, FreshKept
<1>11. ASSUME NEW h \in Handlers, ClearMemory(h)
      PROVE  Fresh'
  <2>1. Visible' = Visible
    BY <1>11, VisibleKept DEF ClearMemory, rowVars
  <2>3. \A k \in Handlers \ {h} : req'[k] = req[k]
    BY <1>11, ClearMemoryReq DEF Calm
  <2>4. \A q \in Queries : ~ Hit(q)'
    <3>1. Queries \in SUBSET Keys /\ Drop(Queries)
      BY <1>11, ListingsAssumption DEF ClearMemory
    <3>2. QED
      BY <3>1, BaseParts, DropShape
  <2>5. SearchOK(req[h])'
    BY <1>11, ClearMemoryReq, IdleFields DEF Ended, SearchOK
  <2>6. \A k \in Handlers : SearchOK(req[k])'
    BY <2>1, <2>3, <2>5 DEF Fresh, SearchOK
  <2>7. QED
    BY <2>4, <2>6 DEF Fresh
<1>12. ASSUME NEW h \in Handlers, ClearPage(h)
      PROVE  Fresh'
  <2>1. Visible' = Visible
    BY <1>12, VisibleKept DEF ClearPage, rowVars
  <2>3. \A k \in Handlers \ {h} : req'[k] = req[k]
    BY <1>12, ClearPageReq DEF Calm
  <2>2. PICK K \in SUBSET Queries :
          Drop(K) /\ missed' = missed \ K /\ req'[h].due = req[h].due \ K
    BY <1>12, ClearPageReq
  <2>4. Queries \in SUBSET Keys /\ K \in SUBSET Keys
    BY ListingsAssumption
  <2>5. NoNews /\ (\A j \in K : ~ Hit(j)') /\ backend' = backend
    BY <2>2, <2>4, BaseParts, DropShape DEF Drop
  <2>6. req'[h].at = "clear"
    BY <1>12, ClearPageReq
  <2>7. \A k \in Handlers : SearchOK(req[k])'
    BY <2>1, <2>3, <2>6 DEF Fresh, SearchOK
  <2>8. ASSUME NEW q \in Queries \ missed', Hit(q)'
        PROVE  data'[q] = Visible' \/ Clears(q)'
    <3>1. Hit(q) /\ data'[q] = data[q] /\ q \notin K /\ q \notin missed
      BY <2>2, <2>4, <2>5, <2>8 DEF NoNews
    <3>2. Clears(q) => Clears(q)'
      BY <2>2, <2>3, <2>5, <2>6, <3>1 DEF Clears
    <3>3. QED
      BY <2>1, <3>1, <3>2 DEF Fresh
  <2>9. QED
    BY <2>7, <2>8 DEF Fresh
<1>13. ASSUME NEW h \in Handlers, ClearEnd(h)
      PROVE  Fresh'
  <2>1. Visible' = Visible
    BY <1>13, VisibleKept DEF ClearEnd, rowVars
  <2>2. backend' = backend /\ \A j \in Queries : Hit(j)' => Hit(j) /\ data'[j] = data[j]
    BY <1>13 DEF ClearEnd, cacheVars, Hit, Present
  <2>3. \A k \in Handlers \ {h} : req'[k] = req[k]
    BY <1>13, ClearEndReq DEF Calm
  <2>4. /\ SearchOK(req[h])' /\ missed' = missed
        /\ backend = "redis" /\ \A q \in req[h].due : ~ Hit(q)
    BY <1>13, ClearEndReq, IdleFields DEF ClearEnd, Ended, SearchOK
  <2>5. \A k \in Handlers : SearchOK(req[k])'
    BY <2>1, <2>3, <2>4 DEF Fresh, SearchOK
  <2>6. \A q \in Queries : Hit(q) /\ Clears(q) => Clears(q)'
    BY <2>2, <2>3, <2>4 DEF Clears
  <2>7. QED
    BY <2>1, <2>2, <2>4, <2>5, <2>6 DEF Fresh
<1>14. ASSUME NEW h \in Handlers, SweepStart(h)
      PROVE  Fresh'
  <2>1. Visible' = Visible
    BY <1>14, VisibleKept DEF SweepStart, rowVars
  <2>2. backend' = backend /\ \A j \in Queries : Hit(j)' => Hit(j) /\ data'[j] = data[j]
    BY <1>14 DEF SweepStart, cacheVars, Hit, Present
  <2>3. \A k \in Handlers \ {h} : req'[k] = req[k]
    BY <1>14, SweepStartReq DEF Calm
  <2>4. req[h].at # "clear" /\ SearchOK(req[h])'
    BY <1>14, SweepStartReq, IdleFields DEF SearchOK
  <2>5. missed' = missed
    BY <1>14 DEF SweepStart
  <2>6. QED
    BY <2>1, <2>2, <2>3, <2>4, <2>5, FreshKept
<1>15. ASSUME NEW h \in Handlers, EnrichSkips(h)
      PROVE  Fresh'
  <2>1. Visible' = Visible
    BY <1>15, VisibleKept DEF EnrichSkips, rowVars
  <2>2. backend' = backend /\ \A j \in Queries : Hit(j)' => Hit(j) /\ data'[j] = data[j]
    BY <1>15 DEF EnrichSkips, cacheVars, Hit, Present
  <2>3. \A k \in Handlers \ {h} : req'[k] = req[k]
    BY <1>15, EnrichSkipsReq DEF Calm
  <2>4. req[h].at # "clear" /\ SearchOK(req[h])'
    BY <1>15, EnrichSkipsReq, IdleFields DEF SearchOK
  <2>5. missed' = missed
    BY <1>15 DEF EnrichSkips
  <2>6. QED
    BY <2>1, <2>2, <2>3, <2>4, <2>5, FreshKept
<1>16. ASSUME NEW h \in Handlers, EnrichRead(h)
      PROVE  Fresh'
  <2>1. Visible' = Visible
    BY <1>16, VisibleKept DEF EnrichRead, rowVars
  <2>2. backend' = backend /\ \A j \in Queries : Hit(j)' => Hit(j) /\ data'[j] = data[j]
    BY <1>16 DEF EnrichRead, cacheVars, Hit, Present
  <2>3. \A k \in Handlers \ {h} : req'[k] = req[k]
    BY <1>16, EnrichReadReq DEF Calm
  <2>4. req[h].at # "clear" /\ SearchOK(req[h])'
    BY <1>16, EnrichReadReq, IdleFields DEF SearchOK
  <2>5. missed' = missed
    BY <1>16 DEF EnrichRead
  <2>6. QED
    BY <2>1, <2>2, <2>3, <2>4, <2>5, FreshKept
<1>17. ASSUME NEW h \in Handlers, EnrichWrite(h)
      PROVE  Fresh'
  <2>1. /\ req[h].at = "publish" /\ (req'[h] = Idle \/ req'[h].at = "enrich")
        /\ \A k \in Handlers \ {h} : Tells(k)
    BY <1>17, EnrichWriteReq
  <2>2. cacheVars' = cacheVars
    BY <1>17 DEF EnrichWrite
  <2>3. \A k \in Handlers : SearchOK(req[k])'
    BY <2>1, TellsSearch, IdleFields DEF Fresh, SearchOK
  <2>4. ASSUME NEW q \in Queries \ missed', Hit(q)'
        PROVE  data'[q] = Visible' \/ Clears(q)'
    <3>1. Hit(q) /\ data'[q] = data[q] /\ backend' = backend
      BY <2>2, <2>4 DEF cacheVars, Hit, Present
    <3>2. Visible' = Visible /\ q \notin missed
      BY <1>17, <2>4, <3>1 DEF EnrichWrite
    <3>3. Clears(q) => Clears(q)'
      BY <2>1, <3>1 DEF Clears, Tells, Alike
    <3>4. QED
      BY <3>1, <3>2, <3>3 DEF Fresh
  <2>5. QED
    BY <2>3, <2>4 DEF Fresh
<1>18. ASSUME NEW h \in Handlers, FeaturedGet(h)
      PROVE  Fresh'
  <2>1. Visible' = Visible
    BY <1>18, VisibleKept DEF FeaturedGet, rowVars
  <2>2. backend' = backend /\ \A j \in Queries : Hit(j)' => Hit(j) /\ data'[j] = data[j]
    BY <1>18, ListingsAssumption, CacheQuiet, BaseParts DEF FeaturedGet
  <2>3. \A k \in Handlers \ {h} : req'[k] = req[k]
    BY <1>18, FeaturedGetReq DEF Calm
  <2>4. req[h].at # "clear" /\ SearchOK(req[h])'
    BY <1>18, FeaturedGetReq, IdleFields DEF SearchOK
  <2>5. missed' = missed
    BY <1>18 DEF FeaturedGet
  <2>6. QED
    BY <2>1, <2>2, <2>3, <2>4, <2>5, FreshKept
<1>19. ASSUME NEW h \in Handlers, FeaturedValidate(h)
      PROVE  Fresh'
  <2>1. Visible' = Visible
    BY <1>19, VisibleKept DEF FeaturedValidate, rowVars
  <2>2. backend' = backend /\ \A j \in Queries : Hit(j)' => Hit(j) /\ data'[j] = data[j]
    BY <1>19 DEF FeaturedValidate, cacheVars, Hit, Present
  <2>3. \A k \in Handlers \ {h} : req'[k] = req[k]
    BY <1>19, FeaturedValidateReq DEF Calm
  <2>4. req[h].at # "clear" /\ SearchOK(req[h])'
    BY <1>19, FeaturedValidateReq, IdleFields DEF SearchOK
  <2>5. missed' = missed
    BY <1>19 DEF FeaturedValidate
  <2>6. QED
    BY <2>1, <2>2, <2>3, <2>4, <2>5, FreshKept
<1>20. ASSUME NEW h \in Handlers, FeaturedFetch(h)
      PROVE  Fresh'
  <2>1. Visible' = Visible
    BY <1>20, VisibleKept DEF FeaturedFetch, rowVars
  <2>2. backend' = backend /\ \A j \in Queries : Hit(j)' => Hit(j) /\ data'[j] = data[j]
    BY <1>20 DEF FeaturedFetch, cacheVars, Hit, Present
  <2>3. \A k \in Handlers \ {h} : req'[k] = req[k]
    BY <1>20, FeaturedFetchReq DEF Calm
  <2>4. req[h].at # "clear" /\ SearchOK(req[h])'
    BY <1>20, FeaturedFetchReq, IdleFields DEF SearchOK
  <2>5. missed' = missed
    BY <1>20 DEF FeaturedFetch
  <2>6. QED
    BY <2>1, <2>2, <2>3, <2>4, <2>5, FreshKept
<1>21. ASSUME NEW h \in Handlers, FeaturedStore(h)
      PROVE  Fresh'
  <2>1. Visible' = Visible
    BY <1>21, VisibleKept DEF FeaturedStore, rowVars
  <2>2. backend' = backend /\ \A j \in Queries : Hit(j)' => Hit(j) /\ data'[j] = data[j]
    <3>1. Featured \in Keys /\ Featured \notin Queries /\ Queries \subseteq Keys /\ req[h].snap \in Values
      BY ListingsAssumption DEF Base, ReqOK, ReqType
    <3>2. Stored(Featured, req[h].snap) /\ backend' = backend
      BY <1>21, <3>1, BaseParts, SetStep DEF FeaturedStore, Set
    <3>3. QED
      BY <3>1, <3>2 DEF Stored
  <2>3. \A k \in Handlers \ {h} : req'[k] = req[k]
    BY <1>21, FeaturedStoreReq DEF Calm
  <2>4. req[h].at # "clear" /\ SearchOK(req[h])'
    BY <1>21, FeaturedStoreReq DEF SearchOK
  <2>5. missed' = missed
    BY <1>21 DEF FeaturedStore
  <2>6. QED
    BY <2>1, <2>2, <2>3, <2>4, <2>5, FreshKept
<1>22. ASSUME NEW h \in Handlers, FeaturedShown(h)
      PROVE  Fresh'
  <2>1. Visible' = Visible
    BY <1>22, VisibleKept DEF FeaturedShown, rowVars
  <2>2. backend' = backend /\ \A j \in Queries : Hit(j)' => Hit(j) /\ data'[j] = data[j]
    BY <1>22 DEF FeaturedShown, cacheVars, Hit, Present
  <2>3. \A k \in Handlers \ {h} : req'[k] = req[k]
    BY <1>22, FeaturedShownReq DEF Calm
  <2>4. req[h].at # "clear" /\ SearchOK(req[h])'
    BY <1>22, FeaturedShownReq, IdleFields DEF SearchOK
  <2>5. missed' = missed
    BY <1>22 DEF FeaturedShown
  <2>6. QED
    BY <2>1, <2>2, <2>3, <2>4, <2>5, FreshKept
<1>23. ASSUME NEW h \in Handlers, Fails(h)
      PROVE  Fresh'
  <2>1. Visible' = Visible
    BY <1>23, VisibleKept DEF Fails, rowVars
  <2>2. backend' = backend /\ \A j \in Queries : Hit(j)' => Hit(j) /\ data'[j] = data[j]
    BY <1>23 DEF Fails, cacheVars, Hit, Present
  <2>3. \A k \in Handlers \ {h} : req'[k] = req[k]
    BY <1>23, FailsReq DEF Calm
  <2>4. SearchOK(req[h])'
    BY <1>23, FailsReq, IdleFields DEF Ended, SearchOK
  <2>5. \A k \in Handlers : SearchOK(req[k])'
    BY <2>1, <2>3, <2>4 DEF Fresh, SearchOK
  <2>6. missed \subseteq missed' /\ (req[h].at = "clear" => {q \in Queries : Hit(q)} \subseteq missed')
    BY <1>23 DEF Fails
  <2>7. ASSUME NEW q \in Queries \ missed', Hit(q)'
        PROVE  data'[q] = Visible' \/ Clears(q)'
    <3>1. req[h].at # "clear" /\ q \notin missed
      BY <2>2, <2>6, <2>7
    <3>2. Clears(q) => Clears(q)'
      BY <2>2, <2>3, <3>1 DEF Clears
    <3>3. QED
      BY <2>1, <2>2, <2>7, <3>1, <3>2 DEF Fresh
  <2>8. QED
    BY <2>5, <2>7 DEF Fresh
<1>24. ASSUME Restart
      PROVE  Fresh'
  <2>1. Visible' = Visible
    BY <1>24, VisibleKept DEF Restart, rowVars
  <2>2. backend' = backend /\ \A j \in Queries : Hit(j)' => Hit(j) /\ data'[j] = data[j]
    <3>1. CASE cacheVars' = cacheVars
      BY <3>1 DEF cacheVars, Hit, Present
    <3>2. CASE Drop(Keys)
      <4>1. \E K \in SUBSET Keys : Drop(K)
        BY <3>2
      <4>2. QED
        BY <4>1, ListingsAssumption, CacheQuiet, BaseParts
    <3>3. QED
      BY <1>24, <3>1, <3>2 DEF Restart
  <2>3. \A k \in Handlers : SearchOK(req[k])'
    BY <1>24, IdleFields DEF Restart, SearchOK
  <2>4. missed \subseteq missed' /\ ((\E k \in Handlers : req[k].at = "clear") => {q \in Queries : Hit(q)} \subseteq missed')
    BY <1>24 DEF Restart
  <2>5. ASSUME NEW q \in Queries \ missed', Hit(q)'
        PROVE  data'[q] = Visible'
    <3>1. Hit(q) /\ q \notin missed /\ ~ Clears(q)
      BY <2>2, <2>4, <2>5 DEF Clears
    <3>2. QED
      BY <2>1, <2>2, <2>5, <3>1 DEF Fresh
  <2>6. QED
    BY <2>3, <2>5 DEF Fresh
<1>25. ASSUME Expires
      PROVE  Fresh'
  <2>1. Visible' = Visible
    BY <1>25, VisibleKept DEF Expires, rowVars
  <2>2. backend' = backend /\ \A j \in Queries : Hit(j)' => Hit(j) /\ data'[j] = data[j]
    BY <1>25, ListingsAssumption, CacheQuiet, BaseParts DEF Expires
  <2>3. req' = req /\ missed' = missed
    BY <1>25 DEF Expires
  <2>4. QED
    BY <2>1, <2>2, <2>3, FreshKept
<1>26. QED
  BY <1>1, <1>2, <1>3, <1>4, <1>5, <1>6, <1>7, <1>8, <1>9, <1>10, <1>11, <1>12,
     <1>13, <1>14, <1>15, <1>16, <1>17, <1>18, <1>19, <1>20, <1>21, <1>22,
     <1>23, <1>24, <1>25 DEF Next, SearchStep, OwnerStep, EnrichStep,
     FeaturedStep

(* A cached search is what the database would answer, unless a write       *)
(* crossed the search that stored it, an enrichment published beside the   *)
(* cache, or the invalidation that removes it is running or was lost       *)
(* (search_properties_worker, cache_invalidate, both backends).            *)
THEOREM CachedSearchesAreFresh == Spec => []CachedIsFresh
<1>1. Init => Fresh
  BY IdleFields DEF Init, CacheInit, Fresh, SearchOK, Hit, Present
<1>2. (Base /\ CacheInv) /\ Vectors /\ Fresh /\ [Next]_vars => Fresh'
  BY FreshStep
<1>3. Fresh => CachedIsFresh
  BY DEF Fresh, CachedIsFresh, Clears
<1>4. QED
  BY <1>1, <1>2, <1>3, Always, VectorsAlways, PTL DEF Spec

=============================================================================
