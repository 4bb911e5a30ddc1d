------------------------------- MODULE Cache -------------------------------
(***************************************************************************)
(* The process-wide cache (app/services/cache_service.py): the bounded     *)
(* in-memory store, whose OrderedDict keeps the least recently used key in *)
(* front, and the Redis store, which has no bound of its own and deletes a *)
(* prefix page by page.  The order of the OrderedDict is kept as a         *)
(* relation: behind[k] are the keys after k.                               *)
(***************************************************************************)
EXTENDS Integers, FiniteSets

CONSTANTS Keys, Values, None,
          MaxEntries,      \* MAX_IN_MEMORY_ENTRIES
          Backends         \* what _build_backend may find configured

ASSUME CacheAssumption ==
  /\ None \notin Values
  /\ MaxEntries \in Nat \ {0}
  /\ Backends \subseteq {"memory", "redis"}
  /\ IsFiniteSet(Keys)

VARIABLES
  backend,
  data,                    \* the stored value; None: no entry
  expired,                 \* keys whose expires_at has passed
  behind,
  \* History: keys stored and neither invalidated nor expired since, and for
  \* each the keys used after its last use.
  owed, since

cacheVars == <<backend, data, expired, behind, owed, since>>

Present == {k \in Keys : data[k] # None}
Hit(k) == k \in Present \ expired

CacheInit ==
  /\ backend \in Backends
  /\ data = [k \in Keys |-> None]
  /\ expired = {}
  /\ behind = [k \in Keys |-> {}]
  /\ owed = {}
  /\ since = [k \in Keys |-> {}]

(* The order after k has moved to the end, among the keys of P.            *)
MovedToEnd(k, P) ==
  [j \in Keys |-> IF j = k \/ j \notin P THEN {} ELSE (behind[j] \union {k}) \intersect P]

Without(d, K) == [k \in Keys |-> IF k \in K THEN None ELSE d[k]]

(* Remove the entries of K, as an invalidation or an expiry found by get.  *)
Drop(K) ==
  /\ data' = Without(data, K)
  /\ expired' = expired \ K
  /\ behind' = [j \in Keys |-> IF j \in K THEN {} ELSE behind[j] \ K]
  /\ owed' = owed \ K
  /\ since' = [j \in Keys |-> IF j \in K THEN {} ELSE since[j]]
  /\ UNCHANGED backend

Used(k) == since' = [j \in Keys |-> IF j \in owed \ {k} THEN since[j] \union {k} ELSE {}]

\* Fault: a hit does not move the key.
Get_Unmoved(k) ==
  \/ /\ k \notin Present
     /\ UNCHANGED cacheVars
  \/ /\ k \in Present \intersect expired
     /\ Drop({k})
  \/ /\ Hit(k)
     /\ Used(k)
     /\ UNCHANGED <<backend, data, expired, owed, behind>>

\* Fault: reading an entry renews it, even one whose time is up.
Get_Renews(k) ==
  \/ /\ k \notin Present
     /\ UNCHANGED cacheVars
  \/ /\ k \in Present
     /\ behind' = MovedToEnd(k, Present)
     /\ expired' = expired \ {k}
     /\ Used(k)
     /\ UNCHANGED <<backend, data, owed>>

(* get: a miss, an expired entry that is deleted, or a hit that becomes    *)
(* the most recently used.                                                 *)
Get(k) ==
  \/ /\ k \notin Present
     /\ UNCHANGED cacheVars
  \/ /\ k \in Present \intersect expired
     /\ Drop({k})
  \/ /\ Hit(k)
     /\ behind' = MovedToEnd(k, Present)
     /\ Used(k)
     /\ UNCHANGED <<backend, data, expired, owed>>

(* set: store, move to the end, and evict from the front while there are   *)
(* too many.  There is at most one too many, and only in memory.           *)
Set(k, v) ==
  LET P == Present \union {k}  order == MovedToEnd(k, P) IN
  /\ \E E \in SUBSET P :
       /\ IF backend = "memory" /\ Cardinality(P) > MaxEntries
          THEN \E front \in P : E = {front} /\ P \ {front} \subseteq order[front]
          ELSE E = {}
       /\ data' = Without([data EXCEPT ![k] = v], E)
       /\ expired' = expired \ ({k} \union E)
       /\ behind' = [j \in Keys |-> IF j \in E THEN {} ELSE order[j] \ E]
  /\ Used(k)
  /\ owed' = owed \union {k}
  /\ UNCHANGED backend

(* The clock passes expires_at.                                            *)
Expire(k) ==
  /\ Hit(k)
  /\ expired' = expired \union {k}
  /\ owed' = owed \ {k}
  /\ since' = [since EXCEPT ![k] = {}]
  /\ UNCHANGED <<backend, data, behind>>

-----------------------------------------------------------------------------
CacheTypeOK ==
  /\ backend \in Backends
  /\ data \in [Keys -> Values \union {None}]
  /\ expired \subseteq Present
  /\ behind \in [Keys -> SUBSET Keys] /\ since \in [Keys -> SUBSET Keys]
  /\ owed \subseteq Keys

(* An entry is only pushed out by use: as long as fewer than MaxEntries    *)
(* other keys were used since it was stored or last read, it is there.     *)
KeptWhileRecent ==
  \A k \in owed : Cardinality(since[k]) < MaxEntries => Hit(k)

(* The cache is a lossy map.  An entry past its time counts as forgotten   *)
(* already: a value that was replaced or has expired never comes back.     *)
Lossy == INSTANCE LossyMap WITH map <- [k \in Keys |-> IF k \in expired THEN None ELSE data[k]]
IsLossyMap == Lossy!Spec
=============================================================================
