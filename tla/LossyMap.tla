------------------------------ MODULE LossyMap ------------------------------
(***************************************************************************)
(* What callers of the cache service may rely on: a map from keys to the   *)
(* value last put there, that may forget any of its keys at any time.  A   *)
(* key is owed from its put until it is taken back; only a put gives a key *)
(* a value.                                                                *)
(***************************************************************************)
CONSTANTS Keys, Values, None
VARIABLES map, owed

vars == <<map, owed>>

Init ==
  /\ map = [k \in Keys |-> None]
  /\ owed = {}

Forgotten(m, K) == [k \in Keys |-> IF k \in K THEN None ELSE m[k]]

(* A put may push out other keys, which stay owed.                         *)
Put(k, v) ==
  /\ \E K \in SUBSET (Keys \ {k}) : map' = Forgotten([map EXCEPT ![k] = v], K)
  /\ owed' = owed \union {k}

(* Nothing that is not owed is in the map.                                 *)
Forget ==
  /\ \E K \in SUBSET Keys : map' = Forgotten(map, K)
  /\ owed' \in SUBSET owed
  /\ \A k \in Keys : map'[k] # None => k \in owed'

Next == Forget \/ \E k \in Keys, v \in Values : Put(k, v)
Spec == Init /\ [][Next]_vars
=============================================================================
