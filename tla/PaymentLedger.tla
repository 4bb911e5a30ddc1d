--------------------------- MODULE PaymentLedger ----------------------------
(***************************************************************************)
(* What the payment flow promises, without requests, retries or races:     *)
(* "every finalisation is idempotent, keyed on the gateway reference, so   *)
(* webhook retries and double-clicks cannot double-charge or               *)
(* double-activate a lease; the amount the gateway reports is reconciled   *)
(* against the lease before any money moves" (the module comment of        *)
(* app/services/payment_service.py).  A reference is issued for a lease,   *)
(* charged by the gateway once, and settled only for a charge that covers  *)
(* the rent; settling is what activates a lease, and nothing deactivates   *)
(* it.  The promise has two strengths: with AtMostOnce a reference is      *)
(* settled at most once, without it any number of times.                   *)
(***************************************************************************)
EXTENDS Integers

CONSTANTS Leases, Refs, NoLease, Rent, Amounts, AtMostOnce

VARIABLES
  issuedFor,     \* the lease a reference was issued for
  charged,       \* what the gateway charged for a reference
  settlements,   \* how often a reference was settled
  activeLeases

ledger == <<issuedFor, charged, settlements, activeLeases>>

Init ==
  /\ issuedFor = [r \in Refs |-> NoLease]
  /\ charged = [r \in Refs |-> 0]
  /\ settlements = [r \in Refs |-> 0]
  /\ activeLeases = {}

Issue(r, l) ==
  /\ issuedFor[r] = NoLease
  /\ issuedFor' = [issuedFor EXCEPT ![r] = l]
  /\ UNCHANGED <<charged, settlements, activeLeases>>

Charge(r, a) ==
  /\ issuedFor[r] \in Leases
  /\ charged[r] = 0
  /\ charged' = [charged EXCEPT ![r] = a]
  /\ UNCHANGED <<issuedFor, settlements, activeLeases>>

Settle(r) ==
  /\ issuedFor[r] \in Leases
  /\ AtMostOnce => settlements[r] = 0
  /\ charged[r] > 0 /\ charged[r] + 1 >= Rent[issuedFor[r]]
  /\ settlements' = [settlements EXCEPT ![r] = @ + 1]
  /\ activeLeases' = activeLeases \cup {issuedFor[r]}
  /\ UNCHANGED <<issuedFor, charged>>

Next ==
  \/ \E r \in Refs, l \in Leases : Issue(r, l)
  \/ \E r \in Refs, a \in Amounts : Charge(r, a)
  \/ \E r \in Refs : Settle(r)

Spec == Init /\ [][Next]_ledger
=============================================================================
