--------------------------- MODULE LeaseLifecycle ---------------------------
(***************************************************************************)
(* What applications, decisions and payments together promise about a      *)
(* lease, without requests, rows or failures: it is drafted for one bid,   *)
(* gets one application, for that bid, and only once that is decided can   *)
(* it be opened for payment or become active; it is paid where it is open, *)
(* settled where it is paid, and settling leaves it active.  No stage is   *)
(* ever taken back.  An approval may activate a lease before it is paid:   *)
(* nothing here says that an active lease is settled.                      *)
(***************************************************************************)
CONSTANTS Leases, Bids, Nobody

VARIABLES
  draftedFor,     \* the bid a lease was drafted for
  applications,   \* pairs of a lease and the bid that applies for it
  decided, open, paid, active, settled

stages == <<decided, open, paid, active, settled>>
lifecycle == <<draftedFor, applications, stages>>

Init ==
  /\ draftedFor = [l \in Leases |-> Nobody]
  /\ applications = {}
  /\ decided = {} /\ open = {} /\ paid = {} /\ active = {} /\ settled = {}

HasApplication(l) == \E b \in Bids : <<l, b>> \in applications

Draft(l, b) ==
  /\ draftedFor[l] = Nobody
  /\ draftedFor' = [draftedFor EXCEPT ![l] = b]
  /\ UNCHANGED <<applications, stages>>

Apply(l) ==
  /\ draftedFor[l] \in Bids
  /\ ~HasApplication(l)
  /\ applications' = applications \cup {<<l, draftedFor[l]>>}
  /\ UNCHANGED <<draftedFor, stages>>

(* The landlord answers, either way.                                       *)
Decide(l) ==
  /\ HasApplication(l)
  /\ decided' = decided \cup {l}
  /\ UNCHANGED <<draftedFor, applications, open, paid, active, settled>>

Open(l) ==
  /\ l \in decided
  /\ open' = open \cup {l}
  /\ UNCHANGED <<draftedFor, applications, decided, paid, active, settled>>

Pay(l) ==
  /\ l \in open
  /\ paid' = paid \cup {l}
  /\ UNCHANGED <<draftedFor, applications, decided, open, active, settled>>

Activate(l) ==
  /\ l \in decided
  /\ active' = active \cup {l}
  /\ UNCHANGED <<draftedFor, applications, decided, open, paid, settled>>

Settle(l) ==
  /\ l \in paid
  /\ settled' = settled \cup {l}
  /\ active' = active \cup {l}
  /\ UNCHANGED <<draftedFor, applications, decided, open, paid>>

Next ==
  \E l \in Leases :
    \/ \E b \in Bids : Draft(l, b)
    \/ Apply(l)
    \/ Decide(l)
    \/ Open(l)
    \/ Pay(l)
    \/ Activate(l)
    \/ Settle(l)

Spec == Init /\ [][Next]_lifecycle
=============================================================================
