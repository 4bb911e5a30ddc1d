------------------------------ MODULE Payments ------------------------------
(***************************************************************************)
(* The payment flow: PaymentService (app/services/payment_service.py) over *)
(* the Supabase repository, the two Postgres functions that move money     *)
(* and the payment gateway, which is outside the repository.               *)
(*                                                                         *)
(* Every awaited repository or gateway call is one action, because other   *)
(* requests run while a handler waits (AsyncDBPool.execute hops to a       *)
(* thread).  Handlers are the requests in flight: each serves one          *)
(* initialize, webhook or verify call at a time.  A Postgres function is   *)
(* cut where another transaction can be seen: process_payment_atomic reads *)
(* the status without locking the row (RpcGate) and then writes everything *)
(* (RpcCommit); finalize_payment_split locks the row first (Split).        *)
(*                                                                         *)
(* Amounts are integers in minor units, so the tolerance of 0.01 is 1.     *)
(***************************************************************************)
EXTENDS Integers, FiniteSets, FiniteSetsExt

CONSTANTS
  Leases, Landlords, NoLease,
  Handlers,        \* requests that may be in flight at the same time
  MaxRefs,         \* bound: transactions that initialize may create
  MaxFaults,       \* bound: requests that die half way
  Owner, Rent,     \* leases.owner_id and leases.rent
  Verified,        \* leases whose renter has kyc status "verified"
  RequireKyc,      \* settings.REQUIRE_KYC_FOR_PAYMENT
  FeePercent,      \* settings.PLATFORM_FEE_PERCENT
  Amounts,         \* what a customer may pay at a checkout
  SplitPercents,   \* landlord_percentage values an administrator uses; {}: no splits
  Overlap,         \* may two handlers work on one reference at the same time?
  ReportsAmount,   \* do the gateway's answers and events carry the amount?
  NamesReference,  \* do the gateway's events carry our reference?
  Remembers        \* does verify reach the gateway object that ran initialize?

Refs == 1 .. MaxRefs
NoRef == 0
NoAmount == -1

ASSUME ConstantsAssumption ==
  /\ NoLease \notin Leases
  /\ MaxRefs \in Nat /\ MaxFaults \in Nat
  /\ Owner \in [Leases -> Landlords]
  /\ Rent \in [Leases -> Nat \ {0}]
  /\ Verified \subseteq Leases
  /\ FeePercent \in 0 .. 100
  /\ Amounts \subseteq Nat \ {0}
  /\ SplitPercents \subseteq 0 .. 100
  /\ {RequireKyc, Overlap, ReportsAmount, NamesReference, Remembers} \subseteq BOOLEAN

VARIABLES
  \* Postgres: transactions, ledger_entries per transaction, wallets, leases
  \* and applications, and the storage bucket of lease documents.
  status, leaseOf, amount,
  debits,          \* number of renter debit rows of a transaction
  debit, credit, fee,
  wallet,
  active, contract, application, stored,
  \* The gateway: checkout handed to the customer, amount charged (0: none
  \* yet), and whether the success event was answered with 200.
  session, charge, acked,
  \* The handlers: where each is and what it has read so far.
  pc, kind, cur, evt, lease, amt, first, path,
  faults

txnVars     == <<status, leaseOf, amount>>
ledgerVars  == <<debits, debit, credit, fee, wallet>>
leaseVars   == <<active, contract, application>>
gatewayVars == <<session, charge, acked>>
localVars   == <<kind, cur, evt, lease, amt, first, path>>
vars == <<txnVars, ledgerVars, leaseVars, stored, gatewayVars, pc, localVars, faults>>

OpenStatuses    == {"initialized", "pending", "processing"}
SettledStatuses == {"succeeded", "completed"}
Statuses == {"none", "failed"} \cup OpenStatuses \cup SettledStatuses

(* Fault: failed taken for final, so a late payment counts as a replay.    *)
Coerce_FailedIsFinal(s) == IF s \in {"completed", "failed"} THEN "succeeded" ELSE s

(* _coerce_status on the values the column holds: "completed" reads as     *)
(* succeeded, every canonical value as itself.                             *)
Coerce(s) == IF s = "completed" THEN "succeeded" ELSE s

(* _split_amount: the platform's share, to the cent.                       *)
FeeOf(a) == (a * FeePercent + 50) \div 100

(* Fault: a tolerance of two units.                                        *)
Short_Lenient(a, l) == a + 2 < Rent[l]

(* The expected rent is not covered, one minor unit of tolerance included. *)
Short(a, l) == a + 1 < Rent[l]

(* get_open_transaction: the newest open transaction of a lease, if any.   *)
OpenOf(l) == {r \in Refs : leaseOf[r] = l /\ status[r] \in OpenStatuses}
NewestOpen(l) == {r \in OpenOf(l) : \A q \in OpenOf(l) : q <= r}

Reported(r) == IF ReportsAmount THEN charge[r] ELSE NoAmount

(* With Overlap = FALSE the deployment serialises the handlers of one      *)
(* reference; the code itself does nothing of the kind.                    *)
MayWorkOn(r) == ~Overlap => \A g \in Handlers : cur[g] # r

Init ==
  /\ status = [r \in Refs |-> "none"]
  /\ leaseOf = [r \in Refs |-> NoLease]
  /\ amount = [r \in Refs |-> 0]
  /\ debits = [r \in Refs |-> 0]
  /\ debit = [r \in Refs |-> 0]
  /\ credit = [r \in Refs |-> 0]
  /\ fee = [r \in Refs |-> 0]
  /\ wallet = [o \in Landlords |-> 0]
  \* Approved by the landlord and not yet active: what the tests seed.
  /\ active = [l \in Leases |-> FALSE]
  /\ contract = [l \in Leases |-> "signatures"]
  /\ application = [l \in Leases |-> "approved_pending_payment"]
  /\ stored = [l \in Leases |-> FALSE]
  /\ session = [r \in Refs |-> FALSE]
  /\ charge = [r \in Refs |-> 0]
  /\ acked = [r \in Refs |-> FALSE]
  /\ pc = [h \in Handlers |-> "idle"]
  /\ kind = [h \in Handlers |-> "none"]
  /\ cur = [h \in Handlers |-> NoRef]
  /\ evt = [h \in Handlers |-> NoRef]
  /\ lease = [h \in Handlers |-> NoLease]
  /\ amt = [h \in Handlers |-> NoAmount]
  /\ first = [h \in Handlers |-> FALSE]
  /\ path = [h \in Handlers |-> FALSE]
  /\ faults = 0

Goto(h, p) == pc' = [pc EXCEPT ![h] = p]

(* The request of h is answered and everything it read is forgotten.       *)
Finish(h) ==
  /\ Goto(h, "idle")
  /\ kind' = [kind EXCEPT ![h] = "none"]
  /\ cur' = [cur EXCEPT ![h] = NoRef]
  /\ evt' = [evt EXCEPT ![h] = NoRef]
  /\ lease' = [lease EXCEPT ![h] = NoLease]
  /\ amt' = [amt EXCEPT ![h] = NoAmount]
  /\ first' = [first EXCEPT ![h] = FALSE]
  /\ path' = [path EXCEPT ![h] = FALSE]

(* A webhook still has to be answered; verify ends with its view.          *)
Answer(h) ==
  IF kind[h] = "webhook"
    THEN Goto(h, "ack") /\ UNCHANGED localVars
    ELSE Finish(h)

-----------------------------------------------------------------------------
(* POST /payments/initialize by the renter of lease l.                     *)

InitializeReadLease(h, l) ==
  /\ pc[h] = "idle"
  /\ \E r \in Refs : status[r] = "none"          \* bound MaxRefs
  /\ ~active[l]
  /\ Goto(h, "application")
  /\ kind' = [kind EXCEPT ![h] = "initialize"]
  /\ lease' = [lease EXCEPT ![h] = l]
  /\ UNCHANGED <<txnVars, ledgerVars, leaseVars, stored, gatewayVars,
                 cur, evt, amt, first, path, faults>>

(* Application status and KYC status decide whether the lease is payable.  *)
InitializeReadApplication(h) ==
  /\ pc[h] = "application"
  /\ IF /\ application[lease[h]] = "approved_pending_payment"
        /\ RequireKyc => lease[h] \in Verified
       THEN Goto(h, "open") /\ UNCHANGED localVars
       ELSE Finish(h)
  /\ UNCHANGED <<txnVars, ledgerVars, leaseVars, stored, gatewayVars, faults>>

(* Fault: an open transaction is not looked for.                           *)
InitializeReadOpen_Unasked(h) ==
  /\ pc[h] = "open"
  /\ Goto(h, "create")
  /\ UNCHANGED <<txnVars, ledgerVars, leaseVars, stored, gatewayVars, localVars, faults>>

(* An open transaction refuses the request with 409.                       *)
InitializeReadOpen(h) ==
  /\ pc[h] = "open"
  /\ IF OpenOf(lease[h]) = {}
       THEN Goto(h, "create") /\ UNCHANGED localVars
       ELSE Finish(h)
  /\ UNCHANGED <<txnVars, ledgerVars, leaseVars, stored, gatewayVars, faults>>

InitializeCreate(h) ==
  /\ pc[h] = "create"
  /\ \E r \in Refs :
       /\ status[r] = "none"
       /\ \A q \in Refs : q < r => status[q] # "none"
       /\ status' = [status EXCEPT ![r] = "initialized"]
       /\ leaseOf' = [leaseOf EXCEPT ![r] = lease[h]]
       /\ amount' = [amount EXCEPT ![r] = Rent[lease[h]]]
       /\ cur' = [cur EXCEPT ![h] = r]
  /\ Goto(h, "checkout")
  /\ UNCHANGED <<ledgerVars, leaseVars, stored, gatewayVars,
                 kind, evt, lease, amt, first, path, faults>>

(* Fault: the transaction of a refused checkout stays open.                *)
InitializeCheckout_LeavesOpen(h) ==
  /\ pc[h] = "checkout"
  /\ session' \in {session, [session EXCEPT ![cur[h]] = TRUE]}
  /\ Finish(h)
  /\ UNCHANGED <<txnVars, ledgerVars, leaseVars, stored, charge, acked, faults>>

(* The gateway opens a checkout, which the response hands to the renter,   *)
(* or raises.                                                              *)
InitializeCheckout(h) ==
  /\ pc[h] = "checkout"
  /\ \/ /\ session' = [session EXCEPT ![cur[h]] = TRUE]
        /\ Finish(h)
     \/ /\ Goto(h, "undo")
        /\ UNCHANGED <<session, localVars>>
  /\ UNCHANGED <<txnVars, ledgerVars, leaseVars, stored, charge, acked, faults>>

(* Fault: a status outside the vocabulary of the CHECK constraint.         *)
InitializeUndo_Cancelled(h) ==
  /\ pc[h] = "undo"
  /\ status' = [status EXCEPT ![cur[h]] = "cancelled"]
  /\ Finish(h)
  /\ UNCHANGED <<leaseOf, amount, ledgerVars, leaseVars, stored, gatewayVars, faults>>

InitializeUndo(h) ==
  /\ pc[h] = "undo"
  /\ status' = [status EXCEPT ![cur[h]] = "failed"]
  /\ Finish(h)
  /\ UNCHANGED <<leaseOf, amount, ledgerVars, leaseVars, stored, gatewayVars, faults>>

-----------------------------------------------------------------------------
(* POST /payments/webhook: the success event of reference r.               *)

(* The transaction the event is about: by reference, else the newest open  *)
(* one of the lease and renter its metadata names.                         *)
TargetOf(r) == IF NamesReference THEN {r} ELSE NewestOpen(leaseOf[r])

WebhookStart(h, r) ==
  /\ pc[h] = "idle"
  /\ charge[r] > 0
  /\ \E t \in TargetOf(r) :
       /\ MayWorkOn(t)
       /\ Goto(h, IF Coerce(status[t]) = "succeeded" THEN "ack" ELSE "lease")
       /\ cur' = [cur EXCEPT ![h] = t]
  /\ kind' = [kind EXCEPT ![h] = "webhook"]
  /\ evt' = [evt EXCEPT ![h] = r]
  /\ amt' = [amt EXCEPT ![h] = Reported(r)]
  /\ UNCHANGED <<txnVars, ledgerVars, leaseVars, stored, gatewayVars,
                 lease, first, path, faults>>

(* No transaction is found: acknowledged as unknown_reference.             *)
WebhookUnknown(r) ==
  /\ charge[r] > 0
  /\ TargetOf(r) = {}
  /\ acked' = [acked EXCEPT ![r] = TRUE]
  /\ UNCHANGED <<txnVars, ledgerVars, leaseVars, stored, session, charge,
                 pc, localVars, faults>>

(* The 200 that makes the gateway stop redelivering.                       *)
WebhookAck(h) ==
  /\ pc[h] = "ack"
  /\ acked' = [acked EXCEPT ![evt[h]] = TRUE]
  /\ Finish(h)
  /\ UNCHANGED <<txnVars, ledgerVars, leaseVars, stored, session, charge, faults>>

-----------------------------------------------------------------------------
(* GET /payments/verify/{reference} by the payer or an administrator.      *)

VerifyStart(h, r) ==
  /\ pc[h] = "idle"
  /\ status[r] \in OpenStatuses
  /\ MayWorkOn(r)
  /\ Goto(h, "ask")
  /\ kind' = [kind EXCEPT ![h] = "verify"]
  /\ cur' = [cur EXCEPT ![h] = r]
  /\ UNCHANGED <<txnVars, ledgerVars, leaseVars, stored, gatewayVars,
                 evt, lease, amt, first, path, faults>>

(* A hosted gateway fails the call, reports an unpaid checkout as pending  *)
(* or abandoned (which maps to failed), and a paid one as succeeded.       *)
HostedAnswers(r) ==
  {"error"} \cup IF charge[r] > 0 THEN {"succeeded"}
                 ELSE IF session[r] THEN {"pending", "failed"} ELSE {}

(* get_gateway builds a new MockGateway per request, whose empty session   *)
(* table answers failed; a hosted one knows the checkout it made.          *)
GatewayAnswers(r) == IF Remembers THEN HostedAnswers(r) ELSE {"failed"}

(* Fault: a gateway that cannot be reached is taken for success.           *)
VerifyAsk_Optimistic(h) ==
  /\ pc[h] = "ask"
  /\ Goto(h, "lease")
  /\ amt' = [amt EXCEPT ![h] = NoAmount]
  /\ UNCHANGED <<txnVars, ledgerVars, leaseVars, stored, gatewayVars,
                 kind, cur, evt, lease, first, path, faults>>

VerifyAsk(h) ==
  /\ pc[h] = "ask"
  /\ \E a \in GatewayAnswers(cur[h]) :
       \/ /\ a \in {"error", "pending"}
          /\ Finish(h)
       \/ /\ a = "failed"
          /\ Goto(h, "fail")
          /\ UNCHANGED localVars
       \/ /\ a = "succeeded"
          /\ Goto(h, "lease")
          /\ amt' = [amt EXCEPT ![h] = Reported(cur[h])]
          /\ UNCHANGED <<kind, cur, evt, lease, first, path>>
  /\ UNCHANGED <<txnVars, ledgerVars, leaseVars, stored, gatewayVars, faults>>

-----------------------------------------------------------------------------
(* Shared by webhook and verify.                                           *)

(* The amount that will be settled: a webhook settles what the lease says, *)
(* verify what the gateway reports.                                        *)
AmountToSettle(h, l) ==
  IF kind[h] = "webhook" \/ amt[h] = NoAmount THEN Rent[l] ELSE amt[h]

(* Fault: what was paid is not reconciled with the rent.                   *)
ReadLease_Unreconciled(h) ==
  LET l == leaseOf[cur[h]] IN
  /\ pc[h] = "lease"
  /\ Goto(h, IF active[l] THEN "gate" ELSE "document")
  /\ first' = [first EXCEPT ![h] = ~active[l]]
  /\ amt' = [amt EXCEPT ![h] = AmountToSettle(h, l)]
  /\ UNCHANGED <<txnVars, ledgerVars, leaseVars, stored, gatewayVars,
                 kind, cur, evt, lease, path, faults>>

ReadLease(h) ==
  LET l == leaseOf[cur[h]] IN
  /\ pc[h] = "lease"
  /\ IF amt[h] # NoAmount /\ Short(amt[h], l)
       THEN Goto(h, "fail") /\ UNCHANGED <<amt, first>>
       ELSE /\ Goto(h, IF active[l] THEN "gate" ELSE "document")
            /\ first' = [first EXCEPT ![h] = ~active[l]]
            /\ amt' = [amt EXCEPT ![h] = AmountToSettle(h, l)]
  /\ UNCHANGED <<txnVars, ledgerVars, leaseVars, stored, gatewayVars,
                 kind, cur, evt, lease, path, faults>>

(* set_transaction_status writes whatever the row has become meanwhile.    *)
MarkFailed(h) ==
  /\ pc[h] = "fail"
  /\ status' = [status EXCEPT ![cur[h]] = "failed"]
  /\ Answer(h)
  /\ UNCHANGED <<leaseOf, amount, ledgerVars, leaseVars, stored, gatewayVars, faults>>

(* Fault: the lease is activated with its document, before the database    *)
(* has settled the payment.                                                *)
GenerateDocument_Activates(h) ==
  LET l == leaseOf[cur[h]] IN
  /\ pc[h] = "document"
  /\ stored' = [stored EXCEPT ![l] = TRUE]
  /\ active' = [active EXCEPT ![l] = TRUE]
  /\ application' = [application EXCEPT ![l] = "completed"]
  /\ path' = [path EXCEPT ![h] = TRUE]
  /\ Goto(h, "gate")
  /\ UNCHANGED <<txnVars, ledgerVars, contract, gatewayVars,
                 kind, cur, evt, lease, amt, first, faults>>

(* The lease PDF is compiled and uploaded before the database is asked;    *)
(* any failure yields no path and is otherwise ignored.                    *)
GenerateDocument(h) ==
  /\ pc[h] = "document"
  /\ \/ /\ stored' = [stored EXCEPT ![leaseOf[cur[h]]] = TRUE]
        /\ path' = [path EXCEPT ![h] = TRUE]
     \/ UNCHANGED <<stored, path>>
  /\ Goto(h, "gate")
  /\ UNCHANGED <<txnVars, ledgerVars, leaseVars, gatewayVars,
                 kind, cur, evt, lease, amt, first, faults>>

(* process_payment_atomic, the idempotency gate: a plain SELECT.           *)
RpcGate(h) ==
  /\ pc[h] = "gate"
  /\ IF status[cur[h]] \in SettledStatuses
       THEN Answer(h)
       ELSE Goto(h, "commit") /\ UNCHANGED localVars
  /\ UNCHANGED <<txnVars, ledgerVars, leaseVars, stored, gatewayVars, faults>>

(* Fault: the platform's share is debited on top of the amount.            *)
Settle_ChargesFee(r, a) ==
  LET o == Owner[leaseOf[r]] IN
  /\ status' = [status EXCEPT ![r] = "succeeded"]
  /\ debits' = [debits EXCEPT ![r] = @ + 1]
  /\ debit' = [debit EXCEPT ![r] = @ + a + FeeOf(a)]
  /\ credit' = [credit EXCEPT ![r] = @ + a]
  /\ fee' = [fee EXCEPT ![r] = @ + FeeOf(a)]
  /\ wallet' = [wallet EXCEPT ![o] = @ + a]
  /\ UNCHANGED amount

(* Fault: the upsert replaces the balance instead of adding to it.         *)
Settle_ReplacesBalance(r, a) ==
  LET o == Owner[leaseOf[r]] IN
  /\ status' = [status EXCEPT ![r] = "succeeded"]
  /\ debits' = [debits EXCEPT ![r] = @ + 1]
  /\ debit' = [debit EXCEPT ![r] = @ + a]
  /\ credit' = [credit EXCEPT ![r] = @ + (a - FeeOf(a))]
  /\ fee' = [fee EXCEPT ![r] = @ + FeeOf(a)]
  /\ wallet' = [wallet EXCEPT ![o] = a - FeeOf(a)]
  /\ UNCHANGED amount

(* process_payment_atomic, its writes, which commit together.              *)
Settle(r, a) ==
  LET o == Owner[leaseOf[r]] IN
  /\ status' = [status EXCEPT ![r] = "succeeded"]
  /\ amount' = [amount EXCEPT ![r] = a]
  /\ debits' = [debits EXCEPT ![r] = @ + 1]
  /\ debit' = [debit EXCEPT ![r] = @ + a]
  /\ credit' = [credit EXCEPT ![r] = @ + (a - FeeOf(a))]
  /\ fee' = [fee EXCEPT ![r] = @ + FeeOf(a)]
  /\ wallet' = [wallet EXCEPT ![o] = @ + (a - FeeOf(a))]

Activate(l, uploaded) ==
  /\ active' = [active EXCEPT ![l] = TRUE]
  /\ contract' = [contract EXCEPT ![l] = IF uploaded THEN "document" ELSE @]
  /\ application' = [application EXCEPT ![l] = "completed"]

RpcCommit(h) ==
  /\ pc[h] = "commit"
  /\ Settle(cur[h], amt[h])
  /\ IF first[h] THEN Activate(leaseOf[cur[h]], path[h]) ELSE UNCHANGED leaseVars
  /\ Answer(h)
  /\ UNCHANGED <<leaseOf, stored, gatewayVars, faults>>

-----------------------------------------------------------------------------
(* POST /payments/{id}/split by an administrator: finalize_payment_split   *)
(* locks the row, so it is one step.  A completed row is returned as is.   *)
SplitFee(r, p) == (amount[r] * (100 - p) + 50) \div 100

Split(r, p) ==
  LET o == Owner[leaseOf[r]]
      f == SplitFee(r, p)
  IN
  /\ status[r] \notin {"none", "completed"}
  /\ wallet' = [wallet EXCEPT ![o] = @ + (amount[r] - f)]
  /\ credit' = [credit EXCEPT ![r] = @ + (amount[r] - f)]
  /\ fee' = [fee EXCEPT ![r] = @ + f]
  /\ status' = [status EXCEPT ![r] = "completed"]
  /\ UNCHANGED <<leaseOf, amount, debits, debit, leaseVars, stored, gatewayVars,
                 pc, localVars, faults>>

(* Fault: the error path of a request marks its transaction failed, though *)
(* only the answer of the database may be lost.                            *)
Die_MarksFailed(h) ==
  /\ pc[h] # "idle"
  /\ faults < MaxFaults
  /\ faults' = faults + 1
  /\ status' = IF cur[h] = NoRef THEN status ELSE [status EXCEPT ![cur[h]] = "failed"]
  /\ Finish(h)
  /\ UNCHANGED <<leaseOf, amount, ledgerVars, leaseVars, stored, gatewayVars>>

(* Fault: a webhook that failed is answered with 200 all the same.         *)
Die_Acks(h) ==
  /\ pc[h] # "idle"
  /\ faults < MaxFaults
  /\ faults' = faults + 1
  /\ acked' = IF evt[h] = NoRef THEN acked ELSE [acked EXCEPT ![evt[h]] = TRUE]
  /\ Finish(h)
  /\ UNCHANGED <<txnVars, ledgerVars, leaseVars, stored, session, charge>>

(* A request dies where it waits: the process stops, the call times out or *)
(* the database refuses.  No 200 is sent; what was committed stays.        *)
Die(h) ==
  /\ pc[h] # "idle"
  /\ faults < MaxFaults                          \* bound MaxFaults
  /\ faults' = faults + 1
  /\ Finish(h)
  /\ UNCHANGED <<txnVars, ledgerVars, leaseVars, stored, gatewayVars>>

(* The customer pays at a checkout that was handed out (external).         *)
CustomerPays(r, a) ==
  /\ session[r]
  /\ charge[r] = 0
  /\ charge' = [charge EXCEPT ![r] = a]
  /\ UNCHANGED <<txnVars, ledgerVars, leaseVars, stored, session, acked,
                 pc, localVars, faults>>

-----------------------------------------------------------------------------
HandlerStep(h) ==
  \/ InitializeReadApplication(h)
  \/ InitializeReadOpen(h)
  \/ InitializeCreate(h)
  \/ InitializeCheckout(h)
  \/ InitializeUndo(h)
  \/ WebhookAck(h)
  \/ VerifyAsk(h)
  \/ ReadLease(h)
  \/ MarkFailed(h)
  \/ GenerateDocument(h)
  \/ RpcGate(h)
  \/ RpcCommit(h)

Next ==
  \/ \E h \in Handlers, l \in Leases : InitializeReadLease(h, l)
  \/ \E h \in Handlers, r \in Refs : WebhookStart(h, r)
  \/ \E h \in Handlers, r \in Refs : VerifyStart(h, r)
  \/ \E h \in Handlers : HandlerStep(h)
  \/ \E h \in Handlers : Die(h)
  \/ \E r \in Refs : WebhookUnknown(r)
  \/ \E r \in Refs, p \in SplitPercents : Split(r, p)
  \/ \E r \in Refs, a \in Amounts : CustomerPays(r, a)

Spec == Init /\ [][Next]_vars

(* The event loop resumes every handler, and a gateway redelivers an event *)
(* until it gets its 200.                                                  *)
Fairness ==
  /\ \A h \in Handlers : WF_vars(HandlerStep(h))
  /\ \A r \in Refs : SF_vars(\E h \in Handlers : ~acked[r] /\ WebhookStart(h, r))

FairSpec == Spec /\ Fairness

-----------------------------------------------------------------------------
PCs == {"idle", "application", "open", "create", "checkout", "undo",
        "ask", "lease", "fail", "document", "gate", "commit", "ack"}

DatabaseTypes ==
  /\ status \in [Refs -> Statuses]
  /\ leaseOf \in [Refs -> Leases \cup {NoLease}]
  /\ amount \in [Refs -> Int]
  /\ debits \in [Refs -> Nat]
  /\ debit \in [Refs -> Int]
  /\ credit \in [Refs -> Int]
  /\ fee \in [Refs -> Int]
  /\ wallet \in [Landlords -> Int]
  /\ active \in [Leases -> BOOLEAN]
  /\ contract \in [Leases -> {"signatures", "document"}]
  /\ application \in [Leases -> {"approved_pending_payment", "completed"}]
  /\ stored \in [Leases -> BOOLEAN]

GatewayTypes ==
  /\ session \in [Refs -> BOOLEAN]
  /\ charge \in [Refs -> Nat]
  /\ acked \in [Refs -> BOOLEAN]

RequestTypes ==
  /\ pc \in [Handlers -> PCs]
  /\ kind \in [Handlers -> {"none", "initialize", "webhook", "verify"}]
  /\ cur \in [Handlers -> Refs \cup {NoRef}]
  /\ evt \in [Handlers -> Refs \cup {NoRef}]
  /\ lease \in [Handlers -> Leases \cup {NoLease}]
  /\ amt \in [Handlers -> Nat \cup {NoAmount}]
  /\ first \in [Handlers -> BOOLEAN]
  /\ path \in [Handlers -> BOOLEAN]
  /\ faults \in 0 .. MaxFaults

(* Every row, every answer of the gateway and every local of a request     *)
(* stays in its vocabulary: no path leaves the CHECK constraints.          *)
TypeOK == DatabaseTypes /\ GatewayTypes /\ RequestTypes

Paid(r, l) == charge[r] > 0 /\ charge[r] + 1 >= Rent[l]

(* No money moves on the word of a client: a transaction the ledger debits *)
(* is one the gateway charged for the rent of its lease, whichever of      *)
(* webhook, poll, retry or race settled it.                                *)
DebitIsCharged ==
  \A r \in Refs : debits[r] > 0 => leaseOf[r] \in Leases /\ Paid(r, leaseOf[r])

(* The same when events neither name the reference nor carry the amount:   *)
(* some checkout of the lease was charged.                                 *)
DebitIsOfLease ==
  \A r \in Refs : debits[r] > 0 =>
    \E q \in Refs : leaseOf[q] = leaseOf[r] /\ charge[q] > 0

(* A lease the payment flow activated has a debit in the ledger, and its   *)
(* application is completed with it.                                       *)
ActiveIsPaid ==
  \A l \in Leases : active[l] =>
    /\ application[l] = "completed"
    /\ \E r \in Refs : leaseOf[r] = l /\ debits[r] > 0

(* The gateway stops redelivering a payment that covers the rent only when *)
(* the lease is active: no answer, replay or race loses a payment.         *)
AckedIsActive ==
  \A r \in Refs, l \in Leases :
    leaseOf[r] = l /\ acked[r] /\ Paid(r, l) => active[l]

(* Webhook retries and polls credit a payment once: keyed on the           *)
(* reference, process_payment_atomic settles at most once.                 *)
SettledOnce == \A r \in Refs : debits[r] <= 1

(* What initialize's docstring says of a double click: while a transaction *)
(* is open it answers 409, so a lease has one open transaction at most.    *)
OneOpenTransaction == \A l \in Leases : \A r, q \in OpenOf(l) : r = q

(* The requests that have looked for an open transaction of l, found none  *)
(* and are about to create one.                                            *)
Creating(l) == {h \in Handlers : pc[h] = "create" /\ lease[h] = l}

(* What the look does buy against double clicks and retries: however they  *)
(* overlap, a lease has no more transactions open, or about to be created, *)
(* than there are requests in flight; sequential retries add none.         *)
OpenPerRequest ==
  \A l \in Leases :
    Cardinality(OpenOf(l)) + Cardinality(Creating(l)) <= Cardinality(Handlers)

(* An open transaction without a checkout is being worked on by the        *)
(* initialize that made it, unless that request died: a gateway failure    *)
(* never leaves a transaction that blocks the lease with 409.              *)
OpenIsPayable ==
  \A r \in Refs :
    status[r] \in OpenStatuses /\ ~session[r] =>
      \/ \E h \in Handlers : cur[h] = r /\ pc[h] \in {"checkout", "undo"}
      \/ faults > 0

(* Every transaction's ledger rows balance: what the renter is debited is  *)
(* what landlord and platform are credited.                                *)
LedgerBalances == \A r \in Refs : debit[r] = credit[r] + fee[r]

SumOf(f, S) == MapThenSumSet(LAMBDA r : f[r], S)

(* The transactions for the leases of landlord o.                          *)
TransactionsOf(o) == {r \in Refs : leaseOf[r] \in Leases /\ Owner[leaseOf[r]] = o}

(* The landlord's wallet is what the ledger credits for the leases they    *)
(* own, whatever is settled twice or split: row and balance are written    *)
(* together.                                                               *)
WalletMatchesLedger ==
  \A o \in Landlords : wallet[o] = SumOf(credit, TransactionsOf(o))

(* The books of a landlord: what their renters were debited is in the      *)
(* wallet or was kept by the platform.                                     *)
AccountsBalance ==
  \A o \in Landlords :
    wallet[o] + SumOf(fee, TransactionsOf(o)) = SumOf(debit, TransactionsOf(o))

(* One debit of a transaction is for the rent and for what was charged, to *)
(* the tolerance of one unit, though a webhook settles what the lease says *)
(* and a poll what the gateway reports.                                    *)
DebitIsReconciled ==
  \A r \in Refs : debits[r] > 0 =>
    debit[r] + 1 >= Rent[leaseOf[r]] /\ debit[r] <= charge[r] + 1

(* No step takes money out of a wallet: fees are parts of what is paid.    *)
BalancesGrow == [][\A o \in Landlords : wallet'[o] >= wallet[o]]_vars

(* Succeeded is final: no handler turns a settled transaction back.        *)
SettledStays ==
  [][\A r \in Refs : status[r] \in SettledStatuses => status'[r] \in SettledStatuses]_vars

(* A payment that covers the rent ends in an active lease.                 *)
PaidActivates ==
  \A r \in Refs, l \in Leases : (leaseOf[r] = l /\ Paid(r, l)) ~> active[l]

(* With one request per reference at a time the flow implements the        *)
(* promise of PaymentLedger: what the database and the gateway record.     *)
Promise == INSTANCE PaymentLedger WITH
  issuedFor <- leaseOf, charged <- charge, settlements <- debits,
  activeLeases <- {l \in Leases : active[l]}, AtMostOnce <- TRUE

ExactlyOnce == Promise!Spec

(* Under every interleaving, crash and redelivery it keeps that promise    *)
(* but for the count: a reference is issued once and charged once, and     *)
(* what settles it, however often, was charged and activates its lease.    *)
WeakPromise == INSTANCE PaymentLedger WITH
  issuedFor <- leaseOf, charged <- charge, settlements <- debits,
  activeLeases <- {l \in Leases : active[l]}, AtMostOnce <- FALSE

AtLeastOnce == WeakPromise!Spec
=============================================================================
