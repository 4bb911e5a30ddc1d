-------------------------- MODULE PaymentsProofs --------------------------
(***************************************************************************)
(* Theorems about Payments, for every number of leases, references,        *)
(* handlers and faults, every rent and every amount a customer may pay:    *)
(* first the parts of the inductive invariants, then a lemma per part (one *)
(* step of it per action), then the theorems.                              *)
(***************************************************************************)
EXTENDS PaymentsTypes, FiniteSetTheorems, WellFoundedInduction

USE DEF vars, txnVars, ledgerVars, leaseVars, gatewayVars, localVars

(* What a request is about to settle is what the gateway charged for the   *)
(* transaction in its hand.                                                *)
Reconciled ==
  \A h \in Handlers :
    /\ pc[h] = "lease" => charge[cur[h]] > 0 /\ amt[h] = charge[cur[h]]
    /\ pc[h] \in {"document", "gate", "commit"} => Paid(cur[h], leaseOf[cur[h]])

(* A request that will not activate the lease has seen it active.          *)
LaterPayment ==
  \A h \in Handlers :
    pc[h] \in {"document", "gate", "commit"} /\ ~first[h] => active[leaseOf[cur[h]]]

(* Requests of one reference are served one at a time.                     *)
Disjoint == \A g, h \in Handlers : cur[g] = cur[h] /\ cur[g] # NoRef => g = h

(* What a request still works on is not debited, and a debit is settled.   *)
Unsettled == \A h \in Handlers : pc[h] \in Holding \ {"ack"} => debits[cur[h]] = 0
DebitedIsSettled == \A r \in Refs : debits[r] > 0 => status[r] \in SettledStatuses

(* Without splits, what is settled is debited.                             *)
SettledIsDebited == \A r \in Refs : status[r] \in SettledStatuses => debits[r] > 0

Exclusive == Disjoint /\ Unsettled /\ DebitedIsSettled

(* Without splits, what is settled is active.                              *)
SettledIsActive ==
  \A r \in Refs : status[r] \in SettledStatuses => active[leaseOf[r]]

(* A webhook works on the transaction its event names; it fails one that   *)
(* was not paid in full, and acknowledges such a one or an active lease.   *)
Acknowledging ==
  \A h \in Handlers :
    /\ kind[h] = "webhook" =>
         /\ evt[h] = cur[h]
         /\ pc[h] \notin {"application", "open", "create", "ask"}
    /\ pc[h] = "fail" /\ kind[h] = "webhook" =>
         charge[cur[h]] > 0 /\ ~Paid(cur[h], leaseOf[cur[h]])
    /\ pc[h] = "ack" =>
         /\ kind[h] = "webhook"
         /\ charge[cur[h]] > 0
         /\ Paid(cur[h], leaseOf[cur[h]]) => active[leaseOf[cur[h]]]

AckedIsCharged == \A r \in Refs : acked[r] => charge[r] > 0

(* What a request will settle was charged: the amount it reconciles is the *)
(* gateway's, and a charge never changes.                                  *)
LEMMA ReconciledStep ==
  ASSUME TypeOK, Issued, Reconciled, ReportsAmount, NamesReference, [Next]_vars PROVE Reconciled'
<1> USE DEF TypeOK, GatewayTypes, RequestTypes, Issued, Rows, Hands, Holding,
            Reconciled, Paid
<1>1. CASE UNCHANGED vars
  BY <1>1 DEF Reconciled
<1>2. ASSUME NEW h \in Handlers, NEW l \in Leases, InitializeReadLease(h, l)
      PROVE  Reconciled'
  BY <1>2 DEF InitializeReadLease, Goto
<1>3. ASSUME NEW h \in Handlers, InitializeReadApplication(h)
      PROVE  Reconciled'
  BY <1>3 DEF InitializeReadApplication, Goto, Finish
<1>4. ASSUME NEW h \in Handlers, InitializeReadOpen(h)
      PROVE  Reconciled'
  BY <1>4 DEF InitializeReadOpen, Goto, Finish
<1>5. ASSUME NEW h \in Handlers, InitializeCreate(h)
      PROVE  Reconciled'
  BY <1>5 DEF InitializeCreate, Goto, DatabaseTypes, OpenStatuses
<1>6. ASSUME NEW h \in Handlers, InitializeCheckout(h)
      PROVE  Reconciled'
  BY <1>6 DEF InitializeCheckout, Goto, Finish
<1>7. ASSUME NEW h \in Handlers, InitializeUndo(h)
      PROVE  Reconciled'
  BY <1>7 DEF InitializeUndo, Goto, Finish
<1>8. ASSUME NEW h \in Handlers, NEW r \in Refs, WebhookStart(h, r)
      PROVE  Reconciled'
  BY <1>8 DEF WebhookStart, Goto, TargetOf, Reported
<1>9. ASSUME NEW r \in Refs, WebhookUnknown(r)
      PROVE  Reconciled'
  BY <1>9 DEF WebhookUnknown
<1>10. ASSUME NEW h \in Handlers, WebhookAck(h)
       PROVE  Reconciled'
  BY <1>10 DEF WebhookAck, Goto, Finish
<1>11. ASSUME NEW h \in Handlers, NEW r \in Refs, VerifyStart(h, r)
       PROVE  Reconciled'
  BY <1>11 DEF VerifyStart, Goto
<1>12. ASSUME NEW h \in Handlers, VerifyAsk(h)
       PROVE  Reconciled'
  <2>1. CASE Finish(h)
    BY <1>12, <2>1 DEF VerifyAsk, Finish, Goto
  <2>2. CASE Goto(h, "fail") /\ UNCHANGED localVars
    BY <1>12, <2>2 DEF VerifyAsk, Goto
  <2>3. CASE /\ charge[cur[h]] > 0
             /\ Goto(h, "lease")
             /\ amt' = [amt EXCEPT ![h] = charge[cur[h]]]
             /\ UNCHANGED <<kind, cur, evt, lease, first, path>>
    BY <1>12, <2>3 DEF VerifyAsk, Goto
  <2>4. QED
    BY <1>12, <2>1, <2>2, <2>3 DEF VerifyAsk, GatewayAnswers, HostedAnswers, Reported
<1>13. ASSUME NEW h \in Handlers, ReadLease(h)
       PROVE  Reconciled'
  <2> DEFINE l == leaseOf[cur[h]]
  <2>1. /\ cur[h] \in Refs /\ l \in Leases /\ Rent[l] \in Nat
        /\ amt[h] = charge[cur[h]] /\ charge[cur[h]] \in Nat /\ amt[h] > 0
    BY <1>13, ConstantsAssumption DEF ReadLease
  <2>2. CASE Short(amt[h], l)
    BY <1>13, <2>1, <2>2 DEF ReadLease, Goto, NoAmount
  <2>3. CASE ~Short(amt[h], l)
    <3>1. Paid(cur[h], l)
      BY <2>1, <2>3 DEF Short
    <3>2. pc' = [pc EXCEPT ![h] = IF active[l] THEN "gate" ELSE "document"]
      BY <1>13, <2>1, <2>3 DEF ReadLease, Goto, NoAmount
    <3>3. amt' \in [Handlers -> Nat \cup {NoAmount}] /\ \A g \in Handlers \ {h} : amt'[g] = amt[g]
      BY <1>13, <2>1, <2>3, AmountToSettleType DEF ReadLease, NoAmount
    <3>4. UNCHANGED <<charge, leaseOf, cur>>
      BY <1>13 DEF ReadLease
    <3>5. pc'[h] # "lease" /\ \A g \in Handlers \ {h} : pc'[g] = pc[g]
      BY <3>2
    <3>6. QED
      BY <3>1, <3>3, <3>4, <3>5
  <2>4. QED
    BY <2>2, <2>3
<1>14. ASSUME NEW h \in Handlers, MarkFailed(h)
       PROVE  Reconciled'
  BY <1>14 DEF MarkFailed, Goto, Finish, Answer
<1>15. ASSUME NEW h \in Handlers, GenerateDocument(h)
       PROVE  Reconciled'
  BY <1>15 DEF GenerateDocument, Goto
<1>16. ASSUME NEW h \in Handlers, RpcGate(h)
       PROVE  Reconciled'
  BY <1>16 DEF RpcGate, Goto, Finish, Answer
<1>17. ASSUME NEW h \in Handlers, RpcCommit(h)
       PROVE  Reconciled'
  BY <1>17 DEF RpcCommit, Goto, Finish, Answer, Settle
<1>18. ASSUME NEW r \in Refs, NEW p \in SplitPercents, Split(r, p)
       PROVE  Reconciled'
  BY <1>18 DEF Split
<1>19. ASSUME NEW h \in Handlers, Die(h)
       PROVE  Reconciled'
  BY <1>19 DEF Die, Goto, Finish
<1>20. ASSUME NEW r \in Refs, NEW a \in Amounts, CustomerPays(r, a)
       PROVE  Reconciled'
  BY <1>20 DEF CustomerPays
<1>21. QED
  BY <1>1, <1>2, <1>3, <1>4, <1>5, <1>6, <1>7, <1>8, <1>9, <1>10,
     <1>11, <1>12, <1>13, <1>14, <1>15, <1>16, <1>17, <1>18, <1>19,
     <1>20
     DEF Next, HandlerStep

(* Only a reconciled request adds a debit.                                 *)
LEMMA DebitIsChargedStep ==
  ASSUME TypeOK, Issued, Reconciled, DebitIsCharged, [Next]_vars PROVE DebitIsCharged'
<1> USE DEF DebitIsCharged, Paid, TypeOK, DatabaseTypes, GatewayTypes, Issued,
            Rows
<1>1. CASE UNCHANGED vars
  BY <1>1 DEF DebitIsCharged
<1>2. ASSUME NEW h \in Handlers, NEW l \in Leases, InitializeReadLease(h, l)
      PROVE  DebitIsCharged'
  BY <1>2 DEF InitializeReadLease
<1>3. ASSUME NEW h \in Handlers, InitializeReadApplication(h)
      PROVE  DebitIsCharged'
  BY <1>3 DEF InitializeReadApplication
<1>4. ASSUME NEW h \in Handlers, InitializeReadOpen(h)
      PROVE  DebitIsCharged'
  BY <1>4 DEF InitializeReadOpen
<1>5. ASSUME NEW h \in Handlers, InitializeCreate(h)
      PROVE  DebitIsCharged'
  BY <1>5 DEF InitializeCreate
<1>6. ASSUME NEW h \in Handlers, InitializeCheckout(h)
      PROVE  DebitIsCharged'
  BY <1>6 DEF InitializeCheckout
<1>7. ASSUME NEW h \in Handlers, InitializeUndo(h)
      PROVE  DebitIsCharged'
  BY <1>7 DEF InitializeUndo
<1>8. ASSUME NEW h \in Handlers, NEW r \in Refs, WebhookStart(h, r)
      PROVE  DebitIsCharged'
  BY <1>8 DEF WebhookStart
<1>9. ASSUME NEW r \in Refs, WebhookUnknown(r)
      PROVE  DebitIsCharged'
  BY <1>9 DEF WebhookUnknown
<1>10. ASSUME NEW h \in Handlers, WebhookAck(h)
       PROVE  DebitIsCharged'
  BY <1>10 DEF WebhookAck
<1>11. ASSUME NEW h \in Handlers, NEW r \in Refs, VerifyStart(h, r)
       PROVE  DebitIsCharged'
  BY <1>11 DEF VerifyStart
<1>12. ASSUME NEW h \in Handlers, VerifyAsk(h)
       PROVE  DebitIsCharged'
  BY <1>12 DEF VerifyAsk
<1>13. ASSUME NEW h \in Handlers, ReadLease(h)
       PROVE  DebitIsCharged'
  BY <1>13 DEF ReadLease
<1>14. ASSUME NEW h \in Handlers, MarkFailed(h)
       PROVE  DebitIsCharged'
  BY <1>14 DEF MarkFailed
<1>15. ASSUME NEW h \in Handlers, GenerateDocument(h)
       PROVE  DebitIsCharged'
  BY <1>15 DEF GenerateDocument
<1>16. ASSUME NEW h \in Handlers, RpcGate(h)
       PROVE  DebitIsCharged'
  BY <1>16 DEF RpcGate
<1>17. ASSUME NEW h \in Handlers, RpcCommit(h)
       PROVE  DebitIsCharged'
  BY <1>17 DEF RpcCommit, Settle, Reconciled, Hands, Holding, RequestTypes
<1>18. ASSUME NEW r \in Refs, NEW p \in SplitPercents, Split(r, p)
       PROVE  DebitIsCharged'
  BY <1>18 DEF Split
<1>19. ASSUME NEW h \in Handlers, Die(h)
       PROVE  DebitIsCharged'
  BY <1>19 DEF Die
<1>20. ASSUME NEW r \in Refs, NEW a \in Amounts, CustomerPays(r, a)
       PROVE  DebitIsCharged'
  BY <1>20 DEF CustomerPays
<1>21. QED
  BY <1>1, <1>2, <1>3, <1>4, <1>5, <1>6, <1>7, <1>8, <1>9, <1>10,
     <1>11, <1>12, <1>13, <1>14, <1>15, <1>16, <1>17, <1>18, <1>19,
     <1>20
     DEF Next, HandlerStep

(* A request that skips activation has seen the lease active, and nothing  *)
(* deactivates a lease.                                                    *)
LEMMA LaterPaymentStep ==
  ASSUME TypeOK, Issued, LaterPayment, [Next]_vars PROVE LaterPayment'
<1> USE DEF LaterPayment, TypeOK, DatabaseTypes, RequestTypes, Issued, Rows,
            Hands, Holding
<1>1. CASE UNCHANGED vars
  BY <1>1 DEF LaterPayment
<1>2. ASSUME NEW h \in Handlers, NEW l \in Leases, InitializeReadLease(h, l)
      PROVE  LaterPayment'
  BY <1>2 DEF InitializeReadLease, Goto
<1>3. ASSUME NEW h \in Handlers, InitializeReadApplication(h)
      PROVE  LaterPayment'
  BY <1>3 DEF InitializeReadApplication, Goto, Finish
<1>4. ASSUME NEW h \in Handlers, InitializeReadOpen(h)
      PROVE  LaterPayment'
  BY <1>4 DEF InitializeReadOpen, Goto, Finish
<1>5. ASSUME NEW h \in Handlers, InitializeCreate(h)
      PROVE  LaterPayment'
  BY <1>5 DEF InitializeCreate, Goto, OpenStatuses
<1>6. ASSUME NEW h \in Handlers, InitializeCheckout(h)
      PROVE  LaterPayment'
  BY <1>6 DEF InitializeCheckout, Goto, Finish
<1>7. ASSUME NEW h \in Handlers, InitializeUndo(h)
      PROVE  LaterPayment'
  BY <1>7 DEF InitializeUndo, Goto, Finish
<1>8. ASSUME NEW h \in Handlers, NEW r \in Refs, WebhookStart(h, r)
      PROVE  LaterPayment'
  BY <1>8 DEF WebhookStart, Goto
<1>9. ASSUME NEW r \in Refs, WebhookUnknown(r)
      PROVE  LaterPayment'
  BY <1>9 DEF WebhookUnknown
<1>10. ASSUME NEW h \in Handlers, WebhookAck(h)
       PROVE  LaterPayment'
  BY <1>10 DEF WebhookAck, Goto, Finish
<1>11. ASSUME NEW h \in Handlers, NEW r \in Refs, VerifyStart(h, r)
       PROVE  LaterPayment'
  BY <1>11 DEF VerifyStart, Goto
<1>12. ASSUME NEW h \in Handlers, VerifyAsk(h)
       PROVE  LaterPayment'
  BY <1>12 DEF VerifyAsk, Goto, Finish
<1>13. ASSUME NEW h \in Handlers, ReadLease(h)
       PROVE  LaterPayment'
  <2>1. CASE Goto(h, "fail") /\ UNCHANGED first
    BY <1>13, <2>1 DEF ReadLease, Goto
  <2>2. CASE first' = [first EXCEPT ![h] = ~active[leaseOf[cur[h]]]]
    <3>1. first'[h] = ~active[leaseOf[cur[h]]]
      BY <2>2
    <3>2. \A g \in Handlers \ {h} : first'[g] = first[g] /\ pc'[g] = pc[g]
      BY <1>13, <2>2 DEF ReadLease, Goto
    <3>3. UNCHANGED <<cur, leaseOf, active>>
      BY <1>13 DEF ReadLease
    <3>4. ASSUME NEW g \in Handlers, pc'[g] \in {"document", "gate", "commit"}, ~first'[g]
          PROVE  active'[leaseOf'[cur'[g]]]
      <4>1. CASE g = h
        BY <3>1, <3>3, <3>4, <4>1
      <4>2. CASE g # h
        BY <3>2, <3>3, <3>4, <4>2
      <4>3. QED
        BY <4>1, <4>2
    <3>5. QED
      BY <3>4
  <2>3. QED
    BY <1>13, <2>1, <2>2 DEF ReadLease
<1>14. ASSUME NEW h \in Handlers, MarkFailed(h)
       PROVE  LaterPayment'
  BY <1>14 DEF MarkFailed, Goto, Finish, Answer
<1>15. ASSUME NEW h \in Handlers, GenerateDocument(h)
       PROVE  LaterPayment'
  BY <1>15 DEF GenerateDocument, Goto
<1>16. ASSUME NEW h \in Handlers, RpcGate(h)
       PROVE  LaterPayment'
  BY <1>16 DEF RpcGate, Goto, Finish, Answer
<1>17. ASSUME NEW h \in Handlers, RpcCommit(h)
       PROVE  LaterPayment'
  <2>1. pc'[h] \in {"ack", "idle"} /\ UNCHANGED leaseOf
    BY <1>17 DEF RpcCommit, Answer, Finish, Goto
  <2>2. \A g \in Handlers \ {h} : pc'[g] = pc[g] /\ cur'[g] = cur[g] /\ first'[g] = first[g]
    BY <1>17 DEF RpcCommit, Answer, Finish, Goto
  <2>3. \A l \in Leases : active[l] => active'[l]
    BY <1>17 DEF RpcCommit, Activate
  <2>4. QED
    BY <2>1, <2>2, <2>3
<1>18. ASSUME NEW r \in Refs, NEW p \in SplitPercents, Split(r, p)
       PROVE  LaterPayment'
  BY <1>18 DEF Split
<1>19. ASSUME NEW h \in Handlers, Die(h)
       PROVE  LaterPayment'
  BY <1>19 DEF Die, Goto, Finish
<1>20. ASSUME NEW r \in Refs, NEW a \in Amounts, CustomerPays(r, a)
       PROVE  LaterPayment'
  BY <1>20 DEF CustomerPays
<1>21. QED
  BY <1>1, <1>2, <1>3, <1>4, <1>5, <1>6, <1>7, <1>8, <1>9, <1>10,
     <1>11, <1>12, <1>13, <1>14, <1>15, <1>16, <1>17, <1>18, <1>19,
     <1>20
     DEF Next, HandlerStep

(* A lease becomes active in the step that debits one of its payments.     *)
LEMMA ActiveIsPaidStep ==
  ASSUME TypeOK, Issued, ActiveIsPaid, [Next]_vars PROVE ActiveIsPaid'
<1> USE DEF ActiveIsPaid, TypeOK, DatabaseTypes, Issued, Rows
<1>1. CASE UNCHANGED vars
  BY <1>1 DEF ActiveIsPaid
<1>2. ASSUME NEW h \in Handlers, NEW l \in Leases, InitializeReadLease(h, l)
      PROVE  ActiveIsPaid'
  BY <1>2 DEF InitializeReadLease
<1>3. ASSUME NEW h \in Handlers, InitializeReadApplication(h)
      PROVE  ActiveIsPaid'
  BY <1>3 DEF InitializeReadApplication
<1>4. ASSUME NEW h \in Handlers, InitializeReadOpen(h)
      PROVE  ActiveIsPaid'
  BY <1>4 DEF InitializeReadOpen
<1>5. ASSUME NEW h \in Handlers, InitializeCreate(h)
      PROVE  ActiveIsPaid'
  BY <1>5 DEF InitializeCreate
<1>6. ASSUME NEW h \in Handlers, InitializeCheckout(h)
      PROVE  ActiveIsPaid'
  BY <1>6 DEF InitializeCheckout
<1>7. ASSUME NEW h \in Handlers, InitializeUndo(h)
      PROVE  ActiveIsPaid'
  BY <1>7 DEF InitializeUndo
<1>8. ASSUME NEW h \in Handlers, NEW r \in Refs, WebhookStart(h, r)
      PROVE  ActiveIsPaid'
  BY <1>8 DEF WebhookStart
<1>9. ASSUME NEW r \in Refs, WebhookUnknown(r)
      PROVE  ActiveIsPaid'
  BY <1>9 DEF WebhookUnknown
<1>10. ASSUME NEW h \in Handlers, WebhookAck(h)
       PROVE  ActiveIsPaid'
  BY <1>10 DEF WebhookAck
<1>11. ASSUME NEW h \in Handlers, NEW r \in Refs, VerifyStart(h, r)
       PROVE  ActiveIsPaid'
  BY <1>11 DEF VerifyStart
<1>12. ASSUME NEW h \in Handlers, VerifyAsk(h)
       PROVE  ActiveIsPaid'
  BY <1>12 DEF VerifyAsk
<1>13. ASSUME NEW h \in Handlers, ReadLease(h)
       PROVE  ActiveIsPaid'
  BY <1>13 DEF ReadLease
<1>14. ASSUME NEW h \in Handlers, MarkFailed(h)
       PROVE  ActiveIsPaid'
  BY <1>14 DEF MarkFailed
<1>15. ASSUME NEW h \in Handlers, GenerateDocument(h)
       PROVE  ActiveIsPaid'
  BY <1>15 DEF GenerateDocument
<1>16. ASSUME NEW h \in Handlers, RpcGate(h)
       PROVE  ActiveIsPaid'
  BY <1>16 DEF RpcGate
<1>17. ASSUME NEW h \in Handlers, RpcCommit(h)
       PROVE  ActiveIsPaid'
  BY <1>17 DEF RpcCommit, Settle, Activate, Hands, Holding, RequestTypes
<1>18. ASSUME NEW r \in Refs, NEW p \in SplitPercents, Split(r, p)
       PROVE  ActiveIsPaid'
  BY <1>18 DEF Split
<1>19. ASSUME NEW h \in Handlers, Die(h)
       PROVE  ActiveIsPaid'
  BY <1>19 DEF Die
<1>20. ASSUME NEW r \in Refs, NEW a \in Amounts, CustomerPays(r, a)
       PROVE  ActiveIsPaid'
  BY <1>20 DEF CustomerPays
<1>21. QED
  BY <1>1, <1>2, <1>3, <1>4, <1>5, <1>6, <1>7, <1>8, <1>9, <1>10,
     <1>11, <1>12, <1>13, <1>14, <1>15, <1>16, <1>17, <1>18, <1>19,
     <1>20
     DEF Next, HandlerStep

(* Without splits, the rows process_payment_atomic writes for one payment balance.*)
LEMMA BalanceStep ==
  ASSUME TypeOK, Issued, LedgerBalances, SplitPercents = {}, [Next]_vars PROVE LedgerBalances'
<1> USE DEF LedgerBalances, TypeOK, DatabaseTypes
<1>1. CASE UNCHANGED vars
  BY <1>1 DEF LedgerBalances
<1>2. ASSUME NEW h \in Handlers, NEW l \in Leases, InitializeReadLease(h, l)
      PROVE  LedgerBalances'
  BY <1>2 DEF InitializeReadLease
<1>3. ASSUME NEW h \in Handlers, InitializeReadApplication(h)
      PROVE  LedgerBalances'
  BY <1>3 DEF InitializeReadApplication
<1>4. ASSUME NEW h \in Handlers, InitializeReadOpen(h)
      PROVE  LedgerBalances'
  BY <1>4 DEF InitializeReadOpen
<1>5. ASSUME NEW h \in Handlers, InitializeCreate(h)
      PROVE  LedgerBalances'
  BY <1>5 DEF InitializeCreate
<1>6. ASSUME NEW h \in Handlers, InitializeCheckout(h)
      PROVE  LedgerBalances'
  BY <1>6 DEF InitializeCheckout
<1>7. ASSUME NEW h \in Handlers, InitializeUndo(h)
      PROVE  LedgerBalances'
  BY <1>7 DEF InitializeUndo
<1>8. ASSUME NEW h \in Handlers, NEW r \in Refs, WebhookStart(h, r)
      PROVE  LedgerBalances'
  BY <1>8 DEF WebhookStart
<1>9. ASSUME NEW r \in Refs, WebhookUnknown(r)
      PROVE  LedgerBalances'
  BY <1>9 DEF WebhookUnknown
<1>10. ASSUME NEW h \in Handlers, WebhookAck(h)
       PROVE  LedgerBalances'
  BY <1>10 DEF WebhookAck
<1>11. ASSUME NEW h \in Handlers, NEW r \in Refs, VerifyStart(h, r)
       PROVE  LedgerBalances'
  BY <1>11 DEF VerifyStart
<1>12. ASSUME NEW h \in Handlers, VerifyAsk(h)
       PROVE  LedgerBalances'
  BY <1>12 DEF VerifyAsk
<1>13. ASSUME NEW h \in Handlers, ReadLease(h)
       PROVE  LedgerBalances'
  BY <1>13 DEF ReadLease
<1>14. ASSUME NEW h \in Handlers, MarkFailed(h)
       PROVE  LedgerBalances'
  BY <1>14 DEF MarkFailed
<1>15. ASSUME NEW h \in Handlers, GenerateDocument(h)
       PROVE  LedgerBalances'
  BY <1>15 DEF GenerateDocument
<1>16. ASSUME NEW h \in Handlers, RpcGate(h)
       PROVE  LedgerBalances'
  BY <1>16 DEF RpcGate
<1>17. ASSUME NEW h \in Handlers, RpcCommit(h)
       PROVE  LedgerBalances'
  <2>1. cur[h] \in Refs /\ amt[h] \in Int
    BY <1>17 DEF RpcCommit, Issued, Hands, Holding, RequestTypes, NoAmount
  <2>2. FeeOf(amt[h]) \in Int
    BY <2>1, ConstantsAssumption DEF FeeOf
  <2>3. /\ debit' = [debit EXCEPT ![cur[h]] = @ + amt[h]]
        /\ credit' = [credit EXCEPT ![cur[h]] = @ + (amt[h] - FeeOf(amt[h]))]
        /\ fee' = [fee EXCEPT ![cur[h]] = @ + FeeOf(amt[h])]
    BY <1>17 DEF RpcCommit, Settle
  <2>4. QED
    BY <2>1, <2>2, <2>3
<1>18. ASSUME NEW r \in Refs, NEW p \in SplitPercents, Split(r, p)
       PROVE  LedgerBalances'
  BY <1>18 DEF Split
<1>19. ASSUME NEW h \in Handlers, Die(h)
       PROVE  LedgerBalances'
  BY <1>19 DEF Die
<1>20. ASSUME NEW r \in Refs, NEW a \in Amounts, CustomerPays(r, a)
       PROVE  LedgerBalances'
  BY <1>20 DEF CustomerPays
<1>21. QED
  BY <1>1, <1>2, <1>3, <1>4, <1>5, <1>6, <1>7, <1>8, <1>9, <1>10,
     <1>11, <1>12, <1>13, <1>14, <1>15, <1>16, <1>17, <1>18, <1>19,
     <1>20
     DEF Next, HandlerStep

(* Served one at a time, no two requests hold one transaction.             *)
LEMMA DisjointStep ==
  ASSUME TypeOK, Issued, Disjoint, ~Overlap, [Next]_vars PROVE Disjoint'
<1> USE DEF Disjoint, TypeOK, RequestTypes
<1>1. CASE UNCHANGED vars
  BY <1>1 DEF Disjoint
<1>2. ASSUME NEW h \in Handlers, NEW l \in Leases, InitializeReadLease(h, l)
      PROVE  Disjoint'
  BY <1>2 DEF InitializeReadLease, Goto
<1>3. ASSUME NEW h \in Handlers, InitializeReadApplication(h)
      PROVE  Disjoint'
  BY <1>3 DEF InitializeReadApplication, Goto, Finish
<1>4. ASSUME NEW h \in Handlers, InitializeReadOpen(h)
      PROVE  Disjoint'
  BY <1>4 DEF InitializeReadOpen, Goto, Finish
<1>5. ASSUME NEW h \in Handlers, InitializeCreate(h)
      PROVE  Disjoint'
  <2>1. PICK r \in Refs : status[r] = "none" /\ cur' = [cur EXCEPT ![h] = r]
    BY <1>5 DEF InitializeCreate
  <2>2. \A g \in Handlers : cur[g] # r
    BY <2>1 DEF Issued, Hands, Refs, NoRef
  <2>3. QED
    BY <2>1, <2>2
<1>6. ASSUME NEW h \in Handlers, InitializeCheckout(h)
      PROVE  Disjoint'
  BY <1>6 DEF InitializeCheckout, Goto, Finish
<1>7. ASSUME NEW h \in Handlers, InitializeUndo(h)
      PROVE  Disjoint'
  BY <1>7 DEF InitializeUndo, Goto, Finish
<1>8. ASSUME NEW h \in Handlers, NEW r \in Refs, WebhookStart(h, r)
      PROVE  Disjoint'
  <2>1. PICK t \in Refs : MayWorkOn(t) /\ cur' = [cur EXCEPT ![h] = t]
    BY <1>8 DEF WebhookStart, TargetOf, NewestOpen, OpenOf
  <2>2. QED
    BY <2>1 DEF MayWorkOn
<1>9. ASSUME NEW r \in Refs, WebhookUnknown(r)
      PROVE  Disjoint'
  BY <1>9 DEF WebhookUnknown
<1>10. ASSUME NEW h \in Handlers, WebhookAck(h)
       PROVE  Disjoint'
  BY <1>10 DEF WebhookAck, Goto, Finish
<1>11. ASSUME NEW h \in Handlers, NEW r \in Refs, VerifyStart(h, r)
       PROVE  Disjoint'
  BY <1>11 DEF VerifyStart, MayWorkOn
<1>12. ASSUME NEW h \in Handlers, VerifyAsk(h)
       PROVE  Disjoint'
  BY <1>12 DEF VerifyAsk, Goto, Finish
<1>13. ASSUME NEW h \in Handlers, ReadLease(h)
       PROVE  Disjoint'
  BY <1>13 DEF ReadLease, Goto
<1>14. ASSUME NEW h \in Handlers, MarkFailed(h)
       PROVE  Disjoint'
  BY <1>14 DEF MarkFailed, Goto, Finish, Answer
<1>15. ASSUME NEW h \in Handlers, GenerateDocument(h)
       PROVE  Disjoint'
  BY <1>15 DEF GenerateDocument, Goto
<1>16. ASSUME NEW h \in Handlers, RpcGate(h)
       PROVE  Disjoint'
  BY <1>16 DEF RpcGate, Goto, Finish, Answer
<1>17. ASSUME NEW h \in Handlers, RpcCommit(h)
       PROVE  Disjoint'
  BY <1>17 DEF RpcCommit, Goto, Finish, Answer
<1>18. ASSUME NEW r \in Refs, NEW p \in SplitPercents, Split(r, p)
       PROVE  Disjoint'
  BY <1>18 DEF Split
<1>19. ASSUME NEW h \in Handlers, Die(h)
       PROVE  Disjoint'
  BY <1>19 DEF Die, Goto, Finish
<1>20. ASSUME NEW r \in Refs, NEW a \in Amounts, CustomerPays(r, a)
       PROVE  Disjoint'
  BY <1>20 DEF CustomerPays
<1>21. QED
  BY <1>1, <1>2, <1>3, <1>4, <1>5, <1>6, <1>7, <1>8, <1>9, <1>10,
     <1>11, <1>12, <1>13, <1>14, <1>15, <1>16, <1>17, <1>18, <1>19,
     <1>20
     DEF Next, HandlerStep

(* What is debited is settled, and stays so while requests exclude each other.*)
LEMMA DebitedIsSettledStep ==
  ASSUME TypeOK, Issued, Exclusive, [Next]_vars PROVE DebitedIsSettled'
<1> USE DEF DebitedIsSettled, Exclusive, TypeOK, DatabaseTypes, RequestTypes
<1>1. CASE UNCHANGED vars
  BY <1>1 DEF DebitedIsSettled
<1>2. ASSUME NEW h \in Handlers, NEW l \in Leases, InitializeReadLease(h, l)
      PROVE  DebitedIsSettled'
  BY <1>2 DEF InitializeReadLease
<1>3. ASSUME NEW h \in Handlers, InitializeReadApplication(h)
      PROVE  DebitedIsSettled'
  BY <1>3 DEF InitializeReadApplication
<1>4. ASSUME NEW h \in Handlers, InitializeReadOpen(h)
      PROVE  DebitedIsSettled'
  BY <1>4 DEF InitializeReadOpen
<1>5. ASSUME NEW h \in Handlers, InitializeCreate(h)
      PROVE  DebitedIsSettled'
  BY <1>5 DEF InitializeCreate, SettledStatuses
<1>6. ASSUME NEW h \in Handlers, InitializeCheckout(h)
      PROVE  DebitedIsSettled'
  BY <1>6 DEF InitializeCheckout
<1>7. ASSUME NEW h \in Handlers, InitializeUndo(h)
      PROVE  DebitedIsSettled'
  BY <1>7 DEF InitializeUndo, Unsettled, Holding, Issued, Hands
<1>8. ASSUME NEW h \in Handlers, NEW r \in Refs, WebhookStart(h, r)
      PROVE  DebitedIsSettled'
  BY <1>8 DEF WebhookStart
<1>9. ASSUME NEW r \in Refs, WebhookUnknown(r)
      PROVE  DebitedIsSettled'
  BY <1>9 DEF WebhookUnknown
<1>10. ASSUME NEW h \in Handlers, WebhookAck(h)
       PROVE  DebitedIsSettled'
  BY <1>10 DEF WebhookAck
<1>11. ASSUME NEW h \in Handlers, NEW r \in Refs, VerifyStart(h, r)
       PROVE  DebitedIsSettled'
  BY <1>11 DEF VerifyStart
<1>12. ASSUME NEW h \in Handlers, VerifyAsk(h)
       PROVE  DebitedIsSettled'
  BY <1>12 DEF VerifyAsk
<1>13. ASSUME NEW h \in Handlers, ReadLease(h)
       PROVE  DebitedIsSettled'
  BY <1>13 DEF ReadLease
<1>14. ASSUME NEW h \in Handlers, MarkFailed(h)
       PROVE  DebitedIsSettled'
  BY <1>14 DEF MarkFailed, Unsettled, Holding, Issued, Hands
<1>15. ASSUME NEW h \in Handlers, GenerateDocument(h)
       PROVE  DebitedIsSettled'
  BY <1>15 DEF GenerateDocument
<1>16. ASSUME NEW h \in Handlers, RpcGate(h)
       PROVE  DebitedIsSettled'
  BY <1>16 DEF RpcGate
<1>17. ASSUME NEW h \in Handlers, RpcCommit(h)
       PROVE  DebitedIsSettled'
  BY <1>17 DEF RpcCommit, Settle, SettledStatuses
<1>18. ASSUME NEW r \in Refs, NEW p \in SplitPercents, Split(r, p)
       PROVE  DebitedIsSettled'
  BY <1>18 DEF Split, SettledStatuses
<1>19. ASSUME NEW h \in Handlers, Die(h)
       PROVE  DebitedIsSettled'
  BY <1>19 DEF Die
<1>20. ASSUME NEW r \in Refs, NEW a \in Amounts, CustomerPays(r, a)
       PROVE  DebitedIsSettled'
  BY <1>20 DEF CustomerPays
<1>21. QED
  BY <1>1, <1>2, <1>3, <1>4, <1>5, <1>6, <1>7, <1>8, <1>9, <1>10,
     <1>11, <1>12, <1>13, <1>14, <1>15, <1>16, <1>17, <1>18, <1>19,
     <1>20
     DEF Next, HandlerStep

(* A request takes up what is not debited, and no other debits it.         *)
LEMMA UnsettledStep ==
  ASSUME TypeOK, Issued, Exclusive, [Next]_vars PROVE Unsettled'
<1> USE DEF Unsettled, Exclusive, Holding, TypeOK, RequestTypes
<1>1. CASE UNCHANGED vars
  BY <1>1 DEF Unsettled
<1>2. ASSUME NEW h \in Handlers, NEW l \in Leases, InitializeReadLease(h, l)
      PROVE  Unsettled'
  BY <1>2 DEF InitializeReadLease, Goto
<1>3. ASSUME NEW h \in Handlers, InitializeReadApplication(h)
      PROVE  Unsettled'
  BY <1>3 DEF InitializeReadApplication, Goto, Finish
<1>4. ASSUME NEW h \in Handlers, InitializeReadOpen(h)
      PROVE  Unsettled'
  BY <1>4 DEF InitializeReadOpen, Goto, Finish
<1>5. ASSUME NEW h \in Handlers, InitializeCreate(h)
      PROVE  Unsettled'
  <2>1. PICK r \in Refs : status[r] = "none" /\ cur' = [cur EXCEPT ![h] = r]
    BY <1>5 DEF InitializeCreate
  <2>2. debits[r] = 0
    BY <2>1 DEF Issued, Rows
  <2>3. QED
    BY <1>5, <2>1, <2>2 DEF InitializeCreate, Goto
<1>6. ASSUME NEW h \in Handlers, InitializeCheckout(h)
      PROVE  Unsettled'
  BY <1>6 DEF InitializeCheckout, Goto, Finish
<1>7. ASSUME NEW h \in Handlers, InitializeUndo(h)
      PROVE  Unsettled'
  BY <1>7 DEF InitializeUndo, Goto, Finish
<1>8. ASSUME NEW h \in Handlers, NEW r \in Refs, WebhookStart(h, r)
      PROVE  Unsettled'
  <2>1. PICK t \in Refs :
          /\ Goto(h, IF Coerce(status[t]) = "succeeded" THEN "ack" ELSE "lease")
          /\ cur' = [cur EXCEPT ![h] = t]
    BY <1>8 DEF WebhookStart, TargetOf, NewestOpen, OpenOf
  <2>2. pc'[h] = "ack" \/ (pc'[h] = "lease" /\ debits[t] = 0)
    BY <2>1 DEF Goto, Coerce, DebitedIsSettled, SettledStatuses, DatabaseTypes
  <2>3. UNCHANGED debits /\ \A g \in Handlers \ {h} : pc'[g] = pc[g] /\ cur'[g] = cur[g]
    BY <1>8, <2>1 DEF WebhookStart, Goto
  <2>4. QED
    BY <2>1, <2>2, <2>3
<1>9. ASSUME NEW r \in Refs, WebhookUnknown(r)
      PROVE  Unsettled'
  BY <1>9 DEF WebhookUnknown
<1>10. ASSUME NEW h \in Handlers, WebhookAck(h)
       PROVE  Unsettled'
  BY <1>10 DEF WebhookAck, Goto, Finish
<1>11. ASSUME NEW h \in Handlers, NEW r \in Refs, VerifyStart(h, r)
       PROVE  Unsettled'
  <2>1. debits[r] = 0
        BY <1>11 DEF VerifyStart, OpenStatuses, DebitedIsSettled,
       SettledStatuses, DatabaseTypes
  <2>2. QED
    BY <1>11, <2>1 DEF VerifyStart, Goto
<1>12. ASSUME NEW h \in Handlers, VerifyAsk(h)
       PROVE  Unsettled'
  BY <1>12 DEF VerifyAsk, Goto, Finish
<1>13. ASSUME NEW h \in Handlers, ReadLease(h)
       PROVE  Unsettled'
  BY <1>13 DEF ReadLease, Goto
<1>14. ASSUME NEW h \in Handlers, MarkFailed(h)
       PROVE  Unsettled'
  BY <1>14 DEF MarkFailed, Goto, Finish, Answer
<1>15. ASSUME NEW h \in Handlers, GenerateDocument(h)
       PROVE  Unsettled'
  BY <1>15 DEF GenerateDocument, Goto
<1>16. ASSUME NEW h \in Handlers, RpcGate(h)
       PROVE  Unsettled'
  BY <1>16 DEF RpcGate, Goto, Finish, Answer
<1>17. ASSUME NEW h \in Handlers, RpcCommit(h)
       PROVE  Unsettled'
  <2>1. \A g \in Handlers \ {h} : cur[g] # cur[h] /\ pc'[g] = pc[g] /\ cur'[g] = cur[g]
    BY <1>17 DEF RpcCommit, Answer, Finish, Goto, Disjoint, Issued, Hands
  <2>2. pc'[h] \in {"ack", "idle"}
    BY <1>17 DEF RpcCommit, Answer, Finish, Goto
  <2>3. \A r \in Refs : r # cur[h] => debits'[r] = debits[r]
    BY <1>17 DEF RpcCommit, Settle, DatabaseTypes
  <2>4. QED
    BY <2>1, <2>2, <2>3 DEF Issued, Hands
<1>18. ASSUME NEW r \in Refs, NEW p \in SplitPercents, Split(r, p)
       PROVE  Unsettled'
  BY <1>18 DEF Split
<1>19. ASSUME NEW h \in Handlers, Die(h)
       PROVE  Unsettled'
  BY <1>19 DEF Die, Goto, Finish
<1>20. ASSUME NEW r \in Refs, NEW a \in Amounts, CustomerPays(r, a)
       PROVE  Unsettled'
  BY <1>20 DEF CustomerPays
<1>21. QED
  BY <1>1, <1>2, <1>3, <1>4, <1>5, <1>6, <1>7, <1>8, <1>9, <1>10,
     <1>11, <1>12, <1>13, <1>14, <1>15, <1>16, <1>17, <1>18, <1>19,
     <1>20
     DEF Next, HandlerStep

(* Without splits a payment is settled by the step that leaves its lease   *)
(* active.                                                                 *)
LEMMA SettledIsActiveStep ==
  ASSUME TypeOK, Issued, LaterPayment, SettledIsActive, SplitPercents = {}, [Next]_vars PROVE SettledIsActive'
<1> USE DEF SettledIsActive, SettledStatuses, TypeOK, DatabaseTypes,
            RequestTypes, Issued, Rows
<1>1. CASE UNCHANGED vars
  BY <1>1 DEF SettledIsActive
<1>2. ASSUME NEW h \in Handlers, NEW l \in Leases, InitializeReadLease(h, l)
      PROVE  SettledIsActive'
  BY <1>2 DEF InitializeReadLease
<1>3. ASSUME NEW h \in Handlers, InitializeReadApplication(h)
      PROVE  SettledIsActive'
  BY <1>3 DEF InitializeReadApplication
<1>4. ASSUME NEW h \in Handlers, InitializeReadOpen(h)
      PROVE  SettledIsActive'
  BY <1>4 DEF InitializeReadOpen
<1>5. ASSUME NEW h \in Handlers, InitializeCreate(h)
      PROVE  SettledIsActive'
  BY <1>5 DEF InitializeCreate
<1>6. ASSUME NEW h \in Handlers, InitializeCheckout(h)
      PROVE  SettledIsActive'
  BY <1>6 DEF InitializeCheckout
<1>7. ASSUME NEW h \in Handlers, InitializeUndo(h)
      PROVE  SettledIsActive'
  BY <1>7 DEF InitializeUndo, Hands, Holding
<1>8. ASSUME NEW h \in Handlers, NEW r \in Refs, WebhookStart(h, r)
      PROVE  SettledIsActive'
  BY <1>8 DEF WebhookStart
<1>9. ASSUME NEW r \in Refs, WebhookUnknown(r)
      PROVE  SettledIsActive'
  BY <1>9 DEF WebhookUnknown
<1>10. ASSUME NEW h \in Handlers, WebhookAck(h)
       PROVE  SettledIsActive'
  BY <1>10 DEF WebhookAck
<1>11. ASSUME NEW h \in Handlers, NEW r \in Refs, VerifyStart(h, r)
       PROVE  SettledIsActive'
  BY <1>11 DEF VerifyStart
<1>12. ASSUME NEW h \in Handlers, VerifyAsk(h)
       PROVE  SettledIsActive'
  BY <1>12 DEF VerifyAsk
<1>13. ASSUME NEW h \in Handlers, ReadLease(h)
       PROVE  SettledIsActive'
  BY <1>13 DEF ReadLease
<1>14. ASSUME NEW h \in Handlers, MarkFailed(h)
       PROVE  SettledIsActive'
  BY <1>14 DEF MarkFailed, Hands, Holding
<1>15. ASSUME NEW h \in Handlers, GenerateDocument(h)
       PROVE  SettledIsActive'
  BY <1>15 DEF GenerateDocument
<1>16. ASSUME NEW h \in Handlers, RpcGate(h)
       PROVE  SettledIsActive'
  BY <1>16 DEF RpcGate
<1>17. ASSUME NEW h \in Handlers, RpcCommit(h)
       PROVE  SettledIsActive'
  <2>1. cur[h] \in Refs /\ leaseOf[cur[h]] \in Leases
    BY <1>17 DEF RpcCommit, Hands, Holding
  <2>2. \A l \in Leases : active[l] => active'[l]
    BY <1>17 DEF RpcCommit, Activate
  <2>3. active'[leaseOf[cur[h]]]
    BY <1>17, <2>1 DEF RpcCommit, Activate, LaterPayment
  <2>4. UNCHANGED leaseOf /\ status' = [status EXCEPT ![cur[h]] = "succeeded"]
    BY <1>17 DEF RpcCommit, Settle
  <2>5. QED
    BY <2>1, <2>2, <2>3, <2>4
<1>18. ASSUME NEW r \in Refs, NEW p \in SplitPercents, Split(r, p)
       PROVE  SettledIsActive'
  BY <1>18 DEF Split
<1>19. ASSUME NEW h \in Handlers, Die(h)
       PROVE  SettledIsActive'
  BY <1>19 DEF Die
<1>20. ASSUME NEW r \in Refs, NEW a \in Amounts, CustomerPays(r, a)
       PROVE  SettledIsActive'
  BY <1>20, SMTT(60) DEF CustomerPays
<1>21. QED
  BY <1>1, <1>2, <1>3, <1>4, <1>5, <1>6, <1>7, <1>8, <1>9, <1>10,
     <1>11, <1>12, <1>13, <1>14, <1>15, <1>16, <1>17, <1>18, <1>19,
     <1>20
     DEF Next, HandlerStep

(* A webhook is about to acknowledge a charge that did not cover the rent, *)
(* or one whose lease is active.                                           *)
LEMMA AcknowledgingStep ==
  ASSUME TypeOK, Issued, Reconciled, LaterPayment, SettledIsActive, Acknowledging,
         ReportsAmount, NamesReference, [Next]_vars PROVE Acknowledging'
<1> USE DEF Acknowledging, Paid, TypeOK, DatabaseTypes, GatewayTypes,
            RequestTypes, Issued, Rows, Hands, Holding
<1>1. CASE UNCHANGED vars
  BY <1>1 DEF Acknowledging
<1>2. ASSUME NEW h \in Handlers, NEW l \in Leases, InitializeReadLease(h, l)
      PROVE  Acknowledging'
  BY <1>2 DEF InitializeReadLease, Goto
<1>3. ASSUME NEW h \in Handlers, InitializeReadApplication(h)
      PROVE  Acknowledging'
  BY <1>3 DEF InitializeReadApplication, Goto, Finish
<1>4. ASSUME NEW h \in Handlers, InitializeReadOpen(h)
      PROVE  Acknowledging'
  <2>1. kind[h] # "webhook" /\ pc[h] = "open" /\ UNCHANGED <<charge, leaseOf, active>>
    BY <1>4 DEF InitializeReadOpen
  <2>2. CASE Finish(h)
    BY <2>1, <2>2 DEF Finish, Goto
  <2>3. CASE Goto(h, "create") /\ UNCHANGED localVars
    BY <2>1, <2>3 DEF Goto
  <2>4. QED
    BY <1>4, <2>2, <2>3 DEF InitializeReadOpen
<1>5. ASSUME NEW h \in Handlers, InitializeCreate(h)
      PROVE  Acknowledging'
  <2>1. PICK r \in Refs :
          /\ status[r] = "none"
          /\ leaseOf' = [leaseOf EXCEPT ![r] = lease[h]]
          /\ cur' = [cur EXCEPT ![h] = r]
    BY <1>5 DEF InitializeCreate
  <2>2. kind[h] # "webhook" /\ UNCHANGED <<kind, evt, charge, active>>
    BY <1>5 DEF InitializeCreate
  <2>3. pc' = [pc EXCEPT ![h] = "checkout"]
    BY <1>5 DEF InitializeCreate, Goto
  <2>4. \A g \in Handlers : cur[g] # r
    BY <2>1 DEF Refs, NoRef
  <2>5. QED
    BY <2>1, <2>2, <2>3, <2>4
<1>6. ASSUME NEW h \in Handlers, InitializeCheckout(h)
      PROVE  Acknowledging'
  BY <1>6 DEF InitializeCheckout, Goto, Finish
<1>7. ASSUME NEW h \in Handlers, InitializeUndo(h)
      PROVE  Acknowledging'
  BY <1>7 DEF InitializeUndo, Goto, Finish
<1>8. ASSUME NEW h \in Handlers, NEW r \in Refs, WebhookStart(h, r)
      PROVE  Acknowledging'
  <2>1. /\ Goto(h, IF Coerce(status[r]) = "succeeded" THEN "ack" ELSE "lease")
        /\ cur' = [cur EXCEPT ![h] = r]
        /\ evt' = [evt EXCEPT ![h] = r]
        /\ kind' = [kind EXCEPT ![h] = "webhook"]
        /\ charge[r] > 0
        /\ UNCHANGED <<charge, leaseOf, active>>
    BY <1>8 DEF WebhookStart, TargetOf
  <2>2. pc'[h] = "lease" \/ (pc'[h] = "ack" /\ active[leaseOf[r]])
    BY <2>1 DEF Goto, Coerce, SettledIsActive, SettledStatuses
  <2>3. QED
    BY <2>1, <2>2 DEF Goto
<1>9. ASSUME NEW r \in Refs, WebhookUnknown(r)
      PROVE  Acknowledging'
  BY <1>9 DEF WebhookUnknown
<1>10. ASSUME NEW h \in Handlers, WebhookAck(h)
       PROVE  Acknowledging'
  BY <1>10 DEF WebhookAck, Goto, Finish
<1>11. ASSUME NEW h \in Handlers, NEW r \in Refs, VerifyStart(h, r)
       PROVE  Acknowledging'
  BY <1>11 DEF VerifyStart, Goto
<1>12. ASSUME NEW h \in Handlers, VerifyAsk(h)
       PROVE  Acknowledging'
  <2>1. kind[h] # "webhook" /\ UNCHANGED <<charge, leaseOf, active>>
    BY <1>12 DEF VerifyAsk
  <2>2. CASE Finish(h)
    BY <2>1, <2>2 DEF Goto, Finish
  <2>3. CASE pc' \in {[pc EXCEPT ![h] = "fail"], [pc EXCEPT ![h] = "lease"]} /\ UNCHANGED <<kind, cur, evt>>
    BY <2>1, <2>3
  <2>4. QED
    BY <1>12, <2>2, <2>3 DEF VerifyAsk, Goto
<1>13. ASSUME NEW h \in Handlers, ReadLease(h)
       PROVE  Acknowledging'
  <2>1. /\ cur[h] \in Refs /\ leaseOf[cur[h]] \in Leases
        /\ amt[h] = charge[cur[h]] /\ charge[cur[h]] > 0
    BY <1>13 DEF ReadLease, Reconciled
  <2>2. UNCHANGED <<kind, cur, evt, charge, leaseOf, active>>
    BY <1>13 DEF ReadLease
  <2>3. \A g \in Handlers \ {h} : pc'[g] = pc[g]
    BY <1>13 DEF ReadLease, Goto
  <2>4. pc'[h] \in {"fail", "gate", "document"}
    BY <1>13 DEF ReadLease, Goto
  <2>5. pc'[h] = "fail" => ~Paid(cur[h], leaseOf[cur[h]])
    BY <1>13, <2>1, ConstantsAssumption DEF ReadLease, Goto, Short
  <2>6. QED
    BY <2>1, <2>2, <2>3, <2>4, <2>5
<1>14. ASSUME NEW h \in Handlers, MarkFailed(h)
       PROVE  Acknowledging'
  BY <1>14 DEF MarkFailed, Goto, Finish, Answer
<1>15. ASSUME NEW h \in Handlers, GenerateDocument(h)
       PROVE  Acknowledging'
  BY <1>15 DEF GenerateDocument, Goto
<1>16. ASSUME NEW h \in Handlers, RpcGate(h)
       PROVE  Acknowledging'
  <2>1. UNCHANGED <<charge, leaseOf, active>>
    BY <1>16 DEF RpcGate
  <2>2. CASE status[cur[h]] \in SettledStatuses /\ Answer(h)
        BY <1>16, <2>1, <2>2 DEF RpcGate, Goto, Finish, Answer, SettledIsActive,
       Reconciled
  <2>3. CASE Goto(h, "commit") /\ UNCHANGED localVars
    BY <2>1, <2>3 DEF Goto
  <2>4. QED
    BY <1>16, <2>2, <2>3 DEF RpcGate
<1>17. ASSUME NEW h \in Handlers, RpcCommit(h)
       PROVE  Acknowledging'
  <2>1. /\ cur[h] \in Refs /\ leaseOf[cur[h]] \in Leases
        /\ Paid(cur[h], leaseOf[cur[h]])
    BY <1>17 DEF RpcCommit, Reconciled
  <2>2. \A l \in Leases : active[l] => active'[l]
    BY <1>17 DEF RpcCommit, Activate
  <2>3. active'[leaseOf[cur[h]]]
    BY <1>17, <2>1 DEF RpcCommit, Activate, LaterPayment
  <2>4. UNCHANGED <<charge, leaseOf>>
    BY <1>17 DEF RpcCommit
  <2>5. CASE Goto(h, "ack") /\ UNCHANGED localVars /\ kind[h] = "webhook"
    BY <2>1, <2>2, <2>3, <2>4, <2>5 DEF Goto
  <2>6. CASE Finish(h)
    BY <2>2, <2>4, <2>6 DEF Finish, Goto
  <2>7. QED
    BY <1>17, <2>5, <2>6 DEF RpcCommit, Answer
<1>18. ASSUME NEW r \in Refs, NEW p \in SplitPercents, Split(r, p)
       PROVE  Acknowledging'
  BY <1>18 DEF Split
<1>19. ASSUME NEW h \in Handlers, Die(h)
       PROVE  Acknowledging'
  BY <1>19 DEF Die, Goto, Finish
<1>20. ASSUME NEW r \in Refs, NEW a \in Amounts, CustomerPays(r, a)
       PROVE  Acknowledging'
  BY <1>20 DEF CustomerPays
<1>21. QED
  BY <1>1, <1>2, <1>3, <1>4, <1>5, <1>6, <1>7, <1>8, <1>9, <1>10,
     <1>11, <1>12, <1>13, <1>14, <1>15, <1>16, <1>17, <1>18, <1>19,
     <1>20
     DEF Next, HandlerStep

(* Only a charged reference is acknowledged.                               *)
LEMMA AckedIsChargedStep ==
  ASSUME TypeOK, Issued, Acknowledging, AckedIsCharged, [Next]_vars PROVE AckedIsCharged'
<1> USE DEF AckedIsCharged, TypeOK, GatewayTypes
<1>1. CASE UNCHANGED vars
  BY <1>1 DEF AckedIsCharged
<1>2. ASSUME NEW h \in Handlers, NEW l \in Leases, InitializeReadLease(h, l)
      PROVE  AckedIsCharged'
  BY <1>2 DEF InitializeReadLease
<1>3. ASSUME NEW h \in Handlers, InitializeReadApplication(h)
      PROVE  AckedIsCharged'
  BY <1>3 DEF InitializeReadApplication
<1>4. ASSUME NEW h \in Handlers, InitializeReadOpen(h)
      PROVE  AckedIsCharged'
  BY <1>4 DEF InitializeReadOpen
<1>5. ASSUME NEW h \in Handlers, InitializeCreate(h)
      PROVE  AckedIsCharged'
  BY <1>5 DEF InitializeCreate
<1>6. ASSUME NEW h \in Handlers, InitializeCheckout(h)
      PROVE  AckedIsCharged'
  BY <1>6 DEF InitializeCheckout
<1>7. ASSUME NEW h \in Handlers, InitializeUndo(h)
      PROVE  AckedIsCharged'
  BY <1>7 DEF InitializeUndo
<1>8. ASSUME NEW h \in Handlers, NEW r \in Refs, WebhookStart(h, r)
      PROVE  AckedIsCharged'
  BY <1>8 DEF WebhookStart
<1>9. ASSUME NEW r \in Refs, WebhookUnknown(r)
      PROVE  AckedIsCharged'
  BY <1>9 DEF WebhookUnknown
<1>10. ASSUME NEW h \in Handlers, WebhookAck(h)
       PROVE  AckedIsCharged'
    BY <1>10 DEF WebhookAck, Acknowledging, Issued, Hands, Holding,
     RequestTypes, NoRef
<1>11. ASSUME NEW h \in Handlers, NEW r \in Refs, VerifyStart(h, r)
       PROVE  AckedIsCharged'
  BY <1>11 DEF VerifyStart
<1>12. ASSUME NEW h \in Handlers, VerifyAsk(h)
       PROVE  AckedIsCharged'
  BY <1>12 DEF VerifyAsk
<1>13. ASSUME NEW h \in Handlers, ReadLease(h)
       PROVE  AckedIsCharged'
  BY <1>13 DEF ReadLease
<1>14. ASSUME NEW h \in Handlers, MarkFailed(h)
       PROVE  AckedIsCharged'
  BY <1>14 DEF MarkFailed
<1>15. ASSUME NEW h \in Handlers, GenerateDocument(h)
       PROVE  AckedIsCharged'
  BY <1>15 DEF GenerateDocument
<1>16. ASSUME NEW h \in Handlers, RpcGate(h)
       PROVE  AckedIsCharged'
  BY <1>16 DEF RpcGate
<1>17. ASSUME NEW h \in Handlers, RpcCommit(h)
       PROVE  AckedIsCharged'
  BY <1>17 DEF RpcCommit
<1>18. ASSUME NEW r \in Refs, NEW p \in SplitPercents, Split(r, p)
       PROVE  AckedIsCharged'
  BY <1>18 DEF Split
<1>19. ASSUME NEW h \in Handlers, Die(h)
       PROVE  AckedIsCharged'
  BY <1>19 DEF Die
<1>20. ASSUME NEW r \in Refs, NEW a \in Amounts, CustomerPays(r, a)
       PROVE  AckedIsCharged'
  BY <1>20 DEF CustomerPays
<1>21. QED
  BY <1>1, <1>2, <1>3, <1>4, <1>5, <1>6, <1>7, <1>8, <1>9, <1>10,
     <1>11, <1>12, <1>13, <1>14, <1>15, <1>16, <1>17, <1>18, <1>19,
     <1>20
     DEF Next, HandlerStep

(* An acknowledged payment in full keeps its active lease.                 *)
LEMMA AckedIsActiveStep ==
  ASSUME TypeOK, Issued, Acknowledging, AckedIsCharged, AckedIsActive,
         NamesReference, [Next]_vars PROVE AckedIsActive'
<1> USE DEF AckedIsActive, Paid, TypeOK, GatewayTypes, DatabaseTypes
<1>1. CASE UNCHANGED vars
  BY <1>1 DEF AckedIsActive
<1>2. ASSUME NEW h \in Handlers, NEW l \in Leases, InitializeReadLease(h, l)
      PROVE  AckedIsActive'
  BY <1>2 DEF InitializeReadLease
<1>3. ASSUME NEW h \in Handlers, InitializeReadApplication(h)
      PROVE  AckedIsActive'
  BY <1>3 DEF InitializeReadApplication
<1>4. ASSUME NEW h \in Handlers, InitializeReadOpen(h)
      PROVE  AckedIsActive'
  BY <1>4 DEF InitializeReadOpen
<1>5. ASSUME NEW h \in Handlers, InitializeCreate(h)
      PROVE  AckedIsActive'
  BY <1>5 DEF InitializeCreate, AckedIsCharged, Issued, Rows
<1>6. ASSUME NEW h \in Handlers, InitializeCheckout(h)
      PROVE  AckedIsActive'
  BY <1>6 DEF InitializeCheckout
<1>7. ASSUME NEW h \in Handlers, InitializeUndo(h)
      PROVE  AckedIsActive'
  BY <1>7 DEF InitializeUndo
<1>8. ASSUME NEW h \in Handlers, NEW r \in Refs, WebhookStart(h, r)
      PROVE  AckedIsActive'
  BY <1>8 DEF WebhookStart
<1>9. ASSUME NEW r \in Refs, WebhookUnknown(r)
      PROVE  AckedIsActive'
  BY <1>9 DEF WebhookUnknown, TargetOf
<1>10. ASSUME NEW h \in Handlers, WebhookAck(h)
       PROVE  AckedIsActive'
    BY <1>10 DEF WebhookAck, Acknowledging, Issued, Hands, Holding,
     RequestTypes, NoRef
<1>11. ASSUME NEW h \in Handlers, NEW r \in Refs, VerifyStart(h, r)
       PROVE  AckedIsActive'
  BY <1>11 DEF VerifyStart
<1>12. ASSUME NEW h \in Handlers, VerifyAsk(h)
       PROVE  AckedIsActive'
  BY <1>12 DEF VerifyAsk
<1>13. ASSUME NEW h \in Handlers, ReadLease(h)
       PROVE  AckedIsActive'
  BY <1>13 DEF ReadLease
<1>14. ASSUME NEW h \in Handlers, MarkFailed(h)
       PROVE  AckedIsActive'
  BY <1>14 DEF MarkFailed
<1>15. ASSUME NEW h \in Handlers, GenerateDocument(h)
       PROVE  AckedIsActive'
  BY <1>15 DEF GenerateDocument
<1>16. ASSUME NEW h \in Handlers, RpcGate(h)
       PROVE  AckedIsActive'
  BY <1>16 DEF RpcGate
<1>17. ASSUME NEW h \in Handlers, RpcCommit(h)
       PROVE  AckedIsActive'
  BY <1>17 DEF RpcCommit, Activate
<1>18. ASSUME NEW r \in Refs, NEW p \in SplitPercents, Split(r, p)
       PROVE  AckedIsActive'
  BY <1>18 DEF Split
<1>19. ASSUME NEW h \in Handlers, Die(h)
       PROVE  AckedIsActive'
  BY <1>19 DEF Die
<1>20. ASSUME NEW r \in Refs, NEW a \in Amounts, CustomerPays(r, a)
       PROVE  AckedIsActive'
  BY <1>20 DEF CustomerPays, AckedIsCharged
<1>21. QED
  BY <1>1, <1>2, <1>3, <1>4, <1>5, <1>6, <1>7, <1>8, <1>9, <1>10,
     <1>11, <1>12, <1>13, <1>14, <1>15, <1>16, <1>17, <1>18, <1>19,
     <1>20
     DEF Next, HandlerStep

(* Without splits, only a debit settles.                                   *)
LEMMA SettledIsDebitedStep ==
  ASSUME TypeOK, SettledIsDebited, SplitPercents = {}, [Next]_vars PROVE SettledIsDebited'
<1> USE DEF SettledIsDebited, SettledStatuses, TypeOK, DatabaseTypes, RequestTypes
<1>1. CASE UNCHANGED vars
  BY <1>1 DEF SettledIsDebited
<1>2. ASSUME NEW h \in Handlers, NEW l \in Leases, InitializeReadLease(h, l)
      PROVE  SettledIsDebited'
  BY <1>2 DEF InitializeReadLease
<1>3. ASSUME NEW h \in Handlers, InitializeReadApplication(h)
      PROVE  SettledIsDebited'
  BY <1>3 DEF InitializeReadApplication
<1>4. ASSUME NEW h \in Handlers, InitializeReadOpen(h)
      PROVE  SettledIsDebited'
  BY <1>4 DEF InitializeReadOpen
<1>5. ASSUME NEW h \in Handlers, InitializeCreate(h)
      PROVE  SettledIsDebited'
  BY <1>5 DEF InitializeCreate
<1>6. ASSUME NEW h \in Handlers, InitializeCheckout(h)
      PROVE  SettledIsDebited'
  BY <1>6 DEF InitializeCheckout
<1>7. ASSUME NEW h \in Handlers, InitializeUndo(h)
      PROVE  SettledIsDebited'
  BY <1>7 DEF InitializeUndo
<1>8. ASSUME NEW h \in Handlers, NEW r \in Refs, WebhookStart(h, r)
      PROVE  SettledIsDebited'
  BY <1>8 DEF WebhookStart
<1>9. ASSUME NEW r \in Refs, WebhookUnknown(r)
      PROVE  SettledIsDebited'
  BY <1>9 DEF WebhookUnknown
<1>10. ASSUME NEW h \in Handlers, WebhookAck(h)
       PROVE  SettledIsDebited'
  BY <1>10 DEF WebhookAck
<1>11. ASSUME NEW h \in Handlers, NEW r \in Refs, VerifyStart(h, r)
       PROVE  SettledIsDebited'
  BY <1>11 DEF VerifyStart
<1>12. ASSUME NEW h \in Handlers, VerifyAsk(h)
       PROVE  SettledIsDebited'
  BY <1>12 DEF VerifyAsk
<1>13. ASSUME NEW h \in Handlers, ReadLease(h)
       PROVE  SettledIsDebited'
  BY <1>13 DEF ReadLease
<1>14. ASSUME NEW h \in Handlers, MarkFailed(h)
       PROVE  SettledIsDebited'
  BY <1>14 DEF MarkFailed
<1>15. ASSUME NEW h \in Handlers, GenerateDocument(h)
       PROVE  SettledIsDebited'
  BY <1>15 DEF GenerateDocument
<1>16. ASSUME NEW h \in Handlers, RpcGate(h)
       PROVE  SettledIsDebited'
  BY <1>16 DEF RpcGate
<1>17. ASSUME NEW h \in Handlers, RpcCommit(h)
       PROVE  SettledIsDebited'
  BY <1>17 DEF RpcCommit, Settle
<1>18. ASSUME NEW r \in Refs, NEW p \in SplitPercents, Split(r, p)
       PROVE  SettledIsDebited'
  BY <1>18 DEF Split
<1>19. ASSUME NEW h \in Handlers, Die(h)
       PROVE  SettledIsDebited'
  BY <1>19 DEF Die
<1>20. ASSUME NEW r \in Refs, NEW a \in Amounts, CustomerPays(r, a)
       PROVE  SettledIsDebited'
  BY <1>20 DEF CustomerPays
<1>21. QED
  BY <1>1, <1>2, <1>3, <1>4, <1>5, <1>6, <1>7, <1>8, <1>9, <1>10,
     <1>11, <1>12, <1>13, <1>14, <1>15, <1>16, <1>17, <1>18, <1>19,
     <1>20
     DEF Next, HandlerStep

(* Which steps write what the properties are about.                        *)
LEMMA LedgerSteps ==
  ASSUME [Next]_vars
  PROVE  \/ \E h \in Handlers : InitializeCreate(h) \/ RpcCommit(h)
         \/ \E r \in Refs, a \in Amounts : CustomerPays(r, a)
         \/ UNCHANGED <<leaseOf, charge, debits, active>>
  BY DEF Next, HandlerStep, InitializeReadLease, InitializeReadApplication,
     InitializeReadOpen, InitializeCheckout, InitializeUndo, WebhookStart,
     WebhookUnknown, WebhookAck, VerifyStart, VerifyAsk, ReadLease, MarkFailed,
     GenerateDocument, RpcGate, Split, Die

LEMMA OnlyCommitDebits ==
  ASSUME [Next]_vars
  PROVE  UNCHANGED debits \/ \E h \in Handlers : RpcCommit(h)
  BY LedgerSteps DEF InitializeCreate, CustomerPays

LEMMA StatusSteps ==
  ASSUME Next, SplitPercents = {}
  PROVE  \/ \E h \in Handlers : \/ InitializeUndo(h) \/ MarkFailed(h)
                               \/ InitializeCreate(h) \/ RpcCommit(h)
         \/ UNCHANGED status
  BY DEF Next, HandlerStep, InitializeReadLease, InitializeReadApplication,
     InitializeReadOpen, InitializeCheckout, WebhookStart,
     WebhookUnknown, WebhookAck, VerifyStart, VerifyAsk, ReadLease,
     GenerateDocument, RpcGate, Split, Die, CustomerPays

(* Somebody was charged for lease l.                                       *)
LeaseCharged(l) == \E q \in Refs : leaseOf[q] = l /\ charge[q] > 0

(* A request that is about to settle works for a lease that was charged.   *)
Backing == {"lease", "document", "gate", "commit"}
Backed == \A h \in Handlers : pc[h] \in Backing => LeaseCharged(leaseOf[cur[h]])

(* No charge is undone, and no transaction changes its lease.              *)
LEMMA LeaseStaysCharged ==
  ASSUME TypeOK, Issued, [Next]_vars, NEW l \in Leases, LeaseCharged(l)
  PROVE  LeaseCharged(l)'
<1>1. PICK q \in Refs : leaseOf[q] = l /\ charge[q] > 0
  BY DEF LeaseCharged
<1>2. status[q] # "none"
  BY <1>1 DEF Issued, Rows
<1>3. CASE UNCHANGED <<leaseOf, charge>>
  BY <1>1, <1>3 DEF LeaseCharged
<1>4. ASSUME NEW h \in Handlers, InitializeCreate(h) PROVE LeaseCharged(l)'
  BY <1>1, <1>2, <1>4 DEF InitializeCreate, LeaseCharged, TypeOK, DatabaseTypes
<1>5. ASSUME NEW h \in Handlers, RpcCommit(h) PROVE LeaseCharged(l)'
  BY <1>1, <1>5 DEF RpcCommit, LeaseCharged
<1>6. ASSUME NEW r \in Refs, NEW a \in Amounts, CustomerPays(r, a) PROVE LeaseCharged(l)'
  BY <1>1, <1>6 DEF CustomerPays, LeaseCharged, TypeOK, GatewayTypes
<1>7. QED
  BY <1>3, <1>4, <1>5, <1>6, LedgerSteps

(* A row keeps its lease.                                                  *)
LEMMA LeaseIsKept ==
  ASSUME TypeOK, Issued, [Next]_vars, NEW r \in Refs, status[r] # "none"
  PROVE  leaseOf'[r] = leaseOf[r] /\ leaseOf[r] \in Leases
<1>1. ASSUME NEW h \in Handlers, InitializeCreate(h) PROVE leaseOf'[r] = leaseOf[r]
  BY <1>1 DEF InitializeCreate, TypeOK, DatabaseTypes
<1>2. leaseOf'[r] = leaseOf[r]
  BY <1>1, LedgerSteps DEF RpcCommit, CustomerPays
<1>3. QED
  BY <1>2 DEF Issued, Rows

(* Who goes on with the transaction it holds is backed as before.          *)
LEMMA BackedKept ==
  ASSUME TypeOK, Issued, Backed, [Next]_vars, NEW k \in Handlers,
         pc[k] \in Backing, cur'[k] = cur[k]
  PROVE  LeaseCharged(leaseOf[cur[k]])'
<1>1. PICK r \in Refs : r = cur[k] /\ status[r] # "none"
  BY DEF Issued, Hands, Holding, Backing, TypeOK, RequestTypes
<1>2. leaseOf'[r] = leaseOf[r] /\ leaseOf[r] \in Leases
  BY <1>1, LeaseIsKept
<1>3. LeaseCharged(leaseOf[r])
  BY <1>1 DEF Backed
<1>4. PICK l \in Leases : l = leaseOf[r]
  BY <1>2
<1>5. LeaseCharged(l)'
  BY <1>3, <1>4, LeaseStaysCharged
<1>6. \E q \in Refs : leaseOf'[q] = l /\ charge'[q] > 0
  BY <1>5 DEF LeaseCharged
<1>7. QED
  BY <1>1, <1>2, <1>4, <1>6 DEF LeaseCharged

(* A request starts to settle when it is told of a charge: by an event of  *)
(* its lease, or by the gateway.                                           *)
LEMMA BackedStep ==
  ASSUME TypeOK, Issued, Backed, [Next]_vars PROVE Backed'
<1>1. CASE UNCHANGED vars
  BY <1>1 DEF Backed, LeaseCharged
<1>2. ASSUME NEW h \in Handlers, NEW l \in Leases, InitializeReadLease(h, l)
      PROVE  Backed'
  <2>1. \A k \in Handlers : pc'[k] \in Backing => pc[k] \in Backing /\ cur'[k] = cur[k]
    BY <1>2 DEF InitializeReadLease, Goto, Backing, TypeOK, RequestTypes
  <2>2. QED
    BY <2>1, BackedKept DEF Backed
<1>3. ASSUME NEW h \in Handlers, InitializeReadApplication(h)
      PROVE  Backed'
  <2>1. \A k \in Handlers : pc'[k] \in Backing => pc[k] \in Backing /\ cur'[k] = cur[k]
    BY <1>3 DEF InitializeReadApplication, Goto, Finish, Backing, TypeOK, RequestTypes
  <2>2. QED
    BY <2>1, BackedKept DEF Backed
<1>4. ASSUME NEW h \in Handlers, InitializeReadOpen(h)
      PROVE  Backed'
  <2>1. \A k \in Handlers : pc'[k] \in Backing => pc[k] \in Backing /\ cur'[k] = cur[k]
    BY <1>4 DEF InitializeReadOpen, Goto, Finish, Backing, TypeOK, RequestTypes
  <2>2. QED
    BY <2>1, BackedKept DEF Backed
<1>5. ASSUME NEW h \in Handlers, InitializeCreate(h)
      PROVE  Backed'
  <2>1. \A k \in Handlers : pc'[k] \in Backing => pc[k] \in Backing /\ cur'[k] = cur[k]
    BY <1>5 DEF InitializeCreate, Goto, Backing, TypeOK, RequestTypes
  <2>2. QED
    BY <2>1, BackedKept DEF Backed
<1>6. ASSUME NEW h \in Handlers, InitializeCheckout(h)
      PROVE  Backed'
  <2>1. \A k \in Handlers : pc'[k] \in Backing => pc[k] \in Backing /\ cur'[k] = cur[k]
    BY <1>6 DEF InitializeCheckout, Goto, Finish, Backing, TypeOK, RequestTypes
  <2>2. QED
    BY <2>1, BackedKept DEF Backed
<1>7. ASSUME NEW h \in Handlers, InitializeUndo(h)
      PROVE  Backed'
  <2>1. \A k \in Handlers : pc'[k] \in Backing => pc[k] \in Backing /\ cur'[k] = cur[k]
    BY <1>7 DEF InitializeUndo, Finish, Goto, Backing, TypeOK, RequestTypes
  <2>2. QED
    BY <2>1, BackedKept DEF Backed
<1>8. ASSUME NEW h \in Handlers, NEW r \in Refs, WebhookStart(h, r)
      PROVE  Backed'
  <2>1. PICK t \in Refs : /\ leaseOf[t] = leaseOf[r] /\ status[t] # "none"
                         /\ cur' = [cur EXCEPT ![h] = t]
    BY <1>8 DEF WebhookStart, TargetOf, NewestOpen, OpenOf, OpenStatuses, Issued, Rows
  <2>2. charge[r] > 0 /\ UNCHANGED <<leaseOf, charge>>
    BY <1>8 DEF WebhookStart
  <2>3. cur'[h] = t
    BY <2>1 DEF TypeOK, RequestTypes
  <2>4. LeaseCharged(leaseOf[cur[h]])'
    BY <2>1, <2>2, <2>3 DEF LeaseCharged
  <2>5. \A k \in Handlers \ {h} : pc'[k] = pc[k] /\ cur'[k] = cur[k]
    BY <1>8, <2>1 DEF WebhookStart, Goto, TypeOK, RequestTypes
  <2>6. QED
    BY <2>4, <2>5, BackedKept DEF Backed
<1>9. ASSUME NEW r \in Refs, WebhookUnknown(r)
      PROVE  Backed'
  <2>1. \A k \in Handlers : pc'[k] \in Backing => pc[k] \in Backing /\ cur'[k] = cur[k]
    BY <1>9 DEF WebhookUnknown, Backing, TypeOK, RequestTypes
  <2>2. QED
    BY <2>1, BackedKept DEF Backed
<1>10. ASSUME NEW h \in Handlers, WebhookAck(h)
       PROVE  Backed'
  <2>1. \A k \in Handlers : pc'[k] \in Backing => pc[k] \in Backing /\ cur'[k] = cur[k]
    BY <1>10 DEF WebhookAck, Finish, Goto, Backing, TypeOK, RequestTypes
  <2>2. QED
    BY <2>1, BackedKept DEF Backed
<1>11. ASSUME NEW h \in Handlers, NEW r \in Refs, VerifyStart(h, r)
       PROVE  Backed'
  <2>1. \A k \in Handlers : pc'[k] \in Backing => pc[k] \in Backing /\ cur'[k] = cur[k]
    BY <1>11 DEF VerifyStart, Goto, Backing, TypeOK, RequestTypes
  <2>2. QED
    BY <2>1, BackedKept DEF Backed
<1>12. ASSUME NEW h \in Handlers, VerifyAsk(h)
       PROVE  Backed'
  <2>1. \A k \in Handlers \ {h} : pc'[k] = pc[k] /\ cur'[k] = cur[k]
    BY <1>12 DEF VerifyAsk, Finish, Goto, TypeOK, RequestTypes
  <2>2. pc'[h] \notin Backing \/ (charge[cur[h]] > 0 /\ cur'[h] = cur[h])
    BY <1>12 DEF VerifyAsk, GatewayAnswers, HostedAnswers, Finish, Goto, Backing, TypeOK, RequestTypes
  <2>3. cur[h] \in Refs /\ UNCHANGED <<leaseOf, charge>>
    BY <1>12 DEF VerifyAsk, Issued, Hands, Holding, TypeOK, RequestTypes
  <2>4. pc'[h] \in Backing => LeaseCharged(leaseOf[cur[h]])'
    BY <2>2, <2>3 DEF LeaseCharged
  <2>5. QED
    BY <2>1, <2>4, BackedKept DEF Backed
<1>13. ASSUME NEW h \in Handlers, ReadLease(h)
       PROVE  Backed'
  <2>1. \A k \in Handlers : pc'[k] \in Backing => pc[k] \in Backing /\ cur'[k] = cur[k]
    BY <1>13 DEF ReadLease, Goto, Backing, TypeOK, RequestTypes
  <2>2. QED
    BY <2>1, BackedKept DEF Backed
<1>14. ASSUME NEW h \in Handlers, MarkFailed(h)
       PROVE  Backed'
  <2>1. \A k \in Handlers : pc'[k] \in Backing => pc[k] \in Backing /\ cur'[k] = cur[k]
    BY <1>14 DEF MarkFailed, Answer, Finish, Goto, Backing, TypeOK, RequestTypes
  <2>2. QED
    BY <2>1, BackedKept DEF Backed
<1>15. ASSUME NEW h \in Handlers, GenerateDocument(h)
       PROVE  Backed'
  <2>1. \A k \in Handlers : pc'[k] \in Backing => pc[k] \in Backing /\ cur'[k] = cur[k]
    BY <1>15 DEF GenerateDocument, Goto, Backing, TypeOK, RequestTypes
  <2>2. QED
    BY <2>1, BackedKept DEF Backed
<1>16. ASSUME NEW h \in Handlers, RpcGate(h)
       PROVE  Backed'
  <2>1. \A k \in Handlers : pc'[k] \in Backing => pc[k] \in Backing /\ cur'[k] = cur[k]
    BY <1>16 DEF RpcGate, Answer, Finish, Goto, Backing, TypeOK, RequestTypes
  <2>2. QED
    BY <2>1, BackedKept DEF Backed
<1>17. ASSUME NEW h \in Handlers, RpcCommit(h)
       PROVE  Backed'
  <2>1. \A k \in Handlers : pc'[k] \in Backing => pc[k] \in Backing /\ cur'[k] = cur[k]
    BY <1>17 DEF RpcCommit, Answer, Finish, Goto, Settle, Backing, TypeOK, RequestTypes
  <2>2. QED
    BY <2>1, BackedKept DEF Backed
<1>18. ASSUME NEW r \in Refs, NEW p \in SplitPercents, Split(r, p)
       PROVE  Backed'
  <2>1. \A k \in Handlers : pc'[k] \in Backing => pc[k] \in Backing /\ cur'[k] = cur[k]
    BY <1>18 DEF Split, Backing, TypeOK, RequestTypes
  <2>2. QED
    BY <2>1, BackedKept DEF Backed
<1>19. ASSUME NEW h \in Handlers, Die(h)
       PROVE  Backed'
  <2>1. \A k \in Handlers : pc'[k] \in Backing => pc[k] \in Backing /\ cur'[k] = cur[k]
    BY <1>19 DEF Die, Finish, Goto, Backing, TypeOK, RequestTypes
  <2>2. QED
    BY <2>1, BackedKept DEF Backed
<1>20. ASSUME NEW r \in Refs, NEW a \in Amounts, CustomerPays(r, a)
       PROVE  Backed'
  <2>1. \A k \in Handlers : pc'[k] \in Backing => pc[k] \in Backing /\ cur'[k] = cur[k]
    BY <1>20 DEF CustomerPays, Backing, TypeOK, RequestTypes
  <2>2. QED
    BY <2>1, BackedKept DEF Backed
<1>21. QED
  BY <1>1, <1>2, <1>3, <1>4, <1>5, <1>6, <1>7, <1>8, <1>9, <1>10,
     <1>11, <1>12, <1>13, <1>14, <1>15, <1>16, <1>17, <1>18, <1>19,
     <1>20
     DEF Next, HandlerStep

(* Only a backed request adds a debit.                                     *)
LEMMA DebitIsOfLeaseStep ==
  ASSUME TypeOK, Issued, Backed, DebitIsOfLease, [Next]_vars PROVE DebitIsOfLease'
<1>1. ASSUME NEW r \in Refs, debits[r] > 0 PROVE LeaseCharged(leaseOf[r])'
  <2>1. status[r] # "none" /\ LeaseCharged(leaseOf[r])
    BY <1>1 DEF Issued, Rows, DebitIsOfLease, LeaseCharged
  <2>2. PICK l \in Leases : l = leaseOf[r] /\ l = leaseOf'[r]
    BY <2>1, LeaseIsKept
  <2>3. LeaseCharged(l)'
    BY <2>1, <2>2, LeaseStaysCharged
  <2>4. QED
    BY <2>2, <2>3 DEF LeaseCharged
<1>2. CASE UNCHANGED debits
  BY <1>1, <1>2 DEF DebitIsOfLease, LeaseCharged
<1>3. ASSUME NEW h \in Handlers, RpcCommit(h) PROVE DebitIsOfLease'
  <2>1. PICK r \in Refs : r = cur[h]
    BY <1>3 DEF RpcCommit, Issued, Hands, Holding, TypeOK, RequestTypes
  <2>2. UNCHANGED <<leaseOf, charge>> /\ pc[h] = "commit"
    BY <1>3 DEF RpcCommit
  <2>3. LeaseCharged(leaseOf[r])'
    BY <2>1, <2>2 DEF Backed, Backing, LeaseCharged
  <2>4. \A q \in Refs \ {r} : debits'[q] = debits[q]
    BY <1>3, <2>1 DEF RpcCommit, Settle, TypeOK, DatabaseTypes
  <2>5. QED
    BY <1>1, <2>3, <2>4 DEF DebitIsOfLease, LeaseCharged
<1>4. QED
  BY <1>2, <1>3, OnlyCommitDebits

(* Only the creation of a transaction opens one.                           *)
LEMMA OpenShrinks ==
  ASSUME TypeOK, Issued, [Next]_vars
  PROVE  \/ \E h \in Handlers : InitializeCreate(h)
         \/ \A r \in Refs : status'[r] \in OpenStatuses =>
              status[r] \in OpenStatuses /\ leaseOf'[r] = leaseOf[r]
<1> USE DEF TypeOK, DatabaseTypes, RequestTypes, Issued, Hands, Holding, OpenStatuses
<1>1. ASSUME NEW h \in Handlers, InitializeUndo(h) \/ MarkFailed(h)
      PROVE  \A r \in Refs : status'[r] \in OpenStatuses => status[r] \in OpenStatuses /\ leaseOf'[r] = leaseOf[r]
  BY <1>1 DEF InitializeUndo, MarkFailed
<1>2. ASSUME NEW h \in Handlers, RpcCommit(h)
      PROVE  \A r \in Refs : status'[r] \in OpenStatuses => status[r] \in OpenStatuses /\ leaseOf'[r] = leaseOf[r]
  BY <1>2 DEF RpcCommit, Settle
<1>3. ASSUME NEW q \in Refs, NEW p \in SplitPercents, Split(q, p)
      PROVE  \A r \in Refs : status'[r] \in OpenStatuses => status[r] \in OpenStatuses /\ leaseOf'[r] = leaseOf[r]
  BY <1>3 DEF Split
<1>4. \/ \E h \in Handlers : InitializeCreate(h) \/ InitializeUndo(h) \/ MarkFailed(h) \/ RpcCommit(h)
      \/ \E q \in Refs, p \in SplitPercents : Split(q, p)
      \/ UNCHANGED <<status, leaseOf>>
  BY DEF Next, HandlerStep, InitializeReadLease, InitializeReadApplication,
     InitializeReadOpen, InitializeCheckout, WebhookStart,
     WebhookUnknown, WebhookAck, VerifyStart, VerifyAsk, ReadLease,
     GenerateDocument, RpcGate, Die, CustomerPays
<1>5. QED
  BY <1>1, <1>2, <1>3, <1>4

(* No request has just looked for open transactions and found none.        *)
NobodyLooks ==
  \A k \in Handlers : pc'[k] = "create" => pc[k] = "create" /\ lease'[k] = lease[k]

(* Only the look brings a request to the creation.                         *)
LEMMA CreatingShrinks ==
  ASSUME TypeOK, [Next]_vars
  PROVE  NobodyLooks \/ \E h \in Handlers : InitializeReadOpen(h)
<1>1. CASE UNCHANGED vars
  BY <1>1 DEF NobodyLooks
<1>2. ASSUME NEW h \in Handlers, NEW l \in Leases, InitializeReadLease(h, l)
      PROVE  NobodyLooks
  BY <1>2 DEF NobodyLooks, InitializeReadLease, Goto, TypeOK, RequestTypes
<1>3. ASSUME NEW h \in Handlers, InitializeReadApplication(h)
      PROVE  NobodyLooks
  BY <1>3 DEF NobodyLooks, InitializeReadApplication, Goto, Finish, TypeOK, RequestTypes
<1>4. ASSUME NEW h \in Handlers, InitializeCreate(h)
      PROVE  NobodyLooks
  BY <1>4 DEF NobodyLooks, InitializeCreate, Goto, TypeOK, RequestTypes
<1>5. ASSUME NEW h \in Handlers, InitializeCheckout(h)
      PROVE  NobodyLooks
  BY <1>5 DEF NobodyLooks, InitializeCheckout, Goto, Finish, TypeOK, RequestTypes
<1>6. ASSUME NEW h \in Handlers, InitializeUndo(h)
      PROVE  NobodyLooks
  BY <1>6 DEF NobodyLooks, InitializeUndo, Finish, Goto, TypeOK, RequestTypes
<1>7. ASSUME NEW h \in Handlers, NEW r \in Refs, WebhookStart(h, r)
      PROVE  NobodyLooks
  BY <1>7 DEF NobodyLooks, WebhookStart, Goto, TypeOK, RequestTypes
<1>8. ASSUME NEW r \in Refs, WebhookUnknown(r)
      PROVE  NobodyLooks
  BY <1>8 DEF NobodyLooks, WebhookUnknown, TypeOK, RequestTypes
<1>9. ASSUME NEW h \in Handlers, WebhookAck(h)
      PROVE  NobodyLooks
  BY <1>9 DEF NobodyLooks, WebhookAck, Finish, Goto, TypeOK, RequestTypes
<1>10. ASSUME NEW h \in Handlers, NEW r \in Refs, VerifyStart(h, r)
      PROVE  NobodyLooks
  BY <1>10 DEF NobodyLooks, VerifyStart, Goto, TypeOK, RequestTypes
<1>11. ASSUME NEW h \in Handlers, VerifyAsk(h)
      PROVE  NobodyLooks
  BY <1>11 DEF NobodyLooks, VerifyAsk, Goto, Finish, TypeOK, RequestTypes
<1>12. ASSUME NEW h \in Handlers, ReadLease(h)
      PROVE  NobodyLooks
  BY <1>12 DEF NobodyLooks, ReadLease, Goto, TypeOK, RequestTypes
<1>13. ASSUME NEW h \in Handlers, MarkFailed(h)
      PROVE  NobodyLooks
  BY <1>13 DEF NobodyLooks, MarkFailed, Answer, Finish, Goto, TypeOK, RequestTypes
<1>14. ASSUME NEW h \in Handlers, GenerateDocument(h)
      PROVE  NobodyLooks
  BY <1>14 DEF NobodyLooks, GenerateDocument, Goto, TypeOK, RequestTypes
<1>15. ASSUME NEW h \in Handlers, RpcGate(h)
      PROVE  NobodyLooks
  BY <1>15 DEF NobodyLooks, RpcGate, Answer, Finish, Goto, TypeOK, RequestTypes
<1>16. ASSUME NEW h \in Handlers, RpcCommit(h)
      PROVE  NobodyLooks
  BY <1>16 DEF NobodyLooks, RpcCommit, Answer, Finish, Goto, Settle, TypeOK, RequestTypes
<1>17. ASSUME NEW r \in Refs, NEW p \in SplitPercents, Split(r, p)
      PROVE  NobodyLooks
  BY <1>17 DEF NobodyLooks, Split, TypeOK, RequestTypes
<1>18. ASSUME NEW h \in Handlers, Die(h)
      PROVE  NobodyLooks
  BY <1>18 DEF NobodyLooks, Die, Finish, Goto, TypeOK, RequestTypes
<1>19. ASSUME NEW r \in Refs, NEW a \in Amounts, CustomerPays(r, a)
      PROVE  NobodyLooks
  BY <1>19 DEF NobodyLooks, CustomerPays, TypeOK, RequestTypes
<1>20. QED
  BY <1>1, <1>2, <1>3, <1>4, <1>5, <1>6, <1>7, <1>8, <1>9, <1>10,
     <1>11, <1>12, <1>13, <1>14, <1>15, <1>16, <1>17, <1>18, <1>19
     DEF Next, HandlerStep

(* Two finite sets that lose members have no more of them together.        *)
LEMMA CountsShrink ==
  ASSUME NEW A, NEW B, NEW C, NEW D, IsFiniteSet(A), IsFiniteSet(B), C \subseteq A, D \subseteq B
  PROVE  /\ Cardinality(A) \in Nat /\ Cardinality(B) \in Nat
         /\ Cardinality(C) \in Nat /\ Cardinality(D) \in Nat
         /\ Cardinality(C) + Cardinality(D) <= Cardinality(A) + Cardinality(B)
<1>1. /\ IsFiniteSet(C) /\ Cardinality(C) <= Cardinality(A)
      /\ IsFiniteSet(D) /\ Cardinality(D) <= Cardinality(B)
  BY FS_Subset
<1>2. /\ Cardinality(A) \in Nat /\ Cardinality(B) \in Nat
      /\ Cardinality(C) \in Nat /\ Cardinality(D) \in Nat
  BY <1>1, FS_CardinalityType
<1>3. QED
  BY <1>1, <1>2

LEMMA OpenAndCreatingFinite ==
  ASSUME IsFiniteSet(Handlers), NEW l
  PROVE  /\ IsFiniteSet(OpenOf(l)) /\ IsFiniteSet(OpenOf(l)')
         /\ IsFiniteSet(Creating(l)) /\ IsFiniteSet(Creating(l)')
<1>1. IsFiniteSet(Refs)
  <2>1. MaxRefs \in Int /\ 1 \in Int
    BY ConstantsAssumption
  <2>2. QED
    BY <2>1, FS_Interval DEF Refs
<1>2. OpenOf(l) \subseteq Refs /\ OpenOf(l)' \subseteq Refs
  BY DEF OpenOf
<1>3. Creating(l) \subseteq Handlers /\ Creating(l)' \subseteq Handlers
  BY DEF Creating
<1>4. QED
  BY <1>1, <1>2, <1>3, FS_Subset

(* Who finds nothing open leaves room for every request; who creates hands *)
(* its place to the transaction; every other step only closes or leaves.   *)
LEMMA OpenPerRequestStep ==
  ASSUME TypeOK, Issued, IsFiniteSet(Handlers), OpenPerRequest, [Next]_vars
  PROVE  OpenPerRequest'
<1> DEFINE Count(l) == Cardinality(OpenOf(l)) + Cardinality(Creating(l))
<1>1. ASSUME NEW l \in Leases, OpenOf(l)' \subseteq OpenOf(l), Creating(l)' \subseteq Creating(l)
      PROVE  Count(l)' <= Cardinality(Handlers)
  <2>1. Count(l) <= Cardinality(Handlers)
    BY DEF OpenPerRequest
  <2>2. /\ Cardinality(OpenOf(l)) \in Nat /\ Cardinality(Creating(l)) \in Nat
        /\ Cardinality(OpenOf(l)') \in Nat /\ Cardinality(Creating(l)') \in Nat
        /\ Cardinality(OpenOf(l)') + Cardinality(Creating(l)')
             <= Cardinality(OpenOf(l)) + Cardinality(Creating(l))
    BY <1>1, OpenAndCreatingFinite, CountsShrink
  <2>3. Cardinality(Handlers) \in Nat
    BY FS_CardinalityType
  <2>4. QED
    BY <2>1, <2>2, <2>3
<1>2. ASSUME NEW h \in Handlers, InitializeCreate(h), NEW l \in Leases
      PROVE  Count(l)' <= Cardinality(Handlers)
  <2>1. PICK n \in Refs : /\ status[n] = "none"
                         /\ status' = [status EXCEPT ![n] = "initialized"]
                         /\ leaseOf' = [leaseOf EXCEPT ![n] = lease[h]]
    BY <1>2 DEF InitializeCreate
  <2>2. /\ pc[h] = "create" /\ pc' = [pc EXCEPT ![h] = "checkout"]
        /\ UNCHANGED lease
    BY <1>2 DEF InitializeCreate, Goto
  <2>3. CASE l # lease[h]
    <3>1. OpenOf(l)' \subseteq OpenOf(l)
      BY <2>1, <2>3 DEF OpenOf, TypeOK, DatabaseTypes
    <3>2. Creating(l)' \subseteq Creating(l)
      BY <2>2 DEF Creating, TypeOK, RequestTypes
    <3>3. QED
      BY <1>1, <3>1, <3>2
  <2>4. CASE l = lease[h]
    <3>1. OpenOf(l)' = OpenOf(l) \cup {n} /\ n \notin OpenOf(l)
      BY <2>1, <2>4 DEF OpenOf, OpenStatuses, TypeOK, DatabaseTypes
    <3>2. Creating(l)' = Creating(l) \ {h} /\ h \in Creating(l)
      BY <2>2, <2>4 DEF Creating, TypeOK, RequestTypes
    <3>3. Cardinality(OpenOf(l)') = Cardinality(OpenOf(l)) + 1
      BY <3>1, OpenAndCreatingFinite, FS_AddElement
    <3>4. Cardinality(Creating(l)') = Cardinality(Creating(l)) - 1
      BY <3>2, OpenAndCreatingFinite, FS_RemoveElement
    <3>5. Cardinality(OpenOf(l)) \in Nat /\ Cardinality(Creating(l)) \in Nat
      BY OpenAndCreatingFinite, FS_CardinalityType
    <3>6. Count(l) <= Cardinality(Handlers) /\ Cardinality(Handlers) \in Nat
      BY FS_CardinalityType DEF OpenPerRequest
    <3>7. QED
      BY <3>3, <3>4, <3>5, <3>6
  <2>5. QED
    BY <2>3, <2>4
<1>3. ASSUME NEW h \in Handlers, InitializeReadOpen(h), NEW l \in Leases
      PROVE  Count(l)' <= Cardinality(Handlers)
  <2>1. UNCHANGED <<status, leaseOf>>
    BY <1>3 DEF InitializeReadOpen
  <2>2. OpenOf(l)' = OpenOf(l)
    BY <2>1 DEF OpenOf
  <2>3. \A k \in Handlers \ {h} : pc'[k] = pc[k] /\ lease'[k] = lease[k]
    BY <1>3 DEF InitializeReadOpen, Goto, Finish, TypeOK, RequestTypes
  <2>4. CASE pc'[h] = "create" /\ lease[h] = l
    <3>1. OpenOf(l) = {}
      BY <1>3, <2>4 DEF InitializeReadOpen, Goto, Finish, TypeOK, RequestTypes
    <3>2. Cardinality(OpenOf(l)') = 0
      BY <2>2, <3>1, FS_EmptySet
    <3>3. Creating(l)' \subseteq Handlers
      BY DEF Creating
    <3>4. /\ Cardinality(Creating(l)') \in Nat /\ Cardinality(Handlers) \in Nat
          /\ Cardinality(Creating(l)') <= Cardinality(Handlers)
      BY <3>3, FS_Subset, FS_CardinalityType, OpenAndCreatingFinite
    <3>5. QED
      BY <3>2, <3>4
  <2>5. CASE ~(pc'[h] = "create" /\ lease[h] = l)
    <3>1. pc'[h] = "create" => lease'[h] = lease[h]
      BY <1>3 DEF InitializeReadOpen, Goto, Finish, TypeOK, RequestTypes
    <3>2. Creating(l)' \subseteq Creating(l)
      BY <2>3, <2>5, <3>1 DEF Creating
    <3>3. QED
      BY <1>1, <2>2, <3>2
  <2>6. QED
    BY <2>4, <2>5
<1>4. ASSUME NobodyLooks, NEW l \in Leases,
             \A r \in Refs : status'[r] \in OpenStatuses =>
               status[r] \in OpenStatuses /\ leaseOf'[r] = leaseOf[r]
      PROVE  Count(l)' <= Cardinality(Handlers)
  <2>1. OpenOf(l)' \subseteq OpenOf(l)
    BY <1>4 DEF OpenOf
  <2>2. Creating(l)' \subseteq Creating(l)
    BY <1>4 DEF Creating, NobodyLooks
  <2>3. QED
    BY <1>1, <2>1, <2>2
<1>5. ASSUME NEW l \in Leases PROVE Count(l)' <= Cardinality(Handlers)
  BY <1>2, <1>3, <1>4, OpenShrinks, CreatingShrinks
<1>6. QED
  BY <1>5 DEF OpenPerRequest

(* Whose checkout is being made, or undone.                                *)
Making(h, r) == cur[h] = r /\ pc[h] \in {"checkout", "undo"}

(* The requests that make a checkout are not disturbed by others.          *)
LEMMA PayableKept ==
  ASSUME TypeOK, Issued, OpenIsPayable, [Next]_vars,
         \A r \in Refs : status'[r] \in OpenStatuses => status[r] \in OpenStatuses,
         \A r \in Refs : session[r] => session'[r],
         faults > 0 => faults' > 0,
         \A k \in Handlers, r \in Refs : Making(k, r) => Making(k, r)'
  PROVE  OpenIsPayable'
BY DEF OpenIsPayable, Making

(* The initialize that creates a transaction gives it a checkout or closes *)
(* it, unless it dies.                                                     *)
LEMMA OpenIsPayableStep ==
  ASSUME TypeOK, Issued, OpenIsPayable, [Next]_vars PROVE OpenIsPayable'
<1>1. CASE UNCHANGED vars
  BY <1>1 DEF OpenIsPayable
<1>2. ASSUME NEW h \in Handlers, NEW l \in Leases, InitializeReadLease(h, l)
      PROVE  OpenIsPayable'
  <2>1. \A k \in Handlers, r \in Refs : Making(k, r) => Making(k, r)'
    BY <1>2 DEF InitializeReadLease, Goto, Making, TypeOK, RequestTypes
  <2>2. \A r \in Refs : status'[r] \in OpenStatuses => status[r] \in OpenStatuses
    BY <1>2 DEF InitializeReadLease
  <2>3. UNCHANGED <<session, faults>>
    BY <1>2 DEF InitializeReadLease
  <2>4. QED
    BY <2>1, <2>2, <2>3, PayableKept
<1>3. ASSUME NEW h \in Handlers, InitializeReadApplication(h)
      PROVE  OpenIsPayable'
  <2>1. \A k \in Handlers, r \in Refs : Making(k, r) => Making(k, r)'
    BY <1>3 DEF InitializeReadApplication, Goto, Finish, Making, TypeOK, RequestTypes
  <2>2. \A r \in Refs : status'[r] \in OpenStatuses => status[r] \in OpenStatuses
    BY <1>3 DEF InitializeReadApplication
  <2>3. UNCHANGED <<session, faults>>
    BY <1>3 DEF InitializeReadApplication
  <2>4. QED
    BY <2>1, <2>2, <2>3, PayableKept
<1>4. ASSUME NEW h \in Handlers, InitializeReadOpen(h)
      PROVE  OpenIsPayable'
  <2>1. \A k \in Handlers, r \in Refs : Making(k, r) => Making(k, r)'
    BY <1>4 DEF InitializeReadOpen, Goto, Finish, Making, TypeOK, RequestTypes
  <2>2. \A r \in Refs : status'[r] \in OpenStatuses => status[r] \in OpenStatuses
    BY <1>4 DEF InitializeReadOpen
  <2>3. UNCHANGED <<session, faults>>
    BY <1>4 DEF InitializeReadOpen
  <2>4. QED
    BY <2>1, <2>2, <2>3, PayableKept
<1>5. ASSUME NEW h \in Handlers, InitializeCreate(h)
      PROVE  OpenIsPayable'
  <2>1. PICK n \in Refs : /\ status' = [status EXCEPT ![n] = "initialized"]
                         /\ cur' = [cur EXCEPT ![h] = n]
    BY <1>5 DEF InitializeCreate
  <2>2. pc[h] = "create" /\ pc' = [pc EXCEPT ![h] = "checkout"] /\ UNCHANGED <<session, faults>>
    BY <1>5 DEF InitializeCreate, Goto
  <2>3. Making(h, n)'
    BY <2>1, <2>2 DEF Making, TypeOK, RequestTypes
  <2>4. \A k \in Handlers, r \in Refs : Making(k, r) => Making(k, r)'
    BY <2>1, <2>2 DEF Making, TypeOK, RequestTypes
  <2>5. \A r \in Refs \ {n} : status'[r] = status[r]
    BY <2>1 DEF TypeOK, DatabaseTypes
  <2>6. QED
    BY <2>2, <2>3, <2>4, <2>5 DEF OpenIsPayable, Making
<1>6. ASSUME NEW h \in Handlers, InitializeCheckout(h)
      PROVE  OpenIsPayable'
  <2>1. PICK n \in Refs : n = cur[h]
    BY <1>6 DEF InitializeCheckout, Issued, Hands, Holding, TypeOK, RequestTypes
  <2>2. UNCHANGED <<status, faults>> /\ pc[h] = "checkout"
    BY <1>6 DEF InitializeCheckout
  <2>3. \A k \in Handlers \ {h} : pc'[k] = pc[k] /\ cur'[k] = cur[k]
    BY <1>6 DEF InitializeCheckout, Goto, Finish, TypeOK, RequestTypes
  <2>4. CASE session' = [session EXCEPT ![n] = TRUE]
    BY <2>1, <2>2, <2>3, <2>4 DEF OpenIsPayable, TypeOK, GatewayTypes
  <2>5. CASE session' = session /\ pc' = [pc EXCEPT ![h] = "undo"] /\ cur' = cur
    BY <2>1, <2>2, <2>3, <2>5 DEF OpenIsPayable, TypeOK, RequestTypes
  <2>6. QED
    BY <1>6, <2>1, <2>4, <2>5 DEF InitializeCheckout, Goto
<1>7. ASSUME NEW h \in Handlers, InitializeUndo(h)
      PROVE  OpenIsPayable'
  <2>1. PICK n \in Refs : n = cur[h]
    BY <1>7 DEF InitializeUndo, Issued, Hands, Holding, TypeOK, RequestTypes
  <2>2. status' = [status EXCEPT ![n] = "failed"] /\ UNCHANGED <<session, faults>>
    BY <1>7, <2>1 DEF InitializeUndo
  <2>3. \A k \in Handlers \ {h} : pc'[k] = pc[k] /\ cur'[k] = cur[k]
    BY <1>7 DEF InitializeUndo, Goto, Finish, TypeOK, RequestTypes
  <2>4. QED
    BY <2>1, <2>2, <2>3 DEF OpenIsPayable, OpenStatuses, TypeOK, DatabaseTypes
<1>8. ASSUME NEW h \in Handlers, NEW r \in Refs, WebhookStart(h, r)
      PROVE  OpenIsPayable'
  <2>1. \A k \in Handlers, q \in Refs : Making(k, q) => Making(k, q)'
    BY <1>8 DEF WebhookStart, Goto, Making, TypeOK, RequestTypes
  <2>2. \A q \in Refs : status'[q] \in OpenStatuses => status[q] \in OpenStatuses
    BY <1>8 DEF WebhookStart
  <2>3. UNCHANGED <<session, faults>>
    BY <1>8 DEF WebhookStart
  <2>4. QED
    BY <2>1, <2>2, <2>3, PayableKept
<1>9. ASSUME NEW r \in Refs, WebhookUnknown(r)
      PROVE  OpenIsPayable'
  <2>1. \A k \in Handlers, q \in Refs : Making(k, q) => Making(k, q)'
    BY <1>9 DEF WebhookUnknown, Making, TypeOK, RequestTypes
  <2>2. \A q \in Refs : status'[q] \in OpenStatuses => status[q] \in OpenStatuses
    BY <1>9 DEF WebhookUnknown
  <2>3. UNCHANGED <<session, faults>>
    BY <1>9 DEF WebhookUnknown
  <2>4. QED
    BY <2>1, <2>2, <2>3, PayableKept
<1>10. ASSUME NEW h \in Handlers, WebhookAck(h)
       PROVE  OpenIsPayable'
  <2>1. \A k \in Handlers, r \in Refs : Making(k, r) => Making(k, r)'
    BY <1>10 DEF WebhookAck, Finish, Goto, Making, TypeOK, RequestTypes
  <2>2. \A r \in Refs : status'[r] \in OpenStatuses => status[r] \in OpenStatuses
    BY <1>10 DEF WebhookAck
  <2>3. UNCHANGED <<session, faults>>
    BY <1>10 DEF WebhookAck
  <2>4. QED
    BY <2>1, <2>2, <2>3, PayableKept
<1>11. ASSUME NEW h \in Handlers, NEW r \in Refs, VerifyStart(h, r)
       PROVE  OpenIsPayable'
  <2>1. \A k \in Handlers, q \in Refs : Making(k, q) => Making(k, q)'
    BY <1>11 DEF VerifyStart, Goto, Making, TypeOK, RequestTypes
  <2>2. \A q \in Refs : status'[q] \in OpenStatuses => status[q] \in OpenStatuses
    BY <1>11 DEF VerifyStart
  <2>3. UNCHANGED <<session, faults>>
    BY <1>11 DEF VerifyStart
  <2>4. QED
    BY <2>1, <2>2, <2>3, PayableKept
<1>12. ASSUME NEW h \in Handlers, VerifyAsk(h)
       PROVE  OpenIsPayable'
  <2>1. \A k \in Handlers, r \in Refs : Making(k, r) => Making(k, r)'
    BY <1>12 DEF VerifyAsk, Goto, Finish, Making, TypeOK, RequestTypes
  <2>2. \A r \in Refs : status'[r] \in OpenStatuses => status[r] \in OpenStatuses
    BY <1>12 DEF VerifyAsk
  <2>3. UNCHANGED <<session, faults>>
    BY <1>12 DEF VerifyAsk
  <2>4. QED
    BY <2>1, <2>2, <2>3, PayableKept
<1>13. ASSUME NEW h \in Handlers, ReadLease(h)
       PROVE  OpenIsPayable'
  <2>1. \A k \in Handlers, r \in Refs : Making(k, r) => Making(k, r)'
    BY <1>13 DEF ReadLease, Goto, Making, TypeOK, RequestTypes
  <2>2. \A r \in Refs : status'[r] \in OpenStatuses => status[r] \in OpenStatuses
    BY <1>13 DEF ReadLease
  <2>3. UNCHANGED <<session, faults>>
    BY <1>13 DEF ReadLease
  <2>4. QED
    BY <2>1, <2>2, <2>3, PayableKept
<1>14. ASSUME NEW h \in Handlers, MarkFailed(h)
       PROVE  OpenIsPayable'
  <2>1. \A k \in Handlers, r \in Refs : Making(k, r) => Making(k, r)'
    BY <1>14 DEF MarkFailed, Answer, Finish, Goto, Making, TypeOK, RequestTypes
  <2>2. \A r \in Refs : status'[r] \in OpenStatuses => status[r] \in OpenStatuses
    BY <1>14 DEF MarkFailed, OpenStatuses, Issued, Hands, Holding, TypeOK, DatabaseTypes, RequestTypes
  <2>3. UNCHANGED <<session, faults>>
    BY <1>14 DEF MarkFailed
  <2>4. QED
    BY <2>1, <2>2, <2>3, PayableKept
<1>15. ASSUME NEW h \in Handlers, GenerateDocument(h)
       PROVE  OpenIsPayable'
  <2>1. \A k \in Handlers, r \in Refs : Making(k, r) => Making(k, r)'
    BY <1>15 DEF GenerateDocument, Goto, Making, TypeOK, RequestTypes
  <2>2. \A r \in Refs : status'[r] \in OpenStatuses => status[r] \in OpenStatuses
    BY <1>15 DEF GenerateDocument
  <2>3. UNCHANGED <<session, faults>>
    BY <1>15 DEF GenerateDocument
  <2>4. QED
    BY <2>1, <2>2, <2>3, PayableKept
<1>16. ASSUME NEW h \in Handlers, RpcGate(h)
       PROVE  OpenIsPayable'
  <2>1. \A k \in Handlers, r \in Refs : Making(k, r) => Making(k, r)'
    BY <1>16 DEF RpcGate, Answer, Finish, Goto, Making, TypeOK, RequestTypes
  <2>2. \A r \in Refs : status'[r] \in OpenStatuses => status[r] \in OpenStatuses
    BY <1>16 DEF RpcGate
  <2>3. UNCHANGED <<session, faults>>
    BY <1>16 DEF RpcGate
  <2>4. QED
    BY <2>1, <2>2, <2>3, PayableKept
<1>17. ASSUME NEW h \in Handlers, RpcCommit(h)
       PROVE  OpenIsPayable'
  <2>1. \A k \in Handlers, r \in Refs : Making(k, r) => Making(k, r)'
    BY <1>17 DEF RpcCommit, Answer, Finish, Goto, Settle, Making, TypeOK, RequestTypes
  <2>2. \A r \in Refs : status'[r] \in OpenStatuses => status[r] \in OpenStatuses
    BY <1>17 DEF RpcCommit, Settle, OpenStatuses, Issued, Hands, Holding, TypeOK, DatabaseTypes, RequestTypes
  <2>3. UNCHANGED <<session, faults>>
    BY <1>17 DEF RpcCommit
  <2>4. QED
    BY <2>1, <2>2, <2>3, PayableKept
<1>18. ASSUME NEW r \in Refs, NEW p \in SplitPercents, Split(r, p)
       PROVE  OpenIsPayable'
  <2>1. \A k \in Handlers, q \in Refs : Making(k, q) => Making(k, q)'
    BY <1>18 DEF Split, Making, TypeOK, RequestTypes
  <2>2. \A q \in Refs : status'[q] \in OpenStatuses => status[q] \in OpenStatuses
    BY <1>18 DEF Split, OpenStatuses, TypeOK, DatabaseTypes
  <2>3. UNCHANGED <<session, faults>>
    BY <1>18 DEF Split
  <2>4. QED
    BY <2>1, <2>2, <2>3, PayableKept
<1>19. ASSUME NEW h \in Handlers, Die(h)
       PROVE  OpenIsPayable'
  <2>1. faults' > 0
    BY <1>19 DEF Die, TypeOK, RequestTypes
  <2>2. QED
    BY <2>1 DEF OpenIsPayable
<1>20. ASSUME NEW r \in Refs, NEW a \in Amounts, CustomerPays(r, a)
       PROVE  OpenIsPayable'
  <2>1. \A k \in Handlers, q \in Refs : Making(k, q) => Making(k, q)'
    BY <1>20 DEF CustomerPays, Making, TypeOK, RequestTypes
  <2>2. \A q \in Refs : status'[q] \in OpenStatuses => status[q] \in OpenStatuses
    BY <1>20 DEF CustomerPays
  <2>3. UNCHANGED <<session, faults>>
    BY <1>20 DEF CustomerPays
  <2>4. QED
    BY <2>1, <2>2, <2>3, PayableKept
<1>21. QED
  BY <1>1, <1>2, <1>3, <1>4, <1>5, <1>6, <1>7, <1>8, <1>9, <1>10,
     <1>11, <1>12, <1>13, <1>14, <1>15, <1>16, <1>17, <1>18, <1>19,
     <1>20
     DEF Next, HandlerStep

(***************************************************************************)
(* Sums over finite sets.  The induction theorems of the library take an   *)
(* operator the provers cannot instantiate; here each fact is proved from  *)
(* a smallest counterexample, which SmallestSet provides.                  *)
(***************************************************************************)

(* Some number is the least of a set of natural numbers.                   *)
LEMMA LeastNumber ==
  ASSUME NEW N, N \subseteq Nat, N # {}
  PROVE  \E n \in N : \A m \in N : ~(m < n)
<1> DEFINE Less == {p \in Nat \X Nat : p[1] < p[2]}
<1>1. IsWellFoundedOn(Less, Nat) BY NatLessThanWellFounded, Zenon DEF OpToRel
<1>2. \A m, n \in Nat : m < n => <<m, n>> \in Less OBVIOUS
<1> HIDE DEF Less
<1>3. \E n \in N : \A m \in N : ~(<<m, n>> \in Less) BY <1>1, WFMin, Zenon
<1> QED BY <1>2, <1>3

(* Of some finite sets one is smallest: whatever holds of a set as soon as *)
(* it holds of the smaller ones holds of all.                              *)
LEMMA SmallestSet ==
  ASSUME NEW S, IsFiniteSet(S), NEW Q \in SUBSET (SUBSET S), Q # {}
  PROVE  \E T \in Q : \A U \in Q : ~(U \subseteq T /\ U # T)
<1> DEFINE N == {Cardinality(x) : x \in Q}
<1>1. \A T \in Q : IsFiniteSet(T) /\ Cardinality(T) \in Nat
  BY FS_Subset, FS_CardinalityType
<1>2. N \subseteq Nat BY <1>1
<1>3. N # {} OBVIOUS
<1>4. PICK n \in N : \A m \in N : ~(m < n)
  <2> HIDE DEF N
  <2> QED BY <1>2, <1>3, LeastNumber
<1>5. PICK T \in Q : Cardinality(T) = n OBVIOUS
<1>6. ASSUME NEW U \in Q, U \subseteq T, U # T PROVE FALSE
  <2>1. Cardinality(U) < Cardinality(T) BY <1>1, <1>6, FS_Subset
  <2> QED BY <1>4, <1>5, <2>1
<1> QED BY <1>6

(* The element MapThenSumSet takes out first.                              *)
Pick(S) == CHOOSE x \in S : TRUE

(* g adds up f over every part of S, taking out one element at a time.     *)
AddsUp(g, f, S) ==
  g = [T \in SUBSET S |-> IF T = {} THEN 0 ELSE f[Pick(T)] + g[T \ {Pick(T)}]]

(* Two ways of adding up the same numbers agree on every part.             *)
LEMMA AddsUpUnique ==
  ASSUME NEW S, IsFiniteSet(S), NEW f, NEW R, S \subseteq R,
         NEW g, AddsUp(g, f, S), NEW h, AddsUp(h, f, R)
  PROVE  \A T \in SUBSET S : g[T] = h[T]
<1> DEFINE Q == {T \in SUBSET S : g[T] # h[T]}
<1>1. SUFFICES ASSUME Q # {} PROVE FALSE OBVIOUS
<1>2. PICK T \in Q : \A U \in Q : ~(U \subseteq T /\ U # T)
  <2>1. Q \in SUBSET (SUBSET S) OBVIOUS
  <2> HIDE DEF Q
  <2> QED BY <1>1, <2>1, SmallestSet
<1>3. g[T] = IF T = {} THEN 0 ELSE f[Pick(T)] + g[T \ {Pick(T)}] BY DEF AddsUp
<1>4. h[T] = IF T = {} THEN 0 ELSE f[Pick(T)] + h[T \ {Pick(T)}] BY DEF AddsUp
<1>5. T # {} BY <1>3, <1>4
<1>6. Pick(T) \in T BY <1>5 DEF Pick
<1>7. g[T \ {Pick(T)}] = h[T \ {Pick(T)}] BY <1>2, <1>6
<1> QED BY <1>3, <1>4, <1>5, <1>7

(* Any numbers can be added up: were there a set of which this fails, it   *)
(* would fail of a smallest one, all of whose smaller parts can.           *)
LEMMA AddsUpExists ==
  ASSUME NEW S, IsFiniteSet(S), NEW f
  PROVE  \E g : AddsUp(g, f, S)
<1> DEFINE Q == {T \in SUBSET S : ~ \E g : AddsUp(g, f, T)}
<1>1. SUFFICES ASSUME Q # {} PROVE FALSE BY Zenon
<1>2. PICK T \in Q : \A U \in Q : ~(U \subseteq T /\ U # T)
  <2>1. Q \in SUBSET (SUBSET S) OBVIOUS
  <2> HIDE DEF Q
  <2> QED BY <1>1, <2>1, SmallestSet
<1> DEFINE G(U) == CHOOSE g : AddsUp(g, f, U)
<1>3. \A U \in SUBSET T : U # T => AddsUp(G(U), f, U) BY <1>2
<1> DEFINE g == [U \in SUBSET T |-> IF U = {} THEN 0
                                    ELSE f[Pick(U)] + G(U \ {Pick(U)})[U \ {Pick(U)}]]
<1>4. \A U \in SUBSET T : IsFiniteSet(U) BY FS_Subset
<1> HIDE DEF G
<1>5. ASSUME NEW U \in SUBSET T, U # T
      PROVE  g[U] = G(U)[U]
  <2>1. G(U)[U] = IF U = {} THEN 0 ELSE f[Pick(U)] + G(U)[U \ {Pick(U)}]
    BY <1>3, <1>5 DEF AddsUp
  <2>2. CASE U = {} BY <2>1, <2>2
  <2>3. CASE U # {}
    <3> DEFINE V == U \ {Pick(U)}
    <3>1. V \in SUBSET U /\ V \in SUBSET T /\ V # T BY <1>5
    <3>2. AddsUp(G(V), f, V) /\ AddsUp(G(U), f, U) /\ IsFiniteSet(V)
      BY <1>3, <1>4, <1>5, <3>1
    <3>3. G(V)[V] = G(U)[V]
      <4> HIDE DEF V
      <4> QED BY <3>1, <3>2, AddsUpUnique
    <3> QED BY <2>1, <2>3, <3>3
  <2> QED BY <2>2, <2>3
<1>6. ASSUME NEW U \in SUBSET T, U # {}
      PROVE  g[U] = f[Pick(U)] + g[U \ {Pick(U)}]
  <2>1. Pick(U) \in U BY <1>6 DEF Pick
  <2>2. U \ {Pick(U)} \in SUBSET T /\ U \ {Pick(U)} # T BY <2>1
  <2>3. g[U \ {Pick(U)}] = G(U \ {Pick(U)})[U \ {Pick(U)}] BY <1>5, <2>2, Zenon
  <2> QED BY <1>6, <2>3
<1>7. g = [U \in SUBSET T |-> IF U = {} THEN 0 ELSE f[Pick(U)] + g[U \ {Pick(U)}]]
  BY <1>6
<1>8. AddsUp(g, f, T)
  <2> HIDE DEF g
  <2> QED BY <1>7, Zenon DEF AddsUp
<1> QED BY <1>2, <1>8, Zenon

(* SumOf is such a sum.                                                    *)
LEMMA SumAddsUp ==
  ASSUME NEW S, IsFiniteSet(S), NEW f, NEW g, AddsUp(g, f, S)
  PROVE  SumOf(f, S) = g[S]
<1> DEFINE h == CHOOSE h : h = [T \in SUBSET S |->
                  IF T = {} THEN 0
                  ELSE f[CHOOSE x \in T : TRUE] + h[T \ {CHOOSE x \in T : TRUE}]]
<1>1. SumOf(f, S) = h[S] BY DEF SumOf, MapThenSumSet, MapThenFoldSet
<1>2. AddsUp(h, f, S) BY Zenon DEF AddsUp, Pick
<1> HIDE DEF h
<1> QED BY <1>1, <1>2, AddsUpUnique

(* The sum over no elements.                                               *)
LEMMA SumEmpty == ASSUME NEW f PROVE SumOf(f, {}) = 0
<1>1. IsFiniteSet({}) BY FS_EmptySet
<1>2. PICK g : AddsUp(g, f, {}) BY <1>1, AddsUpExists
<1>3. g[{}] = 0 BY <1>2 DEF AddsUp
<1> QED BY <1>1, <1>2, <1>3, SumAddsUp

(* One element, the picked one, taken out of a sum.                        *)
LEMMA SumPick ==
  ASSUME NEW S, IsFiniteSet(S), S # {}, NEW f
  PROVE  Pick(S) \in S /\ SumOf(f, S) = f[Pick(S)] + SumOf(f, S \ {Pick(S)})
<1> DEFINE x == Pick(S)
           U == S \ {x}
<1>1. x \in S BY DEF Pick
<1>2. PICK g : AddsUp(g, f, S) BY AddsUpExists
<1>3. IsFiniteSet(U) BY FS_Subset
<1>4. PICK h : AddsUp(h, f, U) BY <1>3, AddsUpExists
<1> HIDE DEF x
<1>5. h[U] = g[U]
  <2>1. U \subseteq S /\ U \in SUBSET U OBVIOUS
  <2> HIDE DEF U
  <2> QED BY <1>2, <1>3, <1>4, <2>1, AddsUpUnique
<1>6. g[S] = f[x] + g[U] BY <1>2 DEF AddsUp, x
<1>7. SumOf(f, S) = g[S] BY <1>2, SumAddsUp
<1>8. SumOf(f, U) = h[U] BY <1>3, <1>4, SumAddsUp
<1> QED BY <1>1, <1>5, <1>6, <1>7, <1>8 DEF x

(* A sum of integers is an integer.                                        *)
LEMMA SumInt ==
  ASSUME NEW S, IsFiniteSet(S), NEW f, \A x \in S : f[x] \in Int
  PROVE  SumOf(f, S) \in Int
<1> DEFINE Q == {T \in SUBSET S : SumOf(f, T) \notin Int}
<1>1. SUFFICES ASSUME Q # {} PROVE FALSE OBVIOUS
<1>2. PICK T \in Q : \A U \in Q : ~(U \subseteq T /\ U # T)
  <2>1. Q \in SUBSET (SUBSET S) OBVIOUS
  <2> HIDE DEF Q
  <2> QED BY <1>1, <2>1, SmallestSet
<1>3. IsFiniteSet(T) BY FS_Subset
<1>4. T # {} BY SumEmpty
<1>5. Pick(T) \in T /\ SumOf(f, T) = f[Pick(T)] + SumOf(f, T \ {Pick(T)})
  BY <1>3, <1>4, SumPick
<1>6. SumOf(f, T \ {Pick(T)}) \in Int BY <1>2, <1>5
<1> QED BY <1>5, <1>6

(* Any element can be taken out of a sum, not just the picked one.         *)
LEMMA SumRemove ==
  ASSUME NEW S, IsFiniteSet(S), NEW f, \A x \in S : f[x] \in Int, NEW r \in S
  PROVE  SumOf(f, S) = f[r] + SumOf(f, S \ {r})
<1> DEFINE Splits(T) == \A q \in T : SumOf(f, T) = f[q] + SumOf(f, T \ {q})
           Q == {T \in SUBSET S : ~Splits(T)}
<1>1. SUFFICES ASSUME Q # {} PROVE FALSE OBVIOUS
<1>2. PICK T \in Q : \A U \in Q : ~(U \subseteq T /\ U # T)
  <2>1. Q \in SUBSET (SUBSET S) OBVIOUS
  <2> HIDE DEF Q
  <2> QED BY <1>1, <2>1, SmallestSet
<1>3. PICK q \in T : SumOf(f, T) # f[q] + SumOf(f, T \ {q}) BY <1>2
<1> DEFINE x == Pick(T)
           U == (T \ {x}) \ {q}
<1>4. x \in T /\ SumOf(f, T) = f[x] + SumOf(f, T \ {x})
  BY <1>3, SumPick, FS_Subset
<1> HIDE DEF x
<1>5. x # q BY <1>3, <1>4
<1>6. U = (T \ {q}) \ {x} OBVIOUS
<1>7. Splits(T \ {x}) /\ Splits(T \ {q}) BY <1>2, <1>4
<1> HIDE DEF U
<1>8. SumOf(f, T \ {x}) = f[q] + SumOf(f, U) BY <1>5, <1>7 DEF U
<1>9. SumOf(f, T \ {q}) = f[x] + SumOf(f, U)
  <2>1. x \in T \ {q} BY <1>4, <1>5
  <2> QED BY <1>6, <1>7, <2>1
<1>10. SumOf(f, U) \in Int
  <2>1. U \subseteq S BY DEF U
  <2> QED BY <2>1, SumInt, FS_Subset
<1>11. f[x] \in Int /\ f[q] \in Int BY <1>4
<1> QED BY <1>3, <1>4, <1>8, <1>9, <1>10, <1>11

(* Equal summands have equal sums.                                         *)
LEMMA SumSame ==
  ASSUME NEW S, IsFiniteSet(S), NEW f, NEW g, \A x \in S : f[x] = g[x]
  PROVE  SumOf(f, S) = SumOf(g, S)
<1> DEFINE Q == {T \in SUBSET S : SumOf(f, T) # SumOf(g, T)}
<1>1. SUFFICES ASSUME Q # {} PROVE FALSE OBVIOUS
<1>2. PICK T \in Q : \A U \in Q : ~(U \subseteq T /\ U # T)
  <2>1. Q \in SUBSET (SUBSET S) OBVIOUS
  <2> HIDE DEF Q
  <2> QED BY <1>1, <2>1, SmallestSet
<1>3. IsFiniteSet(T) BY FS_Subset
<1>4. T # {} BY SumEmpty
<1>5. /\ Pick(T) \in T
      /\ SumOf(f, T) = f[Pick(T)] + SumOf(f, T \ {Pick(T)})
      /\ SumOf(g, T) = g[Pick(T)] + SumOf(g, T \ {Pick(T)})
  BY <1>3, <1>4, SumPick
<1>6. SumOf(f, T \ {Pick(T)}) = SumOf(g, T \ {Pick(T)}) BY <1>2, <1>5
<1> QED BY <1>2, <1>5, <1>6

(* The sum of sums.                                                        *)
LEMMA SumAdd ==
  ASSUME NEW S, IsFiniteSet(S), NEW f, NEW g, NEW h,
         \A x \in S : f[x] \in Int /\ g[x] \in Int /\ h[x] = f[x] + g[x]
  PROVE  SumOf(h, S) = SumOf(f, S) + SumOf(g, S)
<1> DEFINE Q == {T \in SUBSET S : SumOf(h, T) # SumOf(f, T) + SumOf(g, T)}
<1>1. SUFFICES ASSUME Q # {} PROVE FALSE OBVIOUS
<1>2. PICK T \in Q : \A U \in Q : ~(U \subseteq T /\ U # T)
  <2>1. Q \in SUBSET (SUBSET S) OBVIOUS
  <2> HIDE DEF Q
  <2> QED BY <1>1, <2>1, SmallestSet
<1>3. IsFiniteSet(T) /\ IsFiniteSet(T \ {Pick(T)}) BY FS_Subset
<1>4. T # {}
  <2>1. SumOf(f, {}) = 0 /\ SumOf(g, {}) = 0 /\ SumOf(h, {}) = 0 BY SumEmpty
  <2>2. SumOf(h, {}) = SumOf(f, {}) + SumOf(g, {}) BY <2>1
  <2>3. SumOf(h, T) # SumOf(f, T) + SumOf(g, T) BY <1>2
  <2> QED BY <2>2, <2>3, Zenon
<1>5. /\ Pick(T) \in T
      /\ SumOf(f, T) = f[Pick(T)] + SumOf(f, T \ {Pick(T)})
      /\ SumOf(g, T) = g[Pick(T)] + SumOf(g, T \ {Pick(T)})
      /\ SumOf(h, T) = h[Pick(T)] + SumOf(h, T \ {Pick(T)})
  BY <1>3, <1>4, SumPick
<1>6. SumOf(h, T \ {Pick(T)}) = SumOf(f, T \ {Pick(T)}) + SumOf(g, T \ {Pick(T)})
  BY <1>2, <1>5
<1>7. SumOf(f, T \ {Pick(T)}) \in Int /\ SumOf(g, T \ {Pick(T)}) \in Int
  BY <1>3, SumInt
<1> QED BY <1>2, <1>5, <1>6, <1>7

(* Changing one summand changes the sum by as much.                        *)
LEMMA SumChanges ==
  ASSUME NEW S, IsFiniteSet(S), NEW f, NEW g, NEW r \in S, NEW d \in Int,
         \A x \in S : f[x] \in Int,
         g[r] = f[r] + d, \A x \in S \ {r} : g[x] = f[x]
  PROVE  SumOf(g, S) = SumOf(f, S) + d
<1>1. IsFiniteSet(S \ {r}) BY FS_Subset
<1>2. SumOf(f, S \ {r}) \in Int BY <1>1, SumInt
<1>3. SumOf(g, S \ {r}) = SumOf(f, S \ {r}) BY <1>1, SumSame
<1>4. SumOf(f, S) = f[r] + SumOf(f, S \ {r}) BY SumRemove
<1>5. \A x \in S : g[x] \in Int OBVIOUS
<1>6. SumOf(g, S) = g[r] + SumOf(g, S \ {r}) BY <1>5, SumRemove
<1>7. f[r] \in Int OBVIOUS
<1> QED BY <1>2, <1>3, <1>4, <1>6, <1>7

(***************************************************************************)
(* The money: wallets, and the ledger rows of transactions.                *)
(***************************************************************************)

(* A transaction row is created for lease l.                               *)
Issues(r, l) ==
  /\ status[r] = "none"
  /\ leaseOf' = [leaseOf EXCEPT ![r] = l]
  /\ UNCHANGED <<debit, credit, fee, wallet>>

(* Landlord and platform are credited n and f for transaction r.           *)
Credits(r, n, f) ==
  /\ status[r] # "none"
  /\ credit' = [credit EXCEPT ![r] = @ + n]
  /\ fee' = [fee EXCEPT ![r] = @ + f]
  /\ wallet' = [wallet EXCEPT ![Owner[leaseOf[r]]] = @ + n]
  /\ UNCHANGED leaseOf

(* A reference that was not issued has no ledger rows.                     *)
Blank == \A r \in Refs : status[r] = "none" => credit[r] = 0 /\ fee[r] = 0 /\ debit[r] = 0

(* A request past the reconciliation holds an amount.                      *)
KnowsAmount ==
  \A h \in Handlers : pc[h] \in {"document", "gate", "commit"} => amt[h] \in Nat

(* Of a natural number of cents the platform's share is no more than all.  *)
LEMMA ShareIsPart ==
  ASSUME NEW a \in Nat, NEW p \in 0 .. 100
  PROVE  (a * p + 50) \div 100 \in 0 .. a
<1>1. a * p \in Nat /\ a * p <= a * 100
  <2>1. a * (100 - p) \in Nat
    OBVIOUS
  <2>2. a * p + a * (100 - p) = a * 100
    OBVIOUS
  <2>3. a * p \in Nat
    OBVIOUS
  <2>4. QED
    BY <2>1, <2>2, <2>3
<1> DEFINE x == a * p
<1>2. x \in Nat /\ x <= a * 100
  BY <1>1
<1> HIDE DEF x
<1>3. (x + 50) \div 100 \in 0 .. a
  BY <1>2
<1>4. QED
  BY <1>3 DEF x

(* The fee is rounded to the cent: off by half of one at most.             *)
LEMMA FeeIsRounded ==
  ASSUME NEW a \in Nat
  PROVE  /\ FeeOf(a) \in 0 .. a
         /\ 100 * FeeOf(a) - a * FeePercent \in -49 .. 50
<1>1. FeeOf(a) \in 0 .. a
  BY ConstantsAssumption, ShareIsPart DEF FeeOf
<1> DEFINE x == a * FeePercent
<1>2. x \in Nat
  BY ConstantsAssumption
<1> HIDE DEF x
<1>3. 100 * ((x + 50) \div 100) - x \in -49 .. 50
  BY <1>2
<1>4. QED
  BY <1>1, <1>3 DEF x, FeeOf

(* The amount is known once the lease has been read.                       *)
LEMMA KnowsAmountStep ==
  ASSUME TypeOK, Issued, KnowsAmount, [Next]_vars PROVE KnowsAmount'
<1> USE DEF KnowsAmount
<1>1. CASE UNCHANGED vars
  BY <1>1 DEF KnowsAmount
<1>2. ASSUME NEW h \in Handlers, NEW l \in Leases, InitializeReadLease(h, l)
      PROVE  KnowsAmount'
  BY <1>2 DEF InitializeReadLease, Goto, TypeOK, RequestTypes
<1>3. ASSUME NEW h \in Handlers, InitializeReadApplication(h)
      PROVE  KnowsAmount'
  BY <1>3 DEF InitializeReadApplication, Goto, Finish, TypeOK, RequestTypes
<1>4. ASSUME NEW h \in Handlers, InitializeReadOpen(h)
      PROVE  KnowsAmount'
  BY <1>4 DEF InitializeReadOpen, Goto, Finish, TypeOK, RequestTypes
<1>5. ASSUME NEW h \in Handlers, InitializeCreate(h)
      PROVE  KnowsAmount'
  BY <1>5 DEF InitializeCreate, Goto, TypeOK, RequestTypes
<1>6. ASSUME NEW h \in Handlers, InitializeCheckout(h)
      PROVE  KnowsAmount'
  BY <1>6 DEF InitializeCheckout, Goto, Finish, TypeOK, RequestTypes
<1>7. ASSUME NEW h \in Handlers, InitializeUndo(h)
      PROVE  KnowsAmount'
  BY <1>7 DEF InitializeUndo, Finish, Goto, TypeOK, RequestTypes
<1>8. ASSUME NEW h \in Handlers, NEW r \in Refs, WebhookStart(h, r)
      PROVE  KnowsAmount'
  BY <1>8 DEF WebhookStart, Goto, TypeOK, RequestTypes
<1>9. ASSUME NEW r \in Refs, WebhookUnknown(r)
      PROVE  KnowsAmount'
  BY <1>9 DEF WebhookUnknown, TypeOK, RequestTypes
<1>10. ASSUME NEW h \in Handlers, WebhookAck(h)
       PROVE  KnowsAmount'
  BY <1>10 DEF WebhookAck, Finish, Goto, TypeOK, RequestTypes
<1>11. ASSUME NEW h \in Handlers, NEW r \in Refs, VerifyStart(h, r)
       PROVE  KnowsAmount'
  BY <1>11 DEF VerifyStart, Goto, TypeOK, RequestTypes
<1>12. ASSUME NEW h \in Handlers, VerifyAsk(h)
       PROVE  KnowsAmount'
  BY <1>12 DEF VerifyAsk, Goto, Finish, TypeOK, RequestTypes
<1>13. ASSUME NEW h \in Handlers, ReadLease(h)
       PROVE  KnowsAmount'
  <2> DEFINE l == leaseOf[cur[h]]
  <2>1. l \in Leases
    BY <1>13 DEF ReadLease, Issued, Rows, Hands, Holding, RequestTypes, TypeOK
  <2>2. AmountToSettle(h, l) \in Nat
    BY <2>1, AmountToSettleType
  <2> HIDE DEF l
  <2>3. \/ pc' = [pc EXCEPT ![h] = "fail"] /\ amt' = amt
        \/ amt' = [amt EXCEPT ![h] = AmountToSettle(h, l)]
    BY <1>13 DEF ReadLease, Goto, l
  <2>4. \A k \in Handlers \ {h} : pc'[k] = pc[k]
    BY <1>13 DEF ReadLease, Goto, TypeOK, RequestTypes
  <2>5. QED
    BY <2>2, <2>3, <2>4 DEF TypeOK, RequestTypes
<1>14. ASSUME NEW h \in Handlers, MarkFailed(h)
       PROVE  KnowsAmount'
  BY <1>14 DEF MarkFailed, Answer, Finish, Goto, TypeOK, RequestTypes
<1>15. ASSUME NEW h \in Handlers, GenerateDocument(h)
       PROVE  KnowsAmount'
  BY <1>15 DEF GenerateDocument, Goto, TypeOK, RequestTypes
<1>16. ASSUME NEW h \in Handlers, RpcGate(h)
       PROVE  KnowsAmount'
  BY <1>16 DEF RpcGate, Answer, Finish, Goto, TypeOK, RequestTypes
<1>17. ASSUME NEW h \in Handlers, RpcCommit(h)
       PROVE  KnowsAmount'
  BY <1>17 DEF RpcCommit, Answer, Finish, Goto, Settle, TypeOK, RequestTypes
<1>18. ASSUME NEW r \in Refs, NEW p \in SplitPercents, Split(r, p)
       PROVE  KnowsAmount'
  BY <1>18 DEF Split, TypeOK, RequestTypes
<1>19. ASSUME NEW h \in Handlers, Die(h)
       PROVE  KnowsAmount'
  BY <1>19 DEF Die, Finish, Goto, TypeOK, RequestTypes
<1>20. ASSUME NEW r \in Refs, NEW a \in Amounts, CustomerPays(r, a)
       PROVE  KnowsAmount'
  BY <1>20 DEF CustomerPays, TypeOK, RequestTypes
<1>21. QED
  BY <1>1, <1>2, <1>3, <1>4, <1>5, <1>6, <1>7, <1>8, <1>9, <1>10,
     <1>11, <1>12, <1>13, <1>14, <1>15, <1>16, <1>17, <1>18, <1>19,
     <1>20
     DEF Next, HandlerStep

(* What a transaction is for is a natural number of cents.                 *)
Counted == \A r \in Refs : amount[r] \in Nat

(* A request that settles holds a transaction that was issued, for an      *)
(* amount in cents.                                                        *)
LEMMA CommitHolds ==
  ASSUME TypeOK, Issued, KnowsAmount, NEW h \in Handlers, RpcCommit(h)
  PROVE  /\ cur[h] \in Refs /\ status[cur[h]] # "none"
         /\ leaseOf[cur[h]] \in Leases /\ amt[h] \in Nat
  BY DEF RpcCommit, Issued, Rows, Hands, Holding, KnowsAmount, TypeOK, RequestTypes

(* Every step leaves the money alone, issues a transaction, or credits     *)
(* what a transaction was settled or split for.                            *)
LEMMA MoneySteps ==
  ASSUME TypeOK, Issued, KnowsAmount, Counted, [Next]_vars
  PROVE  \/ UNCHANGED <<leaseOf, debit, credit, fee, wallet>>
         \/ \E r \in Refs, l \in Leases : Issues(r, l)
         \/ \E r \in Refs, n, f \in Nat :
              /\ Credits(r, n, f)
              /\ debit' \in {debit, [debit EXCEPT ![r] = @ + (n + f)]}
<1>1. ASSUME NEW h \in Handlers, InitializeCreate(h)
      PROVE  \E r \in Refs, l \in Leases : Issues(r, l)
  <2>1. lease[h] \in Leases
    BY <1>1 DEF InitializeCreate, Issued, Hands
  <2>2. QED
    BY <1>1, <2>1 DEF InitializeCreate, Issues
<1>2. ASSUME NEW h \in Handlers, RpcCommit(h)
      PROVE  \E r \in Refs, n, f \in Nat :
               Credits(r, n, f) /\ debit' = [debit EXCEPT ![r] = @ + (n + f)]
  <2>1. FeeOf(amt[h]) \in 0 .. amt[h]
    BY <1>2, CommitHolds, FeeIsRounded
  <2> DEFINE n == amt[h] - FeeOf(amt[h])
             f == FeeOf(amt[h])
  <2>2. n \in Nat /\ f \in Nat /\ n + f = amt[h]
    BY <1>2, <2>1, CommitHolds
  <2>3. Credits(cur[h], n, f)
    BY <1>2, CommitHolds DEF RpcCommit, Settle, Credits
  <2>4. debit' = [debit EXCEPT ![cur[h]] = @ + amt[h]]
    BY <1>2 DEF RpcCommit, Settle
  <2> HIDE DEF n, f
  <2>5. debit' = [debit EXCEPT ![cur[h]] = @ + (n + f)]
    BY <2>2, <2>4
  <2>6. cur[h] \in Refs
    BY <1>2, CommitHolds
  <2>7. QED
    BY <2>2, <2>3, <2>5, <2>6, ZenonT(60)
<1>3. ASSUME NEW r \in Refs, NEW p \in SplitPercents, Split(r, p)
      PROVE  \E n, f \in Nat : Credits(r, n, f) /\ debit' = debit
  <2>1. amount[r] \in Nat /\ 100 - p \in 0 .. 100
    BY ConstantsAssumption DEF Counted
  <2>2. SplitFee(r, p) \in 0 .. amount[r]
    BY <2>1, ShareIsPart DEF SplitFee
  <2>3. amount[r] - SplitFee(r, p) \in Nat /\ SplitFee(r, p) \in Nat
    BY <2>1, <2>2
  <2>4. Credits(r, amount[r] - SplitFee(r, p), SplitFee(r, p)) /\ debit' = debit
    BY <1>3 DEF Split, Credits
  <2>5. QED
    BY <2>3, <2>4
<1>4. CASE UNCHANGED <<leaseOf, debit, credit, fee, wallet>>
  BY <1>4
<1>5. \/ \E h \in Handlers : InitializeCreate(h) \/ RpcCommit(h)
      \/ \E r \in Refs, p \in SplitPercents : Split(r, p)
      \/ UNCHANGED <<leaseOf, debit, credit, fee, wallet>>
  BY DEF Next, HandlerStep, InitializeReadLease, InitializeReadApplication,
     InitializeReadOpen, InitializeCheckout, InitializeUndo, WebhookStart,
     WebhookUnknown, WebhookAck, VerifyStart, VerifyAsk, ReadLease, MarkFailed,
     GenerateDocument, RpcGate, Die, CustomerPays
<1>6. QED
  BY <1>1, <1>2, <1>3, <1>4, <1>5, Zenon

(* Only creation and settlement set the amount of a transaction.           *)
LEMMA CountedStep ==
  ASSUME TypeOK, Issued, KnowsAmount, Counted, [Next]_vars PROVE Counted'
<1>1. ASSUME NEW h \in Handlers, InitializeCreate(h) PROVE Counted'
  BY <1>1, ConstantsAssumption, SMTT(60)
     DEF InitializeCreate, Counted, Issued, Hands, TypeOK, DatabaseTypes
<1>2. ASSUME NEW h \in Handlers, RpcCommit(h) PROVE Counted'
  BY <1>2, CommitHolds DEF RpcCommit, Settle, Counted, TypeOK, DatabaseTypes
<1>3. CASE UNCHANGED amount
  BY <1>3 DEF Counted
<1>4. QED
  BY <1>1, <1>2, <1>3
     DEF Next, HandlerStep, InitializeReadLease, InitializeReadApplication,
     InitializeReadOpen, InitializeCheckout, InitializeUndo, WebhookStart,
     WebhookUnknown, WebhookAck, VerifyStart, VerifyAsk, ReadLease, MarkFailed,
     GenerateDocument, RpcGate, Split, Die, CustomerPays

(* No transaction is taken back.                                           *)
LEMMA IssuedIsKept ==
  ASSUME TypeOK, Issued, [Next]_vars, NEW r \in Refs, status'[r] = "none"
  PROVE  status[r] = "none"
<1>1. Issued'
  BY RowsStep, HandsStep DEF Issued
<1>2. leaseOf'[r] = NoLease
  BY <1>1 DEF Issued, Rows
<1>3. QED
  BY <1>2, LeaseIsKept, ConstantsAssumption

(* Ledger rows are written for transactions that exist.                    *)
LEMMA BlankStep ==
  ASSUME TypeOK, Issued, KnowsAmount, Counted, Blank, [Next]_vars PROVE Blank'
<1> SUFFICES ASSUME NEW r \in Refs, status'[r] = "none"
             PROVE  credit'[r] = 0 /\ fee'[r] = 0 /\ debit'[r] = 0
  BY DEF Blank
<1>1. status[r] = "none" /\ credit[r] = 0 /\ fee[r] = 0 /\ debit[r] = 0
  BY IssuedIsKept DEF Blank
<1>2. CASE UNCHANGED <<debit, credit, fee>>
  BY <1>1, <1>2
<1>3. ASSUME NEW q \in Refs, NEW n \in Nat, NEW f \in Nat, Credits(q, n, f),
             debit' \in {debit, [debit EXCEPT ![q] = @ + (n + f)]}
      PROVE  credit'[r] = 0 /\ fee'[r] = 0 /\ debit'[r] = 0
  <2>1. q # r
    BY <1>1, <1>3 DEF Credits
  <2>2. QED
    BY <1>1, <1>3, <2>1 DEF Credits, TypeOK, DatabaseTypes
<1>4. QED
  BY <1>2, <1>3, MoneySteps DEF Issues

(* The books: what the money lemmas need to know of requests and rows.     *)
Books == KnowsAmount /\ Counted /\ Blank

LEMMA BooksKept == Spec => []Books
<1>1. Init => Books
  BY DEF Init, Books, KnowsAmount, Counted, Blank
<1>2. TypeOK /\ Issued /\ Books /\ [Next]_vars => Books'
  BY KnowsAmountStep, CountedStep, BlankStep DEF Books
<1>3. QED
  BY <1>1, <1>2, TypeCorrect, PTL DEF Spec

(* A landlord's transactions are finitely many.                            *)
LEMMA TransactionsAreFinite ==
  ASSUME NEW o PROVE IsFiniteSet(TransactionsOf(o)) /\ TransactionsOf(o) \subseteq Refs
<1>1. IsFiniteSet(Refs)
  BY ConstantsAssumption, FS_Interval DEF Refs
<1>2. QED
  BY <1>1, FS_Subset DEF TransactionsOf

(* A step that credits a transaction adds as much to the wallet of the     *)
(* landlord it is for as to the sum of their ledger rows, and creating a   *)
(* transaction adds a row of nothing.                                      *)
LEMMA WalletStep ==
  ASSUME TypeOK, Issued, Books, WalletMatchesLedger, [Next]_vars
  PROVE  WalletMatchesLedger'
<1> SUFFICES ASSUME NEW o \in Landlords
             PROVE  wallet'[o] = SumOf(credit', TransactionsOf(o)')
  BY DEF WalletMatchesLedger
<1> DEFINE S == TransactionsOf(o)
<1>1. wallet[o] = SumOf(credit, S) /\ IsFiniteSet(S) /\ S \subseteq Refs
  BY TransactionsAreFinite DEF WalletMatchesLedger
<1>2. \A r \in Refs : credit[r] \in Int
  BY DEF TypeOK, DatabaseTypes
<1>3. CASE UNCHANGED <<leaseOf, credit, wallet>>
  BY <1>1, <1>3 DEF TransactionsOf
<1>4. ASSUME NEW r \in Refs, NEW l \in Leases, Issues(r, l)
      PROVE  wallet'[o] = SumOf(credit', TransactionsOf(o)')
  <2>1. leaseOf[r] = NoLease /\ credit[r] = 0 /\ r \notin S
    BY <1>4, ConstantsAssumption DEF Issues, Issued, Rows, Books, Blank, TransactionsOf
  <2>2. TransactionsOf(o)' = S \/ TransactionsOf(o)' = S \cup {r}
    BY <1>4, <2>1 DEF Issues, TransactionsOf, TypeOK, DatabaseTypes
  <2>3. SumOf(credit, S \cup {r}) = SumOf(credit, S)
    <3> HIDE DEF S
    <3>1. IsFiniteSet(S \cup {r}) /\ (S \cup {r}) \ {r} = S
      BY <1>1, <2>1, FS_AddElement
    <3>2. SumOf(credit, S \cup {r}) = credit[r] + SumOf(credit, S)
      BY <1>1, <1>2, <3>1, SumRemove
    <3>3. SumOf(credit, S) \in Int
      BY <1>1, <1>2, SumInt
    <3>4. QED
      BY <2>1, <3>2, <3>3
  <2>4. UNCHANGED <<credit, wallet>>
    BY <1>4 DEF Issues
  <2>5. QED
    BY <1>1, <2>2, <2>3, <2>4
<1>5. ASSUME NEW r \in Refs, NEW n \in Nat, NEW f \in Nat, Credits(r, n, f)
      PROVE  wallet'[o] = SumOf(credit', TransactionsOf(o)')
  <2>1. TransactionsOf(o)' = S
    BY <1>5 DEF Credits, TransactionsOf
  <2>2. leaseOf[r] \in Leases /\ Owner[leaseOf[r]] \in Landlords
    BY <1>5, ConstantsAssumption DEF Credits, Issued, Rows
  <2>3. credit'[r] = credit[r] + n /\ \A q \in Refs \ {r} : credit'[q] = credit[q]
    BY <1>5 DEF Credits, TypeOK, DatabaseTypes
  <2>4. CASE Owner[leaseOf[r]] = o
    <3>1. r \in S
      BY <2>2, <2>4 DEF TransactionsOf
    <3>2. wallet'[o] = wallet[o] + n
      BY <1>5, <2>4 DEF Credits, TypeOK, DatabaseTypes
    <3> HIDE DEF S
    <3>3. SumOf(credit', S) = SumOf(credit, S) + n
      <4>1. \A q \in S : credit[q] \in Int
        BY <1>1, <1>2
      <4>2. \A q \in S \ {r} : credit'[q] = credit[q]
        BY <1>1, <2>3
      <4>3. QED
        BY <1>1, <2>3, <3>1, <4>1, <4>2, SumChanges
    <3>4. QED
      BY <1>1, <2>1, <3>2, <3>3
  <2>5. CASE Owner[leaseOf[r]] # o
    <3>1. r \notin S
      BY <2>5 DEF TransactionsOf
    <3>2. wallet'[o] = wallet[o]
      BY <1>5, <2>5 DEF Credits, TypeOK, DatabaseTypes
    <3> HIDE DEF S
    <3>3. SumOf(credit', S) = SumOf(credit, S)
      <4>1. \A q \in S : credit'[q] = credit[q]
        BY <1>1, <2>3, <3>1
      <4>2. QED
        BY <1>1, <4>1, SumSame
    <3>4. QED
      BY <1>1, <2>1, <3>2, <3>3
  <2>6. QED
    BY <2>4, <2>5
<1>6. QED
  BY <1>3, <1>4, <1>5, MoneySteps DEF Books

(* The books of a landlord whose transactions balance one by one.          *)
LEMMA AccountsOfBalances ==
  ASSUME TypeOK, WalletMatchesLedger, LedgerBalances PROVE AccountsBalance
<1> SUFFICES ASSUME NEW o \in Landlords
             PROVE  wallet[o] + SumOf(fee, TransactionsOf(o)) = SumOf(debit, TransactionsOf(o))
  BY DEF AccountsBalance
<1> DEFINE S == TransactionsOf(o)
<1>1. IsFiniteSet(S) /\ S \subseteq Refs
  BY TransactionsAreFinite
<1>2. \A r \in S : credit[r] \in Int /\ fee[r] \in Int /\ debit[r] = credit[r] + fee[r]
  BY <1>1 DEF LedgerBalances, TypeOK, DatabaseTypes
<1>3. SumOf(debit, S) = SumOf(credit, S) + SumOf(fee, S)
  <2> HIDE DEF S
  <2>1. QED
    BY <1>1, <1>2, SumAdd
<1>4. QED
  BY <1>3 DEF WalletMatchesLedger

(* Where a request has passed the reconciliation.                          *)
Settling == {"document", "gate", "commit"}

(* What it will settle is the rent and what was charged, within a unit.    *)
Agrees(a, r) == a \in Nat /\ a + 1 >= Rent[leaseOf[r]] /\ a <= charge[r] + 1
Reckoned == \A h \in Handlers : pc[h] \in Settling => Agrees(amt[h], cur[h])

(* It stays so while the request goes on: the lease of a transaction does  *)
(* not change, and what was charged is charged.                            *)
LEMMA ReckonedKept ==
  ASSUME TypeOK, Issued, Reconciled, Reckoned, [Next]_vars, NEW k \in Handlers,
         pc[k] \in Settling, cur'[k] = cur[k], amt'[k] = amt[k]
  PROVE  Agrees(amt[k], cur[k])'
<1>1. PICK r \in Refs : r = cur[k] /\ status[r] # "none"
  BY DEF Issued, Hands, Holding, Settling, TypeOK, RequestTypes
<1>2. leaseOf'[r] = leaseOf[r]
  BY <1>1, LeaseIsKept
<1>3. charge[r] > 0
  BY <1>1 DEF Reconciled, Settling, Paid
<1>4. charge'[r] = charge[r]
  BY <1>3, LedgerSteps DEF InitializeCreate, RpcCommit, CustomerPays, TypeOK, GatewayTypes
<1>5. Agrees(amt[k], r)
  BY <1>1 DEF Reckoned
<1>6. QED
  BY <1>1, <1>2, <1>4, <1>5 DEF Agrees

(* The reconciliation accepts one unit less than the rent, and a webhook then*)
(* settles the rent.                                                       *)
LEMMA ReckonedStep ==
  ASSUME TypeOK, Issued, Reconciled, Reckoned, [Next]_vars PROVE Reckoned'
<1>1. CASE UNCHANGED vars
  BY <1>1 DEF Reckoned, Agrees
<1>2. ASSUME NEW h \in Handlers, NEW l \in Leases, InitializeReadLease(h, l)
      PROVE  Reckoned'
  <2>1. \A k \in Handlers : pc'[k] \in Settling =>
          pc[k] \in Settling /\ cur'[k] = cur[k] /\ amt'[k] = amt[k]
    BY <1>2 DEF InitializeReadLease, Goto, Settling, TypeOK, RequestTypes
  <2>2. QED
    BY <2>1, ReckonedKept DEF Reckoned
<1>3. ASSUME NEW h \in Handlers, InitializeReadApplication(h)
      PROVE  Reckoned'
  <2>1. \A k \in Handlers : pc'[k] \in Settling =>
          pc[k] \in Settling /\ cur'[k] = cur[k] /\ amt'[k] = amt[k]
    BY <1>3 DEF InitializeReadApplication, Goto, Finish, Settling, TypeOK, RequestTypes
  <2>2. QED
    BY <2>1, ReckonedKept DEF Reckoned
<1>4. ASSUME NEW h \in Handlers, InitializeReadOpen(h)
      PROVE  Reckoned'
  <2>1. \A k \in Handlers : pc'[k] \in Settling =>
          pc[k] \in Settling /\ cur'[k] = cur[k] /\ amt'[k] = amt[k]
    BY <1>4 DEF InitializeReadOpen, Goto, Finish, Settling, TypeOK, RequestTypes
  <2>2. QED
    BY <2>1, ReckonedKept DEF Reckoned
<1>5. ASSUME NEW h \in Handlers, InitializeCreate(h)
      PROVE  Reckoned'
  <2>1. \A k \in Handlers : pc'[k] \in Settling =>
          pc[k] \in Settling /\ cur'[k] = cur[k] /\ amt'[k] = amt[k]
    BY <1>5 DEF InitializeCreate, Goto, Settling, TypeOK, RequestTypes
  <2>2. QED
    BY <2>1, ReckonedKept DEF Reckoned
<1>6. ASSUME NEW h \in Handlers, InitializeCheckout(h)
      PROVE  Reckoned'
  <2>1. \A k \in Handlers : pc'[k] \in Settling =>
          pc[k] \in Settling /\ cur'[k] = cur[k] /\ amt'[k] = amt[k]
    BY <1>6 DEF InitializeCheckout, Goto, Finish, Settling, TypeOK, RequestTypes
  <2>2. QED
    BY <2>1, ReckonedKept DEF Reckoned
<1>7. ASSUME NEW h \in Handlers, InitializeUndo(h)
      PROVE  Reckoned'
  <2>1. \A k \in Handlers : pc'[k] \in Settling =>
          pc[k] \in Settling /\ cur'[k] = cur[k] /\ amt'[k] = amt[k]
    BY <1>7 DEF InitializeUndo, Finish, Goto, Settling, TypeOK, RequestTypes
  <2>2. QED
    BY <2>1, ReckonedKept DEF Reckoned
<1>8. ASSUME NEW h \in Handlers, NEW r \in Refs, WebhookStart(h, r)
      PROVE  Reckoned'
  <2>1. \A k \in Handlers : pc'[k] \in Settling =>
          pc[k] \in Settling /\ cur'[k] = cur[k] /\ amt'[k] = amt[k]
    BY <1>8 DEF WebhookStart, Goto, Settling, TypeOK, RequestTypes
  <2>2. QED
    BY <2>1, ReckonedKept DEF Reckoned
<1>9. ASSUME NEW r \in Refs, WebhookUnknown(r)
      PROVE  Reckoned'
  <2>1. \A k \in Handlers : pc'[k] \in Settling =>
          pc[k] \in Settling /\ cur'[k] = cur[k] /\ amt'[k] = amt[k]
    BY <1>9 DEF WebhookUnknown, Settling, TypeOK, RequestTypes
  <2>2. QED
    BY <2>1, ReckonedKept DEF Reckoned
<1>10. ASSUME NEW h \in Handlers, WebhookAck(h)
       PROVE  Reckoned'
  <2>1. \A k \in Handlers : pc'[k] \in Settling =>
          pc[k] \in Settling /\ cur'[k] = cur[k] /\ amt'[k] = amt[k]
    BY <1>10 DEF WebhookAck, Finish, Goto, Settling, TypeOK, RequestTypes
  <2>2. QED
    BY <2>1, ReckonedKept DEF Reckoned
<1>11. ASSUME NEW h \in Handlers, NEW r \in Refs, VerifyStart(h, r)
       PROVE  Reckoned'
  <2>1. \A k \in Handlers : pc'[k] \in Settling =>
          pc[k] \in Settling /\ cur'[k] = cur[k] /\ amt'[k] = amt[k]
    BY <1>11 DEF VerifyStart, Goto, Settling, TypeOK, RequestTypes
  <2>2. QED
    BY <2>1, ReckonedKept DEF Reckoned
<1>12. ASSUME NEW h \in Handlers, VerifyAsk(h)
       PROVE  Reckoned'
  <2>1. \A k \in Handlers : pc'[k] \in Settling =>
          pc[k] \in Settling /\ cur'[k] = cur[k] /\ amt'[k] = amt[k]
    BY <1>12 DEF VerifyAsk, Goto, Finish, Settling, TypeOK, RequestTypes
  <2>2. QED
    BY <2>1, ReckonedKept DEF Reckoned
<1>13. ASSUME NEW h \in Handlers, ReadLease(h)
       PROVE  Reckoned'
  <2> DEFINE l == leaseOf[cur[h]]
             a == AmountToSettle(h, l)
  <2>1. PICK r \in Refs : r = cur[h] /\ l \in Leases
    BY <1>13 DEF ReadLease, Issued, Rows, Hands, Holding, TypeOK, RequestTypes
  <2>2. amt[h] = charge[r] /\ charge[r] > 0 /\ charge[r] \in Nat
    BY <1>13, <2>1 DEF ReadLease, Reconciled, TypeOK, GatewayTypes
  <2>3. ASSUME ~Short(amt[h], l) PROVE Agrees(a, r)
    <3>1. a \in {Rent[l], amt[h]} /\ Rent[l] \in Nat
      BY <2>1, ConstantsAssumption DEF AmountToSettle
    <3>2. amt[h] + 1 >= Rent[l]
      BY <2>2, <2>3, <3>1 DEF Short
    <3> HIDE DEF a
    <3>3. QED
      BY <2>1, <2>2, <3>1, <3>2 DEF Agrees
  <2>4. UNCHANGED <<leaseOf, charge, cur>>
    BY <1>13 DEF ReadLease
  <2>5. \A k \in Handlers \ {h} : pc'[k] = pc[k] /\ cur'[k] = cur[k] /\ amt'[k] = amt[k]
    BY <1>13 DEF ReadLease, Goto, TypeOK, RequestTypes
  <2>6. \/ Short(amt[h], l) /\ pc'[h] = "fail"
        \/ ~Short(amt[h], l) /\ amt'[h] = a
    BY <1>13, <2>2 DEF ReadLease, Goto, NoAmount, TypeOK, RequestTypes
  <2> HIDE DEF a, l
  <2>7. pc'[h] \in Settling => Agrees(amt[h], cur[h])'
    BY <2>1, <2>3, <2>4, <2>6 DEF Settling, Agrees
  <2>8. QED
    BY <2>5, <2>7, ReckonedKept DEF Reckoned
<1>14. ASSUME NEW h \in Handlers, MarkFailed(h)
       PROVE  Reckoned'
  <2>1. \A k \in Handlers : pc'[k] \in Settling =>
          pc[k] \in Settling /\ cur'[k] = cur[k] /\ amt'[k] = amt[k]
    BY <1>14 DEF MarkFailed, Answer, Finish, Goto, Settling, TypeOK, RequestTypes
  <2>2. QED
    BY <2>1, ReckonedKept DEF Reckoned
<1>15. ASSUME NEW h \in Handlers, GenerateDocument(h)
       PROVE  Reckoned'
  <2>1. \A k \in Handlers : pc'[k] \in Settling =>
          pc[k] \in Settling /\ cur'[k] = cur[k] /\ amt'[k] = amt[k]
    BY <1>15 DEF GenerateDocument, Goto, Settling, TypeOK, RequestTypes
  <2>2. QED
    BY <2>1, ReckonedKept DEF Reckoned
<1>16. ASSUME NEW h \in Handlers, RpcGate(h)
       PROVE  Reckoned'
  <2>1. \A k \in Handlers : pc'[k] \in Settling =>
          pc[k] \in Settling /\ cur'[k] = cur[k] /\ amt'[k] = amt[k]
    BY <1>16 DEF RpcGate, Answer, Finish, Goto, Settling, TypeOK, RequestTypes
  <2>2. QED
    BY <2>1, ReckonedKept DEF Reckoned
<1>17. ASSUME NEW h \in Handlers, RpcCommit(h)
       PROVE  Reckoned'
  <2>1. \A k \in Handlers : pc'[k] \in Settling =>
          pc[k] \in Settling /\ cur'[k] = cur[k] /\ amt'[k] = amt[k]
    BY <1>17 DEF RpcCommit, Answer, Finish, Goto, Settle, Settling, TypeOK, RequestTypes
  <2>2. QED
    BY <2>1, ReckonedKept DEF Reckoned
<1>18. ASSUME NEW r \in Refs, NEW p \in SplitPercents, Split(r, p)
       PROVE  Reckoned'
  <2>1. \A k \in Handlers : pc'[k] \in Settling =>
          pc[k] \in Settling /\ cur'[k] = cur[k] /\ amt'[k] = amt[k]
    BY <1>18 DEF Split, Settling, TypeOK, RequestTypes
  <2>2. QED
    BY <2>1, ReckonedKept DEF Reckoned
<1>19. ASSUME NEW h \in Handlers, Die(h)
       PROVE  Reckoned'
  <2>1. \A k \in Handlers : pc'[k] \in Settling =>
          pc[k] \in Settling /\ cur'[k] = cur[k] /\ amt'[k] = amt[k]
    BY <1>19 DEF Die, Finish, Goto, Settling, TypeOK, RequestTypes
  <2>2. QED
    BY <2>1, ReckonedKept DEF Reckoned
<1>20. ASSUME NEW r \in Refs, NEW a \in Amounts, CustomerPays(r, a)
       PROVE  Reckoned'
  <2>1. \A k \in Handlers : pc'[k] \in Settling =>
          pc[k] \in Settling /\ cur'[k] = cur[k] /\ amt'[k] = amt[k]
    BY <1>20 DEF CustomerPays, Settling, TypeOK, RequestTypes
  <2>2. QED
    BY <2>1, ReckonedKept DEF Reckoned
<1>21. QED
  BY <1>1, <1>2, <1>3, <1>4, <1>5, <1>6, <1>7, <1>8, <1>9, <1>10,
     <1>11, <1>12, <1>13, <1>14, <1>15, <1>16, <1>17, <1>18, <1>19,
     <1>20
     DEF Next, HandlerStep

(* Rows are written with the count of debits.                              *)
Undebited == \A r \in Refs : debits[r] = 0 => debit[r] = 0

LEMMA UndebitedStep ==
  ASSUME TypeOK, Issued, Undebited, [Next]_vars PROVE Undebited'
<1>1. ASSUME NEW h \in Handlers, RpcCommit(h) PROVE Undebited'
  BY <1>1 DEF RpcCommit, Settle, Undebited, TypeOK, DatabaseTypes
<1>2. CASE UNCHANGED <<debits, debit>>
  BY <1>2 DEF Undebited
<1>3. QED
  BY <1>1, <1>2
     DEF Next, HandlerStep, InitializeReadLease, InitializeReadApplication,
     InitializeReadOpen, InitializeCreate, InitializeCheckout, InitializeUndo,
     WebhookStart, WebhookUnknown, WebhookAck, VerifyStart, VerifyAsk, ReadLease,
     MarkFailed, GenerateDocument, RpcGate, Split, Die, CustomerPays

(* A transaction is debited once, by a request that agrees with it; later  *)
(* nothing changes what it was for or what was charged.                    *)
LEMMA DebitIsReconciledStep ==
  ASSUME TypeOK, Issued, Exclusive, Reckoned, Undebited, DebitIsCharged, DebitIsReconciled,
         [Next]_vars
  PROVE  DebitIsReconciled'
<1>1. ASSUME NEW h \in Handlers, RpcCommit(h) PROVE DebitIsReconciled'
  <2>1. PICK r \in Refs : r = cur[h] /\ pc[h] = "commit"
    BY <1>1 DEF RpcCommit, Issued, Hands, Holding, TypeOK, RequestTypes
  <2>2. Agrees(amt[h], r) /\ debits[r] = 0 /\ debit[r] = 0
    BY <2>1 DEF Reckoned, Settling, Exclusive, Unsettled, Holding, Undebited
  <2>3. debit'[r] = amt[h] /\ UNCHANGED <<leaseOf, charge>>
    BY <1>1, <2>1, <2>2 DEF RpcCommit, Settle, Agrees, TypeOK, DatabaseTypes
  <2>4. \A q \in Refs \ {r} : debits'[q] = debits[q] /\ debit'[q] = debit[q]
    BY <1>1, <2>1 DEF RpcCommit, Settle, TypeOK, DatabaseTypes
  <2>5. QED
    BY <2>2, <2>3, <2>4 DEF DebitIsReconciled, Agrees
<1>2. ASSUME NEW h \in Handlers, InitializeCreate(h) PROVE DebitIsReconciled'
  BY <1>2 DEF InitializeCreate, DebitIsReconciled, Issued, Rows, TypeOK, DatabaseTypes
<1>3. ASSUME NEW r \in Refs, NEW a \in Amounts, CustomerPays(r, a) PROVE DebitIsReconciled'
  BY <1>3 DEF CustomerPays, DebitIsReconciled, DebitIsCharged, Paid, TypeOK, GatewayTypes
<1>4. CASE UNCHANGED <<leaseOf, charge, debits, debit>>
  BY <1>4 DEF DebitIsReconciled
<1>5. QED
  BY <1>1, <1>2, <1>3, <1>4
     DEF Next, HandlerStep, InitializeReadLease, InitializeReadApplication,
     InitializeReadOpen, InitializeCheckout, InitializeUndo, WebhookStart,
     WebhookUnknown, WebhookAck, VerifyStart, VerifyAsk, ReadLease, MarkFailed,
     GenerateDocument, RpcGate, Split, Die

(***************************************************************************)
(* The theorems.                                                           *)
(***************************************************************************)

(* An active lease has a debit in the ledger and a completed application,  *)
(* whatever overlaps, dies, is retried or split.                           *)
THEOREM ActiveLeasesArePaid == Spec => []ActiveIsPaid
<1>1. Init => ActiveIsPaid
  BY DEF Init, ActiveIsPaid
<1>2. TypeOK /\ Issued /\ ActiveIsPaid /\ [Next]_vars => ActiveIsPaid'
  BY ActiveIsPaidStep
<1>3. QED
  BY <1>1, <1>2, TypeCorrect, PTL DEF Spec

(* When the gateway names the reference and reports the amount, the ledger *)
(* debits only what was charged for the rent of the lease.                 *)
THEOREM DebitsAreCharged ==
  ASSUME ReportsAmount, NamesReference
  PROVE  Spec => []DebitIsCharged
<1> DEFINE Inv == Reconciled /\ DebitIsCharged
<1>1. Init => Inv
  BY DEF Init, Reconciled, DebitIsCharged
<1>2. TypeOK /\ Issued /\ Inv /\ [Next]_vars => Inv'
  BY ReconciledStep, DebitIsChargedStep
<1>3. Inv => DebitIsCharged
  OBVIOUS
<1> HIDE DEF Inv
<1>4. QED
  BY <1>1, <1>2, <1>3, TypeCorrect, PTL DEF Spec

(* Beside that, without splits, a payment in full is acknowledged only when*)
(* its lease is active: redelivery ends when there is nothing left to do.  *)
THEOREM AckedLeasesAreActive ==
  ASSUME ReportsAmount, NamesReference, SplitPercents = {}
  PROVE  Spec => []AckedIsActive
<1> DEFINE Inv == /\ Reconciled /\ LaterPayment /\ SettledIsActive
                  /\ Acknowledging /\ AckedIsCharged /\ AckedIsActive
<1>1. Init => Inv
  BY DEF Init, Reconciled, LaterPayment, SettledIsActive, Acknowledging,
         AckedIsCharged, AckedIsActive, SettledStatuses
<1>2. TypeOK /\ Issued /\ Inv /\ [Next]_vars => Inv'
  BY ReconciledStep, LaterPaymentStep, SettledIsActiveStep, AcknowledgingStep,
     AckedIsChargedStep, AckedIsActiveStep
<1>3. Inv => AckedIsActive
  OBVIOUS
<1> HIDE DEF Inv
<1>4. QED
  BY <1>1, <1>2, <1>3, TypeCorrect, PTL DEF Spec

(* Every payment's ledger rows balance, however often the race settles it. *)
THEOREM LedgerAlwaysBalances ==
  ASSUME SplitPercents = {} PROVE Spec => []LedgerBalances
<1>1. Init => LedgerBalances
  BY DEF Init, LedgerBalances
<1>2. TypeOK /\ Issued /\ LedgerBalances /\ [Next]_vars => LedgerBalances'
  BY BalanceStep
<1>3. QED
  BY <1>1, <1>2, TypeCorrect, PTL DEF Spec

(* A debit belongs to a lease somebody was charged for, whatever events    *)
(* name, gateways remember and administrators split.                       *)
THEOREM DebitsAreOfCharges == Spec => []DebitIsOfLease
<1>1. Init => Backed /\ DebitIsOfLease
  BY DEF Init, Backed, Backing, DebitIsOfLease
<1>2. TypeOK /\ Issued /\ (Backed /\ DebitIsOfLease) /\ [Next]_vars => (Backed /\ DebitIsOfLease)'
  BY BackedStep, DebitIsOfLeaseStep
<1>3. QED
  BY <1>1, <1>2, TypeCorrect, PTL DEF Spec

(* However initialize requests overlap, retry and die, a lease never has   *)
(* more transactions open or about to be created than requests are in      *)
(* flight.                                                                 *)
THEOREM OpenTransactionsAreBounded ==
  ASSUME IsFiniteSet(Handlers)
  PROVE  Spec => []OpenPerRequest
<1>1. Init => OpenPerRequest
  <2> SUFFICES ASSUME Init, NEW l \in Leases
               PROVE  Cardinality(OpenOf(l)) + Cardinality(Creating(l)) <= Cardinality(Handlers)
    BY DEF OpenPerRequest
  <2>1. OpenOf(l) = {} /\ Creating(l) = {}
    BY DEF Init, OpenOf, OpenStatuses, Creating
  <2>2. Cardinality(Handlers) \in Nat
    BY FS_CardinalityType
  <2>3. QED
    BY <2>1, <2>2, FS_EmptySet
<1>2. TypeOK /\ Issued /\ OpenPerRequest /\ [Next]_vars => OpenPerRequest'
  BY OpenPerRequestStep
<1>3. QED
  BY <1>1, <1>2, TypeCorrect, PTL DEF Spec

(* Without a request that died, an open transaction has a checkout or will *)
(* have one, or is about to be closed.                                     *)
THEOREM OpenTransactionsArePayable == Spec => []OpenIsPayable
<1>1. Init => OpenIsPayable
  BY DEF Init, OpenIsPayable, OpenStatuses
<1>2. TypeOK /\ Issued /\ OpenIsPayable /\ [Next]_vars => OpenIsPayable'
  BY OpenIsPayableStep
<1>3. QED
  BY <1>1, <1>2, TypeCorrect, PTL DEF Spec

(* A landlord's wallet is the sum of what the ledger credits for the       *)
(* leases they own, with overlapping settlements, splits and crashes: what *)
(* is wrong with a payment settled twice is in both.                       *)
THEOREM WalletsMatchTheLedger == Spec => []WalletMatchesLedger
<1>1. Init => WalletMatchesLedger
  <2> SUFFICES ASSUME Init, NEW o \in Landlords
               PROVE  SumOf(credit, TransactionsOf(o)) = 0 /\ wallet[o] = 0
    BY DEF WalletMatchesLedger
  <2>1. TransactionsOf(o) = {}
    BY ConstantsAssumption DEF Init, TransactionsOf
  <2>2. QED
    BY <2>1, SumEmpty DEF Init
<1>2. TypeOK /\ Issued /\ Books /\ WalletMatchesLedger /\ [Next]_vars => WalletMatchesLedger'
  BY WalletStep
<1>3. QED
  BY <1>1, <1>2, TypeCorrect, BooksKept, PTL DEF Spec

(* Without splits, what the renters of a landlord were debited is in the   *)
(* wallet or was kept by the platform, to the cent.                        *)
THEOREM AccountsAreBalanced == ASSUME SplitPercents = {} PROVE Spec => []AccountsBalance
<1>1. TypeOK /\ WalletMatchesLedger /\ LedgerBalances => AccountsBalance
  BY AccountsOfBalances
<1>2. Spec => []LedgerBalances
  BY LedgerAlwaysBalances
<1>3. QED
  BY <1>1, <1>2, TypeCorrect, WalletsMatchTheLedger, PTL

(* No settlement or split takes money out of a wallet, for every amount    *)
(* and every percentage: a rounded fee is never more than what is paid.    *)
THEOREM BalancesOnlyGrow == Spec => BalancesGrow
<1> DEFINE Grows == \A o \in Landlords : wallet'[o] >= wallet[o]
<1>1. TypeOK /\ Issued /\ Books /\ [Next]_vars => [Grows]_vars
  <2> SUFFICES ASSUME TypeOK, Issued, Books, Next PROVE Grows
    OBVIOUS
  <2>1. ASSUME NEW r \in Refs, NEW n \in Nat, NEW f \in Nat, Credits(r, n, f) PROVE Grows
    BY <2>1 DEF Credits, TypeOK, DatabaseTypes
  <2>2. CASE UNCHANGED wallet
    BY <2>2 DEF TypeOK, DatabaseTypes
  <2>3. QED
    BY <2>1, <2>2, MoneySteps DEF Issues, Books
<1> HIDE DEF Grows
<1>2. Spec => [][Grows]_vars
  BY <1>1, TypeCorrect, BooksKept, PTL DEF Spec
<1>3. QED
  BY <1>2 DEF BalancesGrow, Grows

(* Requests that exclude each other never settle what is settled.          *)
LEMMA Exclusion == ASSUME ~Overlap PROVE Spec => []Exclusive
<1>1. Init => Exclusive
  BY DEF Init, Exclusive, Disjoint, Unsettled, DebitedIsSettled, Holding
<1>2. TypeOK /\ Issued /\ Exclusive /\ [Next]_vars => Exclusive'
  BY DisjointStep, UnsettledStep, DebitedIsSettledStep DEF Exclusive
<1>3. QED
  BY <1>1, <1>2, TypeCorrect, PTL DEF Spec

(* With requests for one reference served one at a time, retries and       *)
(* duplicates settle a payment at most once.                               *)
THEOREM PaymentsSettleOnce == ASSUME ~Overlap PROVE Spec => []SettledOnce
<1>1. Init => SettledOnce
  BY DEF Init, SettledOnce
<1>2. TypeOK /\ Issued /\ Exclusive /\ SettledOnce /\ [Next]_vars => SettledOnce'
  <2> SUFFICES ASSUME TypeOK, Issued, Exclusive, SettledOnce, [Next]_vars
               PROVE  SettledOnce'
    OBVIOUS
  <2>1. ASSUME NEW h \in Handlers, RpcCommit(h) PROVE SettledOnce'
    BY <2>1 DEF RpcCommit, Settle, SettledOnce, Exclusive, Unsettled, Holding,
       TypeOK, DatabaseTypes, RequestTypes, Issued, Hands
  <2>2. CASE UNCHANGED debits
    BY <2>2 DEF SettledOnce
  <2>3. QED
    BY <2>1, <2>2, OnlyCommitDebits
<1>3. QED
  BY <1>1, <1>2, TypeCorrect, Exclusion, PTL DEF Spec

(* Served one at a time, a transaction is debited the rent of its lease    *)
(* and what was charged for it, within the tolerance of one unit.          *)
THEOREM DebitsAreReconciled ==
  ASSUME ~Overlap, ReportsAmount, NamesReference PROVE Spec => []DebitIsReconciled
<1> DEFINE Inv == Reconciled /\ Reckoned /\ Undebited /\ DebitIsCharged /\ DebitIsReconciled
<1>1. Init => Inv
  BY DEF Init, Reconciled, Reckoned, Settling, Undebited, DebitIsCharged, DebitIsReconciled
<1>2. TypeOK /\ Issued /\ Exclusive /\ Inv /\ [Next]_vars => Inv'
  BY ReconciledStep, ReckonedStep, UndebitedStep, DebitIsChargedStep, DebitIsReconciledStep
<1>3. Inv => DebitIsReconciled
  OBVIOUS
<1> HIDE DEF Inv
<1>4. QED
  BY <1>1, <1>2, <1>3, TypeCorrect, Exclusion, PTL DEF Spec

(* Without splits as well, nothing turns a settled transaction back.       *)
THEOREM SettledIsFinal ==
  ASSUME ~Overlap, SplitPercents = {} PROVE Spec => SettledStays
<1>1. Init => SettledIsDebited
  BY DEF Init, SettledIsDebited, SettledStatuses
<1>2. TypeOK /\ SettledIsDebited /\ [Next]_vars => SettledIsDebited'
  BY SettledIsDebitedStep
<1> DEFINE Stays == \A r \in Refs : status[r] \in SettledStatuses => status'[r] \in SettledStatuses
<1>3. TypeOK /\ Issued /\ Exclusive /\ SettledIsDebited /\ [Next]_vars => [Stays]_vars
  <2> SUFFICES ASSUME TypeOK, Issued, Exclusive, SettledIsDebited, Next
               PROVE  Stays
    OBVIOUS
  <2>1. ASSUME NEW h \in Handlers, InitializeUndo(h) \/ MarkFailed(h) PROVE Stays
    <3>1. status[cur[h]] \notin SettledStatuses
      BY <2>1 DEF InitializeUndo, MarkFailed, Exclusive, Unsettled, Holding,
         SettledIsDebited, TypeOK, RequestTypes, Issued, Hands
    <3>2. QED
      BY <2>1, <3>1 DEF InitializeUndo, MarkFailed, TypeOK, DatabaseTypes
  <2>2. ASSUME NEW h \in Handlers, InitializeCreate(h) PROVE Stays
    BY <2>2 DEF InitializeCreate, SettledStatuses, TypeOK, DatabaseTypes
  <2>3. ASSUME NEW h \in Handlers, RpcCommit(h) PROVE Stays
    BY <2>3 DEF RpcCommit, Settle, SettledStatuses, TypeOK, DatabaseTypes
  <2>4. CASE UNCHANGED status
    BY <2>4
  <2>5. QED
    BY <2>1, <2>2, <2>3, <2>4, StatusSteps
<1> HIDE DEF Stays
<1>4. Spec => [][Stays]_vars
  BY <1>1, <1>2, <1>3, TypeCorrect, Exclusion, PTL DEF Spec
<1>5. QED
  BY <1>4 DEF SettledStays, Stays

(* The flow implements PaymentLedger: creating a transaction issues its    *)
(* reference, a customer's payment charges it, and the commit of           *)
(* process_payment_atomic settles it; every other step stutters.           *)
THEOREM Refinement ==
  ASSUME ~Overlap, ReportsAmount, NamesReference PROVE Spec => ExactlyOnce
<1>1. Init => Promise!Init
  BY DEF Init, Promise!Init
<1>2. Init => Reconciled /\ LaterPayment
  BY DEF Init, Reconciled, LaterPayment
<1>3. TypeOK /\ Issued /\ Reconciled /\ LaterPayment /\ [Next]_vars
        => (Reconciled /\ LaterPayment)'
  BY ReconciledStep, LaterPaymentStep
<1>4. TypeOK /\ Issued /\ Exclusive /\ Reconciled /\ LaterPayment /\ [Next]_vars
        => [Promise!Next]_Promise!ledger
  <2> SUFFICES ASSUME TypeOK, Issued, Exclusive, Reconciled, LaterPayment, [Next]_vars
               PROVE  [Promise!Next]_Promise!ledger
    OBVIOUS
  <2>1. ASSUME NEW h \in Handlers, InitializeCreate(h)
        PROVE  Promise!Next
    <3>1. PICK r \in Refs :
            /\ status[r] = "none"
            /\ leaseOf' = [leaseOf EXCEPT ![r] = lease[h]]
      BY <2>1 DEF InitializeCreate
    <3>2. leaseOf[r] = NoLease /\ lease[h] \in Leases
      BY <2>1, <3>1 DEF InitializeCreate, Issued, Rows, Hands
    <3>3. Promise!Issue(r, lease[h])
      BY <2>1, <3>1, <3>2 DEF InitializeCreate, Promise!Issue
    <3>4. QED
      BY <3>2, <3>3 DEF Promise!Next
  <2>2. ASSUME NEW r \in Refs, NEW a \in Amounts, CustomerPays(r, a)
        PROVE  Promise!Next
    <3>1. leaseOf[r] \in Leases
      BY <2>2 DEF CustomerPays, Issued, Rows
    <3>2. Promise!Charge(r, a)
      BY <2>2, <3>1 DEF CustomerPays, Promise!Charge
    <3>3. QED
      BY <3>2 DEF Promise!Next
  <2>3. ASSUME NEW h \in Handlers, RpcCommit(h)
        PROVE  Promise!Next
    <3> DEFINE l == leaseOf[cur[h]]
    <3>1. cur[h] \in Refs /\ l \in Leases
      BY <2>3 DEF RpcCommit, Issued, Rows, Hands, Holding, TypeOK, RequestTypes
    <3>2. debits[cur[h]] = 0 /\ Paid(cur[h], l)
      BY <2>3 DEF RpcCommit, Exclusive, Unsettled, Holding, Reconciled
    <3>3. debits' = [debits EXCEPT ![cur[h]] = @ + 1]
      BY <2>3, <3>1, <3>2 DEF RpcCommit, Settle
    <3>4. {m \in Leases : active'[m]} = {m \in Leases : active[m]} \cup {l}
      <4>1. CASE first[h]
        <5>1. active' = [active EXCEPT ![l] = TRUE]
          BY <2>3, <4>1 DEF RpcCommit, Activate
        <5>2. QED
          BY <3>1, <5>1 DEF TypeOK, DatabaseTypes
      <4>2. CASE ~first[h]
        <5>1. active[l] /\ active' = active
          BY <2>3, <4>2 DEF RpcCommit, LaterPayment
        <5>2. QED
          BY <3>1, <5>1
      <4>3. QED
        BY <4>1, <4>2
    <3>5. UNCHANGED <<leaseOf, charge>>
      BY <2>3 DEF RpcCommit
    <3>6. PICK r \in Refs : r = cur[h]
      BY <3>1
    <3>7. Promise!Settle(r)
      BY <3>1, <3>2, <3>3, <3>4, <3>5, <3>6 DEF Promise!Settle, Paid
    <3>8. QED
      BY <3>7 DEF Promise!Next
  <2>4. CASE UNCHANGED <<leaseOf, charge, debits, active>>
    BY <2>4 DEF Promise!ledger
  <2>5. QED
    BY <2>1, <2>2, <2>3, <2>4, LedgerSteps
<1>5. QED
  BY <1>1, <1>2, <1>3, <1>4, TypeCorrect, Exclusion, PTL
     DEF Spec, ExactlyOnce, Promise!Spec

(* Requests that overlap weaken the promise only in the count: the commit  *)
(* of process_payment_atomic may settle a reference again, but it settles  *)
(* a charge that covers the rent and leaves the lease active.              *)
THEOREM WeakRefinement ==
  ASSUME ReportsAmount, NamesReference PROVE Spec => AtLeastOnce
<1>1. Init => WeakPromise!Init
  BY DEF Init, WeakPromise!Init
<1>2. Init => Reconciled /\ LaterPayment
  BY DEF Init, Reconciled, LaterPayment
<1>3. TypeOK /\ Issued /\ Reconciled /\ LaterPayment /\ [Next]_vars
        => (Reconciled /\ LaterPayment)'
  BY ReconciledStep, LaterPaymentStep
<1>4. TypeOK /\ Issued /\ Reconciled /\ LaterPayment /\ [Next]_vars
        => [WeakPromise!Next]_WeakPromise!ledger
  <2> SUFFICES ASSUME TypeOK, Issued, Reconciled, LaterPayment, [Next]_vars
               PROVE  [WeakPromise!Next]_WeakPromise!ledger
    OBVIOUS
  <2>1. ASSUME NEW h \in Handlers, InitializeCreate(h)
        PROVE  WeakPromise!Next
    <3>1. PICK r \in Refs :
            /\ status[r] = "none"
            /\ leaseOf' = [leaseOf EXCEPT ![r] = lease[h]]
      BY <2>1 DEF InitializeCreate
    <3>2. leaseOf[r] = NoLease /\ lease[h] \in Leases
      BY <2>1, <3>1 DEF InitializeCreate, Issued, Rows, Hands
    <3>3. WeakPromise!Issue(r, lease[h])
      BY <2>1, <3>1, <3>2 DEF InitializeCreate, WeakPromise!Issue
    <3>4. QED
      BY <3>2, <3>3 DEF WeakPromise!Next
  <2>2. ASSUME NEW r \in Refs, NEW a \in Amounts, CustomerPays(r, a)
        PROVE  WeakPromise!Next
    <3>1. leaseOf[r] \in Leases
      BY <2>2 DEF CustomerPays, Issued, Rows
    <3>2. WeakPromise!Charge(r, a)
      BY <2>2, <3>1 DEF CustomerPays, WeakPromise!Charge
    <3>3. QED
      BY <3>2 DEF WeakPromise!Next
  <2>3. ASSUME NEW h \in Handlers, RpcCommit(h)
        PROVE  WeakPromise!Next
    <3> DEFINE l == leaseOf[cur[h]]
    <3>1. cur[h] \in Refs /\ l \in Leases
      BY <2>3 DEF RpcCommit, Issued, Rows, Hands, Holding, TypeOK, RequestTypes
    <3>2. Paid(cur[h], l)
      BY <2>3 DEF RpcCommit, Reconciled
    <3>3. debits' = [debits EXCEPT ![cur[h]] = @ + 1]
      BY <2>3, <3>1, <3>2 DEF RpcCommit, Settle
    <3>4. {m \in Leases : active'[m]} = {m \in Leases : active[m]} \cup {l}
      <4>1. CASE first[h]
        <5>1. active' = [active EXCEPT ![l] = TRUE]
          BY <2>3, <4>1 DEF RpcCommit, Activate
        <5>2. QED
          BY <3>1, <5>1 DEF TypeOK, DatabaseTypes
      <4>2. CASE ~first[h]
        <5>1. active[l] /\ active' = active
          BY <2>3, <4>2 DEF RpcCommit, LaterPayment
        <5>2. QED
          BY <3>1, <5>1
      <4>3. QED
        BY <4>1, <4>2
    <3>5. UNCHANGED <<leaseOf, charge>>
      BY <2>3 DEF RpcCommit
    <3>6. PICK r \in Refs : r = cur[h]
      BY <3>1
    <3>7. WeakPromise!Settle(r)
      BY <3>1, <3>2, <3>3, <3>4, <3>5, <3>6 DEF WeakPromise!Settle, Paid
    <3>8. QED
      BY <3>7 DEF WeakPromise!Next
  <2>4. CASE UNCHANGED <<leaseOf, charge, debits, active>>
    BY <2>4 DEF WeakPromise!ledger
  <2>5. QED
    BY <2>1, <2>2, <2>3, <2>4, LedgerSteps
<1>5. QED
  BY <1>1, <1>2, <1>3, <1>4, TypeCorrect, PTL
     DEF Spec, AtLeastOnce, WeakPromise!Spec
=============================================================================
