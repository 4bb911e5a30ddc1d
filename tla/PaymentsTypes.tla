-------------------------- MODULE PaymentsTypes ---------------------------
(***************************************************************************)
(* Type correctness of Payments, for every value of the constants.  It is  *)
(* not inductive alone: what a request reads of its transaction and lease  *)
(* has a type only because the row exists.                                 *)
(***************************************************************************)
EXTENDS Payments, TLAPS

(* Where a request has a transaction in hand.                              *)
Holding == {"checkout", "undo", "ask", "lease", "fail", "document", "gate", "commit", "ack"}

(* A row is created with its lease, a checkout needs the row and a charge  *)
(* the checkout.                                                           *)
Rows ==
  \A r \in Refs :
    /\ status[r] # "none" => leaseOf[r] \in Leases
    /\ status[r] = "none" => leaseOf[r] = NoLease /\ debits[r] = 0
    /\ session[r] => status[r] # "none"
    /\ charge[r] > 0 => session[r]

(* A request knows its lease, then a transaction that exists.              *)
Hands ==
  \A h \in Handlers :
    /\ pc[h] \in {"application", "open", "create"} => lease[h] \in Leases
    /\ pc[h] \in Holding => cur[h] # NoRef
    /\ cur[h] # NoRef => status[cur[h]] # "none"

Issued == Rows /\ Hands

(* Which variables the tuples of the next-state relation stand for.        *)
USE DEF vars, txnVars, ledgerVars, leaseVars, gatewayVars, localVars

(* A request moves only between the places of PCs.                         *)
LEMMA GotoTypes ==
  ASSUME RequestTypes, NEW h \in Handlers, NEW p \in PCs, Goto(h, p)
  PROVE  pc' \in [Handlers -> PCs]
  BY DEF RequestTypes, Goto

(* Answering a request resets its locals.                                  *)
LEMMA FinishTypes ==
  ASSUME RequestTypes, NEW h \in Handlers, Finish(h), faults' \in 0 .. MaxFaults
  PROVE  RequestTypes'
  BY DEF RequestTypes, Finish, Goto, PCs

(* After its last database call a request is answered or about to be.      *)
LEMMA AnswerTypes ==
  ASSUME RequestTypes, NEW h \in Handlers, Answer(h), UNCHANGED faults
  PROVE  RequestTypes'
<1>1. CASE kind[h] = "webhook"
  BY <1>1, GotoTypes DEF RequestTypes, Answer, PCs
<1>2. CASE kind[h] # "webhook"
  BY <1>2, FinishTypes DEF RequestTypes, Answer
<1>3. QED
  BY <1>1, <1>2

(* What is settled is the rent or what was reported: a natural number.     *)
LEMMA AmountToSettleType ==
  ASSUME TypeOK, NEW h \in Handlers, NEW l \in Leases
  PROVE  AmountToSettle(h, l) \in Nat
  BY ConstantsAssumption DEF AmountToSettle, TypeOK, RequestTypes, NoAmount

(* A balance that is credited stays a number.                              *)
LEMMA IncrementType ==
  ASSUME NEW S, NEW f \in [S -> Int], NEW o \in S, NEW d \in Int
  PROVE  [f EXCEPT ![o] = @ + d] \in [S -> Int]
  OBVIOUS

(* The writes of process_payment_atomic keep the database's types.         *)
LEMMA SettleTypes ==
  ASSUME DatabaseTypes, NEW r \in Refs, leaseOf[r] \in Leases,
         NEW a \in Int, Settle(r, a)
  PROVE  /\ status' \in [Refs -> Statuses]
         /\ amount' \in [Refs -> Int]
         /\ debits' \in [Refs -> Nat]
         /\ debit' \in [Refs -> Int]
         /\ credit' \in [Refs -> Int]
         /\ fee' \in [Refs -> Int]
         /\ wallet' \in [Landlords -> Int]
<1>1. FeeOf(a) \in Int
  BY ConstantsAssumption DEF FeeOf
<1> DEFINE o == Owner[leaseOf[r]]
<1>2. wallet' = [wallet EXCEPT ![o] = @ + (a - FeeOf(a))]
  BY DEF Settle
<1>3. wallet' \in [Landlords -> Int]
  <2>1. o \in Landlords
    BY ConstantsAssumption
  <2> HIDE DEF o
  <2>2. QED
    BY <1>1, <1>2, <2>1, IncrementType DEF DatabaseTypes
<1>4. QED
  BY <1>1, <1>3 DEF DatabaseTypes, Settle, Statuses, SettledStatuses

(* Activation completes the application and may attach the document.       *)
LEMMA ActivateTypes ==
  ASSUME DatabaseTypes, NEW l \in Leases, NEW u \in BOOLEAN, Activate(l, u)
  PROVE  /\ active' \in [Leases -> BOOLEAN]
         /\ contract' \in [Leases -> {"signatures", "document"}]
         /\ application' \in [Leases -> {"approved_pending_payment", "completed"}]
  BY DEF DatabaseTypes, Activate

(* A handler's steps keep the types, given what it holds.                  *)
LEMMA TypeStep ==
  ASSUME TypeOK, Issued, [Next]_vars PROVE TypeOK'
<1> USE DEF TypeOK
<1>1. CASE UNCHANGED vars
  BY <1>1 DEF DatabaseTypes, GatewayTypes, RequestTypes
<1>2. ASSUME NEW h \in Handlers, NEW l \in Leases, InitializeReadLease(h, l)
      PROVE  TypeOK'
  <2>1. DatabaseTypes' /\ GatewayTypes'
    BY <1>2 DEF DatabaseTypes, GatewayTypes, InitializeReadLease
  <2>2. RequestTypes'
    BY <1>2, GotoTypes DEF RequestTypes, InitializeReadLease, PCs
  <2>3. QED BY <2>1, <2>2
<1>3. ASSUME NEW h \in Handlers, InitializeReadApplication(h)
      PROVE  TypeOK'
  <2>1. DatabaseTypes' /\ GatewayTypes'
    BY <1>3 DEF DatabaseTypes, GatewayTypes, InitializeReadApplication
  <2>2. CASE Finish(h)
    BY <1>3, <2>1, <2>2, FinishTypes DEF InitializeReadApplication, RequestTypes
  <2>3. CASE Goto(h, "open") /\ UNCHANGED localVars
        BY <1>3, <2>1, <2>3, GotoTypes DEF InitializeReadApplication,
       RequestTypes, PCs
  <2>4. QED BY <1>3, <2>2, <2>3 DEF InitializeReadApplication
<1>4. ASSUME NEW h \in Handlers, InitializeReadOpen(h)
      PROVE  TypeOK'
  <2>1. DatabaseTypes' /\ GatewayTypes'
    BY <1>4 DEF DatabaseTypes, GatewayTypes, InitializeReadOpen
  <2>2. CASE Finish(h)
    BY <1>4, <2>1, <2>2, FinishTypes DEF InitializeReadOpen, RequestTypes
  <2>3. CASE Goto(h, "create") /\ UNCHANGED localVars
    BY <1>4, <2>1, <2>3, GotoTypes DEF InitializeReadOpen, RequestTypes, PCs
  <2>4. QED BY <1>4, <2>2, <2>3 DEF InitializeReadOpen
<1>5. ASSUME NEW h \in Handlers, InitializeCreate(h)
      PROVE  TypeOK'
  <2>1. PICK r \in Refs :
          /\ status' = [status EXCEPT ![r] = "initialized"]
          /\ leaseOf' = [leaseOf EXCEPT ![r] = lease[h]]
          /\ amount' = [amount EXCEPT ![r] = Rent[lease[h]]]
          /\ cur' = [cur EXCEPT ![h] = r]
    BY <1>5 DEF InitializeCreate
  <2>2. lease[h] \in Leases /\ Rent[lease[h]] \in Int
    BY <1>5, ConstantsAssumption DEF InitializeCreate, Issued, Hands
  <2>3. DatabaseTypes' /\ GatewayTypes'
    BY <1>5, <2>1, <2>2
       DEF DatabaseTypes, GatewayTypes, InitializeCreate, Statuses, OpenStatuses
  <2>4. RequestTypes'
    BY <1>5, <2>1, GotoTypes DEF RequestTypes, InitializeCreate, PCs
  <2>5. QED BY <2>3, <2>4
<1>6. ASSUME NEW h \in Handlers, InitializeCheckout(h)
      PROVE  TypeOK'
  <2>1. DatabaseTypes' /\ GatewayTypes'
    BY <1>6 DEF DatabaseTypes, GatewayTypes, InitializeCheckout
  <2>2. CASE Finish(h)
    BY <1>6, <2>1, <2>2, FinishTypes DEF InitializeCheckout, RequestTypes
  <2>3. CASE Goto(h, "undo") /\ UNCHANGED localVars
    BY <1>6, <2>1, <2>3, GotoTypes DEF InitializeCheckout, RequestTypes, PCs
  <2>4. QED BY <1>6, <2>2, <2>3 DEF InitializeCheckout
<1>7. ASSUME NEW h \in Handlers, InitializeUndo(h)
      PROVE  TypeOK'
  <2>1. DatabaseTypes' /\ GatewayTypes'
    BY <1>7 DEF DatabaseTypes, GatewayTypes, InitializeUndo, Statuses
  <2>2. RequestTypes'
    BY <1>7, FinishTypes DEF InitializeUndo, RequestTypes
  <2>3. QED BY <2>1, <2>2
<1>8. ASSUME NEW h \in Handlers, NEW r \in Refs, WebhookStart(h, r)
      PROVE  TypeOK'
  <2>1. DatabaseTypes' /\ GatewayTypes'
    BY <1>8 DEF DatabaseTypes, GatewayTypes, WebhookStart
  <2>2. PICK t \in Refs :
          /\ Goto(h, IF Coerce(status[t]) = "succeeded" THEN "ack" ELSE "lease")
          /\ cur' = [cur EXCEPT ![h] = t]
    BY <1>8 DEF WebhookStart, TargetOf, NewestOpen, OpenOf
  <2>3. pc' \in [Handlers -> PCs]
    BY <2>2, GotoTypes DEF PCs
  <2>4. Reported(r) \in Nat \cup {NoAmount}
    BY DEF Reported, GatewayTypes
  <2>5. RequestTypes'
    BY <1>8, <2>2, <2>3, <2>4 DEF RequestTypes, WebhookStart
  <2>6. QED BY <2>1, <2>5
<1>9. ASSUME NEW r \in Refs, WebhookUnknown(r)
      PROVE  TypeOK'
  BY <1>9 DEF DatabaseTypes, GatewayTypes, RequestTypes, WebhookUnknown
<1>10. ASSUME NEW h \in Handlers, WebhookAck(h)
       PROVE  TypeOK'
  <2>1. DatabaseTypes' /\ GatewayTypes'
    BY <1>10 DEF DatabaseTypes, GatewayTypes, WebhookAck
  <2>2. RequestTypes'
    BY <1>10, FinishTypes DEF WebhookAck, RequestTypes
  <2>3. QED BY <2>1, <2>2
<1>11. ASSUME NEW h \in Handlers, NEW r \in Refs, VerifyStart(h, r)
       PROVE  TypeOK'
  <2>1. DatabaseTypes' /\ GatewayTypes'
    BY <1>11 DEF DatabaseTypes, GatewayTypes, VerifyStart
  <2>2. RequestTypes'
    BY <1>11, GotoTypes DEF RequestTypes, VerifyStart, PCs
  <2>3. QED BY <2>1, <2>2
<1>12. ASSUME NEW h \in Handlers, VerifyAsk(h)
       PROVE  TypeOK'
  <2>1. DatabaseTypes' /\ GatewayTypes'
    BY <1>12 DEF DatabaseTypes, GatewayTypes, VerifyAsk
  <2>2. CASE Finish(h)
    BY <1>12, <2>1, <2>2, FinishTypes DEF VerifyAsk, RequestTypes
  <2>3. CASE Goto(h, "fail") /\ UNCHANGED localVars
    BY <1>12, <2>1, <2>3, GotoTypes DEF VerifyAsk, RequestTypes, PCs
  <2>4. CASE /\ Goto(h, "lease")
             /\ amt' = [amt EXCEPT ![h] = Reported(cur[h])]
             /\ UNCHANGED <<kind, cur, evt, lease, first, path>>
    <3>1. cur[h] \in Refs
      BY <1>12 DEF VerifyAsk, Issued, Hands, Holding, RequestTypes
    <3>2. Reported(cur[h]) \in Nat \cup {NoAmount}
      BY <3>1 DEF Reported, GatewayTypes
    <3>3. QED BY <1>12, <2>1, <2>4, <3>2, GotoTypes DEF VerifyAsk, RequestTypes, PCs
  <2>5. QED BY <1>12, <2>2, <2>3, <2>4 DEF VerifyAsk
<1>13. ASSUME NEW h \in Handlers, ReadLease(h)
       PROVE  TypeOK'
  <2>1. DatabaseTypes' /\ GatewayTypes'
    BY <1>13 DEF DatabaseTypes, GatewayTypes, ReadLease
  <2>2. leaseOf[cur[h]] \in Leases
    BY <1>13 DEF ReadLease, Issued, Hands, Rows, Holding, RequestTypes
  <2>3. pc' \in [Handlers -> PCs]
    BY <1>13, GotoTypes DEF ReadLease, PCs
  <2>4. AmountToSettle(h, leaseOf[cur[h]]) \in Nat
    BY <2>2, AmountToSettleType
  <2>5. active[leaseOf[cur[h]]] \in BOOLEAN
    BY <2>2 DEF DatabaseTypes
  <2>6. first' \in [Handlers -> BOOLEAN] /\ amt' \in [Handlers -> Nat \cup {NoAmount}]
    BY <1>13, <2>4, <2>5 DEF ReadLease, RequestTypes
  <2>7. RequestTypes'
    BY <1>13, <2>3, <2>6 DEF ReadLease, RequestTypes
  <2>8. QED BY <2>1, <2>7
<1>14. ASSUME NEW h \in Handlers, MarkFailed(h)
       PROVE  TypeOK'
  <2>1. DatabaseTypes' /\ GatewayTypes'
    BY <1>14 DEF DatabaseTypes, GatewayTypes, MarkFailed, Statuses
  <2>2. RequestTypes'
    BY <1>14, AnswerTypes DEF MarkFailed
  <2>3. QED BY <2>1, <2>2
<1>15. ASSUME NEW h \in Handlers, GenerateDocument(h)
       PROVE  TypeOK'
  <2>1. DatabaseTypes' /\ GatewayTypes'
    BY <1>15 DEF DatabaseTypes, GatewayTypes, GenerateDocument
  <2>2. RequestTypes'
    BY <1>15, GotoTypes DEF GenerateDocument, RequestTypes, PCs
  <2>3. QED BY <2>1, <2>2
<1>16. ASSUME NEW h \in Handlers, RpcGate(h)
       PROVE  TypeOK'
  <2>1. DatabaseTypes' /\ GatewayTypes'
    BY <1>16 DEF DatabaseTypes, GatewayTypes, RpcGate
  <2>2. CASE Answer(h)
    BY <1>16, <2>1, <2>2, AnswerTypes DEF RpcGate
  <2>3. CASE Goto(h, "commit") /\ UNCHANGED localVars
    BY <1>16, <2>1, <2>3, GotoTypes DEF RpcGate, RequestTypes, PCs
  <2>4. QED BY <1>16, <2>2, <2>3 DEF RpcGate
<1>17. ASSUME NEW h \in Handlers, RpcCommit(h)
       PROVE  TypeOK'
  <2>1. cur[h] \in Refs /\ leaseOf[cur[h]] \in Leases /\ path[h] \in BOOLEAN
    BY <1>17 DEF RpcCommit, Issued, Hands, Rows, Holding, RequestTypes
  <2>2. amt[h] \in Int
    BY DEF RequestTypes, NoAmount
  <2>3. /\ active' \in [Leases -> BOOLEAN]
        /\ contract' \in [Leases -> {"signatures", "document"}]
        /\ application' \in [Leases -> {"approved_pending_payment", "completed"}]
    BY <1>17, <2>1, ActivateTypes DEF RpcCommit, DatabaseTypes
  <2>4. DatabaseTypes' /\ GatewayTypes'
        BY <1>17, <2>1, <2>2, <2>3, SettleTypes DEF RpcCommit, DatabaseTypes,
       GatewayTypes
  <2>5. RequestTypes'
    BY <1>17, AnswerTypes DEF RpcCommit
  <2>6. QED BY <2>4, <2>5
<1>18. ASSUME NEW r \in Refs, NEW p \in SplitPercents, Split(r, p)
       PROVE  TypeOK'
  <2>1. SplitFee(r, p) \in Int
    BY ConstantsAssumption DEF SplitFee, DatabaseTypes
  <2> DEFINE o == Owner[leaseOf[r]]
  <2>2. wallet' = [wallet EXCEPT ![o] = @ + (amount[r] - SplitFee(r, p))]
    BY <1>18 DEF Split
  <2>3. wallet' \in [Landlords -> Int]
    <3>1. o \in Landlords
      BY <1>18, ConstantsAssumption DEF Split, Issued, Rows
    <3>2. amount[r] - SplitFee(r, p) \in Int
      BY <2>1 DEF DatabaseTypes
    <3> HIDE DEF o
    <3>3. QED
      BY <2>2, <3>1, <3>2, IncrementType DEF DatabaseTypes
  <2>4. QED
    BY <1>18, <2>1, <2>3
       DEF DatabaseTypes, GatewayTypes, RequestTypes, Split, Statuses, SettledStatuses
<1>19. ASSUME NEW h \in Handlers, Die(h)
       PROVE  TypeOK'
  <2>1. DatabaseTypes' /\ GatewayTypes'
    BY <1>19 DEF DatabaseTypes, GatewayTypes, Die
  <2>2. RequestTypes'
    BY <1>19, ConstantsAssumption, FinishTypes DEF Die, RequestTypes
  <2>3. QED BY <2>1, <2>2
<1>20. ASSUME NEW r \in Refs, NEW a \in Amounts, CustomerPays(r, a)
       PROVE  TypeOK'
  BY <1>20, ConstantsAssumption
     DEF DatabaseTypes, GatewayTypes, RequestTypes, CustomerPays
<1>21. QED
  BY <1>1, <1>2, <1>3, <1>4, <1>5, <1>6, <1>7, <1>8, <1>9, <1>10, <1>11, <1>12,
     <1>13, <1>14, <1>15, <1>16, <1>17, <1>18, <1>19, <1>20
     DEF Next, HandlerStep

(* Rows are created once, with their lease, and checkouts and charges follow.*)
LEMMA RowsStep ==
  ASSUME TypeOK, Issued, [Next]_vars PROVE Rows'
<1> USE DEF Issued, Rows
<1>1. CASE UNCHANGED vars
  BY <1>1 DEF Rows
<1>2. ASSUME NEW h \in Handlers, NEW l \in Leases, InitializeReadLease(h, l)
      PROVE  Rows'
  BY <1>2 DEF InitializeReadLease
<1>3. ASSUME NEW h \in Handlers, InitializeReadApplication(h)
      PROVE  Rows'
  BY <1>3 DEF InitializeReadApplication
<1>4. ASSUME NEW h \in Handlers, InitializeReadOpen(h)
      PROVE  Rows'
  BY <1>4 DEF InitializeReadOpen
<1>5. ASSUME NEW h \in Handlers, InitializeCreate(h)
      PROVE  Rows'
  BY <1>5 DEF InitializeCreate, Hands, Holding, OpenStatuses, TypeOK,
     DatabaseTypes, RequestTypes
<1>6. ASSUME NEW h \in Handlers, InitializeCheckout(h)
      PROVE  Rows'
    BY <1>6 DEF InitializeCheckout, Hands, Holding, TypeOK, GatewayTypes,
     RequestTypes
<1>7. ASSUME NEW h \in Handlers, InitializeUndo(h)
      PROVE  Rows'
  BY <1>7 DEF InitializeUndo, Hands, Holding, TypeOK, DatabaseTypes, RequestTypes
<1>8. ASSUME NEW h \in Handlers, NEW r \in Refs, WebhookStart(h, r)
      PROVE  Rows'
  BY <1>8 DEF WebhookStart
<1>9. ASSUME NEW r \in Refs, WebhookUnknown(r)
      PROVE  Rows'
  BY <1>9 DEF WebhookUnknown
<1>10. ASSUME NEW h \in Handlers, WebhookAck(h)
       PROVE  Rows'
  BY <1>10 DEF WebhookAck
<1>11. ASSUME NEW h \in Handlers, NEW r \in Refs, VerifyStart(h, r)
       PROVE  Rows'
  BY <1>11 DEF VerifyStart
<1>12. ASSUME NEW h \in Handlers, VerifyAsk(h)
       PROVE  Rows'
  BY <1>12 DEF VerifyAsk
<1>13. ASSUME NEW h \in Handlers, ReadLease(h)
       PROVE  Rows'
  BY <1>13 DEF ReadLease
<1>14. ASSUME NEW h \in Handlers, MarkFailed(h)
       PROVE  Rows'
  BY <1>14 DEF MarkFailed, Hands, Holding, TypeOK, DatabaseTypes, RequestTypes
<1>15. ASSUME NEW h \in Handlers, GenerateDocument(h)
       PROVE  Rows'
  BY <1>15 DEF GenerateDocument
<1>16. ASSUME NEW h \in Handlers, RpcGate(h)
       PROVE  Rows'
  BY <1>16 DEF RpcGate
<1>17. ASSUME NEW h \in Handlers, RpcCommit(h)
       PROVE  Rows'
  BY <1>17 DEF RpcCommit, Hands, Holding, Settle, SettledStatuses, TypeOK,
     DatabaseTypes, RequestTypes
<1>18. ASSUME NEW r \in Refs, NEW p \in SplitPercents, Split(r, p)
       PROVE  Rows'
  BY <1>18 DEF Split, SettledStatuses, TypeOK, DatabaseTypes
<1>19. ASSUME NEW h \in Handlers, Die(h)
       PROVE  Rows'
  BY <1>19 DEF Die
<1>20. ASSUME NEW r \in Refs, NEW a \in Amounts, CustomerPays(r, a)
       PROVE  Rows'
  BY <1>20 DEF CustomerPays, TypeOK, GatewayTypes
<1>21. QED
  BY <1>1, <1>2, <1>3, <1>4, <1>5, <1>6, <1>7, <1>8, <1>9, <1>10,
     <1>11, <1>12, <1>13, <1>14, <1>15, <1>16, <1>17, <1>18, <1>19,
     <1>20
     DEF Next, HandlerStep

(* A request takes hold of rows that exist, and rows never go away.        *)
LEMMA HandsStep ==
  ASSUME TypeOK, Issued, [Next]_vars PROVE Hands'
<1> USE DEF Issued, Hands
<1>1. CASE UNCHANGED vars
  BY <1>1 DEF Hands
<1>2. ASSUME NEW h \in Handlers, NEW l \in Leases, InitializeReadLease(h, l)
      PROVE  Hands'
  BY <1>2 DEF InitializeReadLease, Goto, Holding, NoRef, TypeOK,
     RequestTypes
<1>3. ASSUME NEW h \in Handlers, InitializeReadApplication(h)
      PROVE  Hands'
  BY <1>3 DEF InitializeReadApplication, Goto, Finish, Holding, NoRef, TypeOK,
     RequestTypes
<1>4. ASSUME NEW h \in Handlers, InitializeReadOpen(h)
      PROVE  Hands'
  BY <1>4 DEF InitializeReadOpen, Goto, Finish, Holding, NoRef, TypeOK,
     RequestTypes
<1>5. ASSUME NEW h \in Handlers, InitializeCreate(h)
      PROVE  Hands'
  <2>1. PICK r \in Refs :
          /\ status' = [status EXCEPT ![r] = "initialized"]
          /\ cur' = [cur EXCEPT ![h] = r]
    BY <1>5 DEF InitializeCreate
  <2>2. pc' = [pc EXCEPT ![h] = "checkout"] /\ UNCHANGED lease
    BY <1>5 DEF InitializeCreate, Goto
  <2>3. r # NoRef
    BY DEF Refs, NoRef
  <2>4. QED
    BY <2>1, <2>2, <2>3 DEF Holding, TypeOK, DatabaseTypes, RequestTypes
<1>6. ASSUME NEW h \in Handlers, InitializeCheckout(h)
      PROVE  Hands'
  BY <1>6 DEF InitializeCheckout, Goto, Finish, Holding, NoRef, TypeOK,
     RequestTypes
<1>7. ASSUME NEW h \in Handlers, InitializeUndo(h)
      PROVE  Hands'
  BY <1>7 DEF InitializeUndo, Goto, Finish, Holding, NoRef, TypeOK,
     RequestTypes, DatabaseTypes
<1>8. ASSUME NEW h \in Handlers, NEW r \in Refs, WebhookStart(h, r)
      PROVE  Hands'
  <2>1. PICK t \in Refs :
          /\ Goto(h, IF Coerce(status[t]) = "succeeded" THEN "ack" ELSE "lease")
          /\ cur' = [cur EXCEPT ![h] = t]
          /\ status[t] # "none"
    BY <1>8 DEF WebhookStart, TargetOf, NewestOpen, OpenOf, OpenStatuses, Rows
  <2>2. t # NoRef
    BY DEF Refs, NoRef
  <2>3. pc'[h] \in {"ack", "lease"} /\ \A g \in Handlers \ {h} : pc'[g] = pc[g]
    BY <2>1 DEF Goto, TypeOK, RequestTypes
  <2>4. UNCHANGED <<lease, status>>
    BY <1>8 DEF WebhookStart
  <2>5. QED
    BY <2>1, <2>2, <2>3, <2>4 DEF Holding, TypeOK, RequestTypes
<1>9. ASSUME NEW r \in Refs, WebhookUnknown(r)
      PROVE  Hands'
  BY <1>9 DEF WebhookUnknown, Holding, NoRef, TypeOK,
     RequestTypes
<1>10. ASSUME NEW h \in Handlers, WebhookAck(h)
       PROVE  Hands'
  BY <1>10 DEF WebhookAck, Goto, Finish, Holding, NoRef, TypeOK,
     RequestTypes
<1>11. ASSUME NEW h \in Handlers, NEW r \in Refs, VerifyStart(h, r)
       PROVE  Hands'
  <2>1. r # NoRef
    BY DEF Refs, NoRef
  <2>2. QED
    BY <1>11, <2>1 DEF VerifyStart, Goto, Holding, OpenStatuses, TypeOK,
       RequestTypes
<1>12. ASSUME NEW h \in Handlers, VerifyAsk(h)
       PROVE  Hands'
  BY <1>12 DEF VerifyAsk, Goto, Finish, Holding, NoRef, TypeOK,
     RequestTypes
<1>13. ASSUME NEW h \in Handlers, ReadLease(h)
       PROVE  Hands'
  BY <1>13 DEF ReadLease, Goto, Holding, NoRef, TypeOK,
     RequestTypes
<1>14. ASSUME NEW h \in Handlers, MarkFailed(h)
       PROVE  Hands'
  BY <1>14 DEF MarkFailed, Goto, Finish, Answer, Holding, NoRef, TypeOK,
     RequestTypes, DatabaseTypes
<1>15. ASSUME NEW h \in Handlers, GenerateDocument(h)
       PROVE  Hands'
  BY <1>15 DEF GenerateDocument, Goto, Holding, NoRef, TypeOK,
     RequestTypes
<1>16. ASSUME NEW h \in Handlers, RpcGate(h)
       PROVE  Hands'
  BY <1>16 DEF RpcGate, Goto, Finish, Answer, Holding, NoRef, TypeOK,
     RequestTypes
<1>17. ASSUME NEW h \in Handlers, RpcCommit(h)
       PROVE  Hands'
  BY <1>17 DEF RpcCommit, Goto, Finish, Answer, Holding, NoRef, TypeOK,
     RequestTypes, DatabaseTypes, Settle
<1>18. ASSUME NEW r \in Refs, NEW p \in SplitPercents, Split(r, p)
       PROVE  Hands'
  BY <1>18 DEF Split, Holding, NoRef, TypeOK,
     RequestTypes, DatabaseTypes
<1>19. ASSUME NEW h \in Handlers, Die(h)
       PROVE  Hands'
  BY <1>19 DEF Die, Goto, Finish, Holding, NoRef, TypeOK,
     RequestTypes
<1>20. ASSUME NEW r \in Refs, NEW a \in Amounts, CustomerPays(r, a)
       PROVE  Hands'
  BY <1>20 DEF CustomerPays, Holding, NoRef, TypeOK,
     RequestTypes
<1>21. QED
  BY <1>1, <1>2, <1>3, <1>4, <1>5, <1>6, <1>7, <1>8, <1>9, <1>10,
     <1>11, <1>12, <1>13, <1>14, <1>15, <1>16, <1>17, <1>18, <1>19,
     <1>20
     DEF Next, HandlerStep

(* Every row and every request is well formed in the initial state.        *)
LEMMA InitIssued == ASSUME Init PROVE TypeOK /\ Issued
<1>1. TypeOK
  BY ConstantsAssumption
     DEF Init, TypeOK, DatabaseTypes, GatewayTypes, RequestTypes, Statuses, PCs, NoRef
<1>2. Issued
  BY DEF Init, Issued, Rows, Hands, Holding
<1>3. QED
  BY <1>1, <1>2

(* The types hold, and with them that every request works on a transaction *)
(* that exists and belongs to a lease: the induction needs both.           *)
THEOREM TypeCorrect == Spec => [](TypeOK /\ Issued)
<1>1. Init => TypeOK /\ Issued
  BY InitIssued
<1>2. TypeOK /\ Issued /\ [Next]_vars => (TypeOK /\ Issued)'
  BY TypeStep, RowsStep, HandsStep DEF Issued
<1>3. QED
  BY <1>1, <1>2, PTL DEF Spec
=============================================================================
