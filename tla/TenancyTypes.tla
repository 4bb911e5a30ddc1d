---------------------------- MODULE TenancyTypes ----------------------------
(***************************************************************************)
(* That rows and requests of Tenancy stay in their vocabularies and that   *)
(* what a request holds exists, for every number of renters, properties,   *)
(* rows, requests and faults.  TenancyProofs rests on it.                  *)
(***************************************************************************)
EXTENDS Tenancy, TLAPS

(* Where a request decides, pays and settles.                              *)
Deciding == {"reject", "approve", "contract", "countersign", "tell"}
Paying   == {"payable", "checkout"}
Settling == {"document", "settle"}

(* Rows that do not exist are blank, and an application names a lease of   *)
(* the same bid.                                                           *)
RowsKnown ==
  /\ \A a \in Rows :
       /\ applicant[a] = Nobody => leaseOf[a] = NoRow /\ status[a] = "none" /\ confirmed[a] = {}
       /\ Applied(a) => leaseOf[a] \in Rows /\ tenant[leaseOf[a]] = applicant[a]
  /\ \A l \in Rows :
       ~Drafted(l) => ~active[l] /\ ~checkout[l] /\ ~paid[l] /\ contract[l] = {}

(* What a request knows exists.                                            *)
RequestsKnown ==
  \A h \in Handlers :
    /\ req[h].at \in {"agreement", "draft", "apply"} => req[h].bid \in Bids
    /\ req[h].at = "apply" =>
         req[h].lease \in Rows /\ tenant[req[h].lease] = req[h].bid
    /\ req[h].at \in {"announce"} \cup Deciding =>
         req[h].app \in Rows /\ Applied(req[h].app)
    /\ req[h].at \in Deciding =>
         req[h].act \in Decisions /\ req[h].lease = leaseOf[req[h].app]
    /\ req[h].act \in Decisions => req[h].at \in Deciding
    /\ req[h].at \in Paying \cup Settling => req[h].lease # NoRow
    /\ req[h].lease # NoRow => Drafted(req[h].lease)

Known == RowsKnown /\ RequestsKnown

(* Which variables the tuples of the next-state relation stand for.        *)
USE DEF vars, leaseVars, appVars, noticeVars, paymentVars

(* A request about a lease or an application has one that exists.          *)
LEMMA LeaseInHand ==
  ASSUME TypeOK, Known, NEW h \in Handlers, req[h].at \in Paying \cup Settling
  PROVE  req[h].lease \in Rows /\ Drafted(req[h].lease)
  BY DEF TypeOK, RequestTypes, Requests, Known, RequestsKnown

LEMMA ApplicationInHand ==
  ASSUME TypeOK, Known, NEW h \in Handlers, req[h].at \in Deciding
  PROVE  /\ req[h].app \in Rows /\ Applied(req[h].app)
         /\ req[h].lease = leaseOf[req[h].app] /\ req[h].lease \in Rows
  BY DEF Known, RowsKnown, RequestsKnown

(* An answer joins those the landlord was told.                            *)
LEMMA ConfirmedType ==
  ASSUME confirmed \in [Rows -> SUBSET Answers], NEW a, NEW d \in Answers,
         confirmed' = [confirmed EXCEPT ![a] = @ \cup {d}]
  PROVE  confirmed' \in [Rows -> SUBSET Answers]
  OBVIOUS

(* A request that becomes a well-typed one.                                *)
LEMMA BecomeType ==
  ASSUME RequestTypes, NEW h \in Handlers, NEW r \in Requests, Become(h, r), UNCHANGED faults
  PROVE  RequestTypes'
  BY DEF RequestTypes, Become

(* A step keeps the types of applications, leases and notices.             *)
LEMMA DatabaseStep ==
  ASSUME TypeOK, Known, [Next]_vars PROVE DatabaseTypes'
<1> USE TenancyAssumption DEF TypeOK, DatabaseTypes, RequestTypes, Requests,
            RowsKnown, RequestsKnown, Known, Decisions, Answers, Deciding, Paying,
            Settling, Rows, NoRow, Statuses, Marks
<1>1. CASE UNCHANGED vars
  BY <1>1 DEF DatabaseTypes
<1>2. ASSUME NEW h \in Handlers, NEW b \in Bids, SubmitRead(h, b)
      PROVE  DatabaseTypes'
  BY <1>2 DEF SubmitRead, Start, Become, Idle
<1>3. ASSUME NEW h \in Handlers, SubmitAgreement(h)
      PROVE  DatabaseTypes'
  BY <1>3 DEF SubmitAgreement, Goto, Become, Bids
<1>4. ASSUME NEW h \in Handlers, SubmitLease(h)
      PROVE  DatabaseTypes'
  BY <1>4 DEF SubmitLease, IsNext, Become
<1>5. ASSUME NEW h \in Handlers, SubmitApplication(h)
      PROVE  DatabaseTypes'
  BY <1>5 DEF SubmitApplication, IsNext, Become
<1>6. ASSUME NEW h \in Handlers, SubmitNotify(h)
      PROVE  DatabaseTypes'
  BY <1>6 DEF SubmitNotify, Finish, Become, Idle
<1>7. ASSUME NEW h \in Handlers, NEW a \in Rows, NEW d \in Decisions, ManageRead(h, a, d)
      PROVE  DatabaseTypes'
  BY <1>7 DEF ManageRead, Start, Become, Idle
<1>8. ASSUME NEW h \in Handlers, Reject(h)
      PROVE  DatabaseTypes'
  BY <1>8 DEF Reject, Goto, Become
<1>9. ASSUME NEW h \in Handlers, Approve(h)
      PROVE  DatabaseTypes'
  BY <1>9 DEF Approve, Goto, Become
<1>10. ASSUME NEW h \in Handlers, ReadContract(h)
       PROVE  DatabaseTypes'
  BY <1>10 DEF ReadContract, Become
<1>11. ASSUME NEW h \in Handlers, Countersign(h)
       PROVE  DatabaseTypes'
  BY <1>11 DEF Countersign, Goto, Become
<1>12. ASSUME NEW h \in Handlers, Tell(h)
       PROVE  DatabaseTypes'
  BY <1>12 DEF Tell, Finish, Become, Idle
<1>13. ASSUME NEW h \in Handlers, NEW l \in Rows, PayReadLease(h, l)
       PROVE  DatabaseTypes'
  BY <1>13 DEF PayReadLease, Start, Become, Idle
<1>14. ASSUME NEW h \in Handlers, PayReadApplication(h)
       PROVE  DatabaseTypes'
  BY <1>14 DEF PayReadApplication, Goto, Finish, Become, Idle
<1>15. ASSUME NEW h \in Handlers, PayCheckout(h)
       PROVE  DatabaseTypes'
  BY <1>15 DEF PayCheckout, Finish, Become, Idle
<1>16. ASSUME NEW l \in Rows, CustomerPays(l)
       PROVE  DatabaseTypes'
  BY <1>16 DEF CustomerPays
<1>17. ASSUME NEW h \in Handlers, NEW l \in Rows, SettleReadLease(h, l)
       PROVE  DatabaseTypes'
  BY <1>17 DEF SettleReadLease, Start, Become, Idle
<1>18. ASSUME NEW h \in Handlers, SettleDocument(h)
       PROVE  DatabaseTypes'
  BY <1>18 DEF SettleDocument, Become
<1>19. ASSUME NEW h \in Handlers, SettleCommit(h)
       PROVE  DatabaseTypes'
  <2>1. CASE /\ Activate(req[h].lease, req[h].path)
             /\ UNCHANGED <<agreement, tenant, applicant, leaseOf, noticeVars>>
    BY <2>1 DEF Activate
  <2>2. CASE UNCHANGED <<agreement, leaseVars, appVars, noticeVars>>
    BY <2>2
  <2>3. QED
    BY <1>19, <2>1, <2>2 DEF SettleCommit
<1>20. ASSUME NEW h \in Handlers, Fails(h)
       PROVE  DatabaseTypes'
  <2>1. CASE UNCHANGED confirmed
    BY <1>20, <2>1 DEF Fails
  <2>2. CASE /\ req[h].act \in Decisions
             /\ confirmed' = [confirmed EXCEPT ![req[h].app] = @ \cup {req[h].act}]
    <3>1. confirmed' \in [Rows -> SUBSET Answers]
      BY <2>2, ConfirmedType
    <3>2. QED
      BY <1>20, <3>1 DEF Fails
  <2>3. QED
    BY <1>20, <2>1, <2>2 DEF Fails
<1>21. ASSUME NEW h \in Handlers, ApproveUnsigned(h)
       PROVE  DatabaseTypes'
  BY <1>21 DEF ApproveUnsigned, Finish, Become, Idle
<1> HIDE DEF DatabaseTypes
<1>22. QED
  BY <1>1, <1>2, <1>3, <1>4, <1>5, <1>6, <1>7, <1>8, <1>9, <1>10,
     <1>11, <1>12, <1>13, <1>14, <1>15, <1>16, <1>17, <1>18, <1>19,
     <1>20, <1>21
     DEF Next, Step

(* A step keeps the types of the payment rows.                             *)
LEMMA PaymentStep ==
  ASSUME TypeOK, Known, [Next]_vars PROVE PaymentTypes'
<1> USE TenancyAssumption DEF TypeOK, PaymentTypes, RequestTypes, Requests
<1>1. CASE UNCHANGED vars
  BY <1>1 DEF PaymentTypes
<1>2. ASSUME NEW h \in Handlers, NEW b \in Bids, SubmitRead(h, b)
      PROVE  PaymentTypes'
  BY <1>2 DEF SubmitRead, Start, Become, Idle
<1>3. ASSUME NEW h \in Handlers, SubmitAgreement(h)
      PROVE  PaymentTypes'
  BY <1>3 DEF SubmitAgreement, Goto, Become
<1>4. ASSUME NEW h \in Handlers, SubmitLease(h)
      PROVE  PaymentTypes'
  BY <1>4 DEF SubmitLease, IsNext, Become
<1>5. ASSUME NEW h \in Handlers, SubmitApplication(h)
      PROVE  PaymentTypes'
  BY <1>5 DEF SubmitApplication, IsNext, Become
<1>6. ASSUME NEW h \in Handlers, SubmitNotify(h)
      PROVE  PaymentTypes'
  BY <1>6 DEF SubmitNotify, Finish, Become, Idle
<1>7. ASSUME NEW h \in Handlers, NEW a \in Rows, NEW d \in Decisions, ManageRead(h, a, d)
      PROVE  PaymentTypes'
  BY <1>7 DEF ManageRead, Start, Become, Idle
<1>8. ASSUME NEW h \in Handlers, Reject(h)
      PROVE  PaymentTypes'
  BY <1>8 DEF Reject, Goto, Become
<1>9. ASSUME NEW h \in Handlers, Approve(h)
      PROVE  PaymentTypes'
  BY <1>9 DEF Approve, Goto, Become
<1>10. ASSUME NEW h \in Handlers, ReadContract(h)
       PROVE  PaymentTypes'
  BY <1>10 DEF ReadContract, Become
<1>11. ASSUME NEW h \in Handlers, Countersign(h)
       PROVE  PaymentTypes'
  BY <1>11 DEF Countersign, Goto, Become
<1>12. ASSUME NEW h \in Handlers, Tell(h)
       PROVE  PaymentTypes'
  BY <1>12 DEF Tell, Finish, Become, Idle
<1>13. ASSUME NEW h \in Handlers, NEW l \in Rows, PayReadLease(h, l)
       PROVE  PaymentTypes'
  BY <1>13 DEF PayReadLease, Start, Become, Idle
<1>14. ASSUME NEW h \in Handlers, PayReadApplication(h)
       PROVE  PaymentTypes'
  BY <1>14 DEF PayReadApplication, Goto, Finish, Become, Idle
<1>15. ASSUME NEW h \in Handlers, PayCheckout(h)
       PROVE  PaymentTypes'
  BY <1>15 DEF PayCheckout, Finish, Become, Idle
<1>16. ASSUME NEW l \in Rows, CustomerPays(l)
       PROVE  PaymentTypes'
  BY <1>16 DEF CustomerPays
<1>17. ASSUME NEW h \in Handlers, NEW l \in Rows, SettleReadLease(h, l)
       PROVE  PaymentTypes'
  BY <1>17 DEF SettleReadLease, Start, Become, Idle
<1>18. ASSUME NEW h \in Handlers, SettleDocument(h)
       PROVE  PaymentTypes'
  BY <1>18 DEF SettleDocument, Become
<1>19. ASSUME NEW h \in Handlers, SettleCommit(h)
       PROVE  PaymentTypes'
  BY <1>19 DEF SettleCommit, Finish, Become, Idle, Activate
<1>20. ASSUME NEW h \in Handlers, Fails(h)
       PROVE  PaymentTypes'
  BY <1>20 DEF Fails, Finish, Become, Idle
<1>21. ASSUME NEW h \in Handlers, ApproveUnsigned(h)
       PROVE  PaymentTypes'
  BY <1>21 DEF ApproveUnsigned, Finish, Become, Idle
<1>22. QED
  BY <1>1, <1>2, <1>3, <1>4, <1>5, <1>6, <1>7, <1>8, <1>9, <1>10,
     <1>11, <1>12, <1>13, <1>14, <1>15, <1>16, <1>17, <1>18, <1>19,
     <1>20, <1>21
     DEF Next, Step

(* A step keeps the types of the requests.                                 *)
LEMMA RequestStep ==
  ASSUME TypeOK, Known, [Next]_vars PROVE RequestTypes'
<1> USE TenancyAssumption, BecomeType DEF TypeOK, RequestTypes, Requests, Idle,
            Places, NoRow, Decisions
<1>1. CASE UNCHANGED vars
  BY <1>1 DEF RequestTypes
<1>2. ASSUME NEW h \in Handlers, NEW b \in Bids, SubmitRead(h, b)
      PROVE  RequestTypes'
  BY <1>2 DEF SubmitRead, Start
<1>3. ASSUME NEW h \in Handlers, SubmitAgreement(h)
      PROVE  RequestTypes'
  BY <1>3 DEF SubmitAgreement, Goto
<1>4. ASSUME NEW h \in Handlers, SubmitLease(h)
      PROVE  RequestTypes'
  <2>1. PICK l \in Rows :
               /\ req[h].at # "idle"
               /\ Become(h, [req[h] EXCEPT !.at = "apply", !.lease = l])
               /\ UNCHANGED faults
    BY <1>4 DEF SubmitLease
  <2>2. [req[h] EXCEPT !.at = "apply", !.lease = l] \in Requests
    BY ZenonT(60)
  <2>3. QED
    BY <2>1, <2>2
<1>5. ASSUME NEW h \in Handlers, SubmitApplication(h)
      PROVE  RequestTypes'
  <2>1. PICK a \in Rows :
               /\ req[h].at # "idle"
               /\ Become(h, [req[h] EXCEPT !.at = "announce", !.app = a])
               /\ UNCHANGED faults
    BY <1>5 DEF SubmitApplication
  <2>2. [req[h] EXCEPT !.at = "announce", !.app = a] \in Requests
    BY ZenonT(60)
  <2>3. QED
    BY <2>1, <2>2
<1>6. ASSUME NEW h \in Handlers, SubmitNotify(h)
      PROVE  RequestTypes'
  BY <1>6 DEF SubmitNotify, Finish
<1>7. ASSUME NEW h \in Handlers, NEW a \in Rows, NEW d \in Decisions, ManageRead(h, a, d)
      PROVE  RequestTypes'
  BY <1>7 DEF ManageRead, Start, DatabaseTypes
<1>8. ASSUME NEW h \in Handlers, Reject(h)
      PROVE  RequestTypes'
  BY <1>8 DEF Reject, Goto
<1>9. ASSUME NEW h \in Handlers, Approve(h)
      PROVE  RequestTypes'
  BY <1>9 DEF Approve, Goto
<1>10. ASSUME NEW h \in Handlers, ReadContract(h)
       PROVE  RequestTypes'
  <2>1. req[h].lease \in Rows
    BY <1>10, ApplicationInHand DEF ReadContract, Deciding
  <2>2. [req[h] EXCEPT !.at = "countersign", !.seen = contract[req[h].lease]] \in Requests
    <3>1. contract[req[h].lease] \in SUBSET Marks
      BY <2>1 DEF DatabaseTypes
    <3>2. QED
      BY <3>1, ZenonT(60)
  <2>3. QED
    BY <1>10, <2>2 DEF ReadContract
<1>11. ASSUME NEW h \in Handlers, Countersign(h)
       PROVE  RequestTypes'
  BY <1>11 DEF Countersign, Goto
<1>12. ASSUME NEW h \in Handlers, Tell(h)
       PROVE  RequestTypes'
  BY <1>12 DEF Tell, Finish
<1>13. ASSUME NEW h \in Handlers, NEW l \in Rows, PayReadLease(h, l)
       PROVE  RequestTypes'
  BY <1>13 DEF PayReadLease, Start
<1>14. ASSUME NEW h \in Handlers, PayReadApplication(h)
       PROVE  RequestTypes'
  BY <1>14, ZenonT(60) DEF PayReadApplication, Goto, Finish
<1>15. ASSUME NEW h \in Handlers, PayCheckout(h)
       PROVE  RequestTypes'
  BY <1>15 DEF PayCheckout, Finish
<1>16. ASSUME NEW l \in Rows, CustomerPays(l)
       PROVE  RequestTypes'
  BY <1>16 DEF CustomerPays
<1>17. ASSUME NEW h \in Handlers, NEW l \in Rows, SettleReadLease(h, l)
       PROVE  RequestTypes'
  BY <1>17 DEF SettleReadLease, Start
<1>18. ASSUME NEW h \in Handlers, SettleDocument(h)
       PROVE  RequestTypes'
  <2>1. PICK ok \in BOOLEAN :
               /\ req[h].at # "idle"
               /\ Become(h, [req[h] EXCEPT !.at = "settle", !.path = ok])
               /\ UNCHANGED faults
    BY <1>18 DEF SettleDocument
  <2>2. [req[h] EXCEPT !.at = "settle", !.path = ok] \in Requests
    BY ZenonT(60)
  <2>3. QED
    BY <2>1, <2>2
<1>19. ASSUME NEW h \in Handlers, SettleCommit(h)
       PROVE  RequestTypes'
  BY <1>19 DEF SettleCommit, Finish
<1>20. ASSUME NEW h \in Handlers, Fails(h)
       PROVE  RequestTypes'
  BY <1>20 DEF Fails, Finish, Become
<1>21. ASSUME NEW h \in Handlers, ApproveUnsigned(h)
       PROVE  RequestTypes'
  BY <1>21 DEF ApproveUnsigned, Finish, Become, Idle
<1>22. QED
  BY <1>1, <1>2, <1>3, <1>4, <1>5, <1>6, <1>7, <1>8, <1>9, <1>10,
     <1>11, <1>12, <1>13, <1>14, <1>15, <1>16, <1>17, <1>18, <1>19,
     <1>20, <1>21
     DEF Next, Step

(* A step keeps the rows consistent: applications are inserted with their  *)
(* lease, and only drafted leases are paid for or activated.               *)
LEMMA RowsStep ==
  ASSUME TypeOK, Known, [Next]_vars PROVE RowsKnown'
<1> USE TenancyAssumption DEF TypeOK, DatabaseTypes, PaymentTypes, RequestTypes,
            Requests, RowsKnown, RequestsKnown, Known, Decisions, Deciding,
            Paying, Settling, Rows, NoRow, Drafted, Applied
<1>1. CASE UNCHANGED vars
  BY <1>1 DEF RowsKnown
<1>2. ASSUME NEW h \in Handlers, NEW b \in Bids, SubmitRead(h, b)
      PROVE  RowsKnown'
  BY <1>2 DEF SubmitRead, Start, Become, Idle
<1>3. ASSUME NEW h \in Handlers, SubmitAgreement(h)
      PROVE  RowsKnown'
  BY <1>3 DEF SubmitAgreement, Goto, Become
<1>4. ASSUME NEW h \in Handlers, SubmitLease(h)
      PROVE  RowsKnown'
  BY <1>4 DEF SubmitLease, IsNext, Become
<1>5. ASSUME NEW h \in Handlers, SubmitApplication(h)
      PROVE  RowsKnown'
  BY <1>5 DEF SubmitApplication, IsNext, Become
<1>6. ASSUME NEW h \in Handlers, SubmitNotify(h)
      PROVE  RowsKnown'
  BY <1>6 DEF SubmitNotify, Finish, Become, Idle
<1>7. ASSUME NEW h \in Handlers, NEW a \in Rows, NEW d \in Decisions, ManageRead(h, a, d)
      PROVE  RowsKnown'
  BY <1>7 DEF ManageRead, Start, Become, Idle
<1>8. ASSUME NEW h \in Handlers, Reject(h)
      PROVE  RowsKnown'
  BY <1>8 DEF Reject, Goto, Become
<1>9. ASSUME NEW h \in Handlers, Approve(h)
      PROVE  RowsKnown'
  BY <1>9 DEF Approve, Goto, Become
<1>10. ASSUME NEW h \in Handlers, ReadContract(h)
       PROVE  RowsKnown'
  BY <1>10 DEF ReadContract, Become
<1>11. ASSUME NEW h \in Handlers, Countersign(h)
       PROVE  RowsKnown'
  BY <1>11 DEF Countersign, Goto, Become
<1>12. ASSUME NEW h \in Handlers, Tell(h)
       PROVE  RowsKnown'
  BY <1>12 DEF Tell, Finish, Become, Idle
<1>13. ASSUME NEW h \in Handlers, NEW l \in Rows, PayReadLease(h, l)
       PROVE  RowsKnown'
  BY <1>13 DEF PayReadLease, Start, Become, Idle
<1>14. ASSUME NEW h \in Handlers, PayReadApplication(h)
       PROVE  RowsKnown'
  BY <1>14 DEF PayReadApplication, Goto, Finish, Become, Idle
<1>15. ASSUME NEW h \in Handlers, PayCheckout(h)
       PROVE  RowsKnown'
  BY <1>15 DEF PayCheckout, Finish, Become, Idle
<1>16. ASSUME NEW l \in Rows, CustomerPays(l)
       PROVE  RowsKnown'
  BY <1>16 DEF CustomerPays
<1>17. ASSUME NEW h \in Handlers, NEW l \in Rows, SettleReadLease(h, l)
       PROVE  RowsKnown'
  BY <1>17 DEF SettleReadLease, Start, Become, Idle
<1>18. ASSUME NEW h \in Handlers, SettleDocument(h)
       PROVE  RowsKnown'
  BY <1>18 DEF SettleDocument, Become
<1>19. ASSUME NEW h \in Handlers, SettleCommit(h)
       PROVE  RowsKnown'
  <2> DEFINE l == req[h].lease
  <2>1. l \in Rows /\ Drafted(l)
    BY <1>19, LeaseInHand DEF SettleCommit, Settling
  <2>2. CASE Activate(l, req[h].path)
    BY <1>19, <2>1, <2>2 DEF SettleCommit, Activate, Finish, Become, Idle
  <2>3. CASE UNCHANGED <<active, contract, status>>
    BY <1>19, <2>1, <2>3 DEF SettleCommit, Finish, Become, Idle
  <2>4. QED
    BY <1>19, <2>2, <2>3 DEF SettleCommit
<1>20. ASSUME NEW h \in Handlers, Fails(h)
       PROVE  RowsKnown'
  <2>1. CASE UNCHANGED confirmed
    BY <1>20, <2>1 DEF Fails
  <2>2. CASE /\ req[h].act \in Decisions
             /\ confirmed' = [confirmed EXCEPT ![req[h].app] = @ \cup {req[h].act}]
    <3>1. req[h].app \in Rows /\ Applied(req[h].app)
      BY <2>2, ApplicationInHand
    <3>2. QED
      BY <1>20, <2>2, <3>1 DEF Fails
  <2>3. QED
    BY <1>20, <2>1, <2>2 DEF Fails
<1>21. ASSUME NEW h \in Handlers, ApproveUnsigned(h)
       PROVE  RowsKnown'
  BY <1>21 DEF ApproveUnsigned, Finish, Become, Idle
<1>22. QED
  BY <1>1, <1>2, <1>3, <1>4, <1>5, <1>6, <1>7, <1>8, <1>9, <1>10,
     <1>11, <1>12, <1>13, <1>14, <1>15, <1>16, <1>17, <1>18, <1>19,
     <1>20, <1>21
     DEF Next, Step

(* A step keeps what the requests know: rows are never deleted, so what a  *)
(* request has read to exist still does.                                   *)
LEMMA RequestsStep ==
  ASSUME TypeOK, Known, [Next]_vars PROVE RequestsKnown'
<1> USE TenancyAssumption DEF TypeOK, DatabaseTypes, PaymentTypes, RequestTypes,
            Requests, RowsKnown, RequestsKnown, Known, Decisions, Deciding,
            Paying, Settling, Rows, NoRow, Drafted, Applied
<1>1. CASE UNCHANGED vars
  BY <1>1 DEF RequestsKnown
<1>2. ASSUME NEW h \in Handlers, NEW b \in Bids, SubmitRead(h, b)
      PROVE  RequestsKnown'
  BY <1>2 DEF SubmitRead, Start, Become, Idle
<1>3. ASSUME NEW h \in Handlers, SubmitAgreement(h)
      PROVE  RequestsKnown'
  BY <1>3 DEF SubmitAgreement, Goto, Become
<1>4. ASSUME NEW h \in Handlers, SubmitLease(h)
      PROVE  RequestsKnown'
  BY <1>4 DEF SubmitLease, IsNext, Become
<1>5. ASSUME NEW h \in Handlers, SubmitApplication(h)
      PROVE  RequestsKnown'
  BY <1>5 DEF SubmitApplication, IsNext, Become
<1>6. ASSUME NEW h \in Handlers, SubmitNotify(h)
      PROVE  RequestsKnown'
  BY <1>6 DEF SubmitNotify, Finish, Become, Idle
<1>7. ASSUME NEW h \in Handlers, NEW a \in Rows, NEW d \in Decisions, ManageRead(h, a, d)
      PROVE  RequestsKnown'
  BY <1>7 DEF ManageRead, Start, Become, Idle
<1>8. ASSUME NEW h \in Handlers, Reject(h)
      PROVE  RequestsKnown'
  BY <1>8 DEF Reject, Goto, Become
<1>9. ASSUME NEW h \in Handlers, Approve(h)
      PROVE  RequestsKnown'
  BY <1>9 DEF Approve, Goto, Become
<1>10. ASSUME NEW h \in Handlers, ReadContract(h)
       PROVE  RequestsKnown'
  BY <1>10 DEF ReadContract, Become
<1>11. ASSUME NEW h \in Handlers, Countersign(h)
       PROVE  RequestsKnown'
  BY <1>11 DEF Countersign, Goto, Become
<1>12. ASSUME NEW h \in Handlers, Tell(h)
       PROVE  RequestsKnown'
  BY <1>12 DEF Tell, Finish, Become, Idle
<1>13. ASSUME NEW h \in Handlers, NEW l \in Rows, PayReadLease(h, l)
       PROVE  RequestsKnown'
  BY <1>13 DEF PayReadLease, Start, Become, Idle
<1>14. ASSUME NEW h \in Handlers, PayReadApplication(h)
       PROVE  RequestsKnown'
  <2>1. CASE Goto(h, "checkout")
    BY <1>14, <2>1 DEF PayReadApplication, Goto, Become
  <2>2. CASE Finish(h)
    BY <1>14, <2>2 DEF PayReadApplication, Finish, Become, Idle
  <2>3. QED
    BY <1>14, <2>1, <2>2 DEF PayReadApplication
<1>15. ASSUME NEW h \in Handlers, PayCheckout(h)
       PROVE  RequestsKnown'
  BY <1>15 DEF PayCheckout, Finish, Become, Idle
<1>16. ASSUME NEW l \in Rows, CustomerPays(l)
       PROVE  RequestsKnown'
  BY <1>16 DEF CustomerPays
<1>17. ASSUME NEW h \in Handlers, NEW l \in Rows, SettleReadLease(h, l)
       PROVE  RequestsKnown'
  BY <1>17 DEF SettleReadLease, Start, Become, Idle
<1>18. ASSUME NEW h \in Handlers, SettleDocument(h)
       PROVE  RequestsKnown'
  BY <1>18 DEF SettleDocument, Become
<1>19. ASSUME NEW h \in Handlers, SettleCommit(h)
       PROVE  RequestsKnown'
  BY <1>19 DEF SettleCommit, Finish, Become, Idle, Activate
<1>20. ASSUME NEW h \in Handlers, Fails(h)
       PROVE  RequestsKnown'
  BY <1>20 DEF Fails, Finish, Become, Idle
<1>21. ASSUME NEW h \in Handlers, ApproveUnsigned(h)
       PROVE  RequestsKnown'
  BY <1>21 DEF ApproveUnsigned, Finish, Become, Idle
<1> HIDE DEF RequestsKnown
<1>22. QED
  BY <1>1, <1>2, <1>3, <1>4, <1>5, <1>6, <1>7, <1>8, <1>9, <1>10,
     <1>11, <1>12, <1>13, <1>14, <1>15, <1>16, <1>17, <1>18, <1>19,
     <1>20, <1>21
     DEF Next, Step

(* Nothing is stored and nobody works in the initial state.                *)
LEMMA InitKnown == ASSUME Init PROVE TypeOK /\ Known
<1> USE TenancyAssumption DEF Init, Idle, NoRow
<1>1. TypeOK
  BY DEF TypeOK, DatabaseTypes, PaymentTypes, RequestTypes, Requests, Places, Statuses
<1>2. Known
  BY DEF Known, RowsKnown, RequestsKnown, Deciding, Paying, Settling, Decisions, Applied,
         Drafted
<1>3. QED
  BY <1>1, <1>2

(* The types hold, and with them that rows and requests name rows that     *)
(* exist: a status outside the vocabulary, such as the column default      *)
(* "submitted" that no dashboard asks for, is never written.               *)
THEOREM TypesCorrect == Spec => [](TypeOK /\ Known)
<1>1. Init => TypeOK /\ Known
  BY InitKnown
<1>2. TypeOK /\ Known /\ [Next]_vars => (TypeOK /\ Known)'
  BY DatabaseStep, PaymentStep, RequestStep, RowsStep, RequestsStep DEF TypeOK, Known
<1>3. QED
  BY <1>1, <1>2, PTL DEF Spec
=============================================================================
