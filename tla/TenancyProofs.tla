--------------------------- MODULE TenancyProofs ----------------------------
(***************************************************************************)
(* Theorems about Tenancy: however submissions, decisions, payments and    *)
(* settlements interleave and fail, for every number of renters,           *)
(* properties, rows, requests and faults.  First the parts of the          *)
(* inductive invariants, then for each part that every action keeps it,    *)
(* then the theorems.                                                      *)
(***************************************************************************)
EXTENDS TenancyTypes

USE DEF vars, leaseVars, appVars, noticeVars, paymentVars

(* A submission about to store its application has a lease no application  *)
(* names and no other submission will name.                                *)
OwnDraft ==
  \A h \in Handlers : req[h].at = "apply" =>
    /\ \A a \in Rows : leaseOf[a] # req[h].lease
    /\ \A g \in Handlers :
         req[g].at = "apply" /\ req[g].lease = req[h].lease => g = h

(* A submission about to draft its lease has an agreement for it.          *)
Agreed == \A h \in Handlers : req[h].at = "draft" => req[h].bid[2] \in agreement

(* A request that opens, activates or settles a lease found it decided.    *)
FoundDecided ==
  \A h \in Handlers :
    req[h].at \in {"contract", "countersign", "checkout"} \cup Settling =>
      Decided(req[h].lease)

(* A lease always bears a mark of its renter, or its PDF, and so does what *)
(* an approval has read of it.                                             *)
Bears(marks) == "renter" \in marks \/ "document" \in marks
Marked ==
  /\ \A l \in Rows : Drafted(l) => Bears(contract[l])
  /\ \A h \in Handlers : req[h].at = "countersign" => Bears(req[h].seen)

(* A settlement with a path, and an approval that read one, have the PDF.  *)
PathIsStored ==
  \A h \in Handlers :
    /\ req[h].at = "settle" /\ req[h].path => stored[req[h].lease]
    /\ req[h].at = "countersign" /\ "document" \in req[h].seen =>
         stored[req[h].lease]

(* An approval that is about to tell has activated its lease.              *)
ToldIsActive ==
  \A h \in Handlers :
    /\ req[h].at = "reject" => req[h].act = "reject"
    /\ req[h].at = "tell" /\ req[h].act = "approve" => active[req[h].lease]

(* A settlement in flight is of a paid lease and activates it unless it    *)
(* is active, and what was settled is active.                              *)
SettlesPaid ==
  /\ \A l \in Rows : debited[l] => active[l]
  /\ \A h \in Handlers :
       /\ req[h].at \in Settling => paid[req[h].lease]
       /\ req[h].at = "document" => req[h].first
       /\ req[h].at = "settle" => req[h].first \/ active[req[h].lease]

(* Requests about one lease are served one at a time.                      *)
Disjoint ==
  \A g, h \in Handlers : req[g].lease = req[h].lease /\ req[g].lease # NoRow => g = h

(* Once a contract names the PDF it is the path and nothing else: the      *)
(* applications of the lease are completed, no request that stores or      *)
(* decides one is in flight, and no approval has read the PDF.             *)
Sealed ==
  /\ \A l \in Rows : "document" \in contract[l] =>
       /\ contract[l] = {"document"}
       /\ \A a \in Rows : leaseOf[a] = l => status[a] = "completed"
       /\ \A h \in Handlers : req[h].lease = l => req[h].at \notin {"apply"} \cup Deciding
  /\ \A h \in Handlers : req[h].at = "countersign" => "document" \notin req[h].seen

(* Only SubmitLease hands out a lease, and it hands out a new row.         *)
LEMMA OwnDraftStep ==
  ASSUME TypeOK, Known, OwnDraft, [Next]_vars PROVE OwnDraft'
<1> USE TenancyAssumption DEF TypeOK, DatabaseTypes, PaymentTypes, RequestTypes,
            Requests, Known, RowsKnown, RequestsKnown, Rows, NoRow, OwnDraft,
            Applied, Drafted, Deciding, Paying, Settling
<1>1. CASE UNCHANGED vars
  BY <1>1 DEF OwnDraft
<1>2. ASSUME NEW h \in Handlers, NEW b \in Bids, SubmitRead(h, b)
      PROVE  OwnDraft'
  BY <1>2 DEF SubmitRead, Start, Become, Idle
<1>3. ASSUME NEW h \in Handlers, SubmitAgreement(h)
      PROVE  OwnDraft'
  BY <1>3 DEF SubmitAgreement, Goto, Become
<1>4. ASSUME NEW h \in Handlers, SubmitLease(h)
      PROVE  OwnDraft'
  <2>1. PICK l \in Rows :
               /\ tenant[l] = Nobody
               /\ Become(h, [req[h] EXCEPT !.at = "apply", !.lease = l])
    BY <1>4 DEF SubmitLease, IsNext
  <2>2. \A a \in Rows : leaseOf[a] # l
    BY <2>1
  <2>3. \A g \in Handlers : req[g].at = "apply" => req[g].lease # l
    BY <2>1
  <2>4. UNCHANGED leaseOf
    BY <1>4 DEF SubmitLease
  <2>5. QED
    BY <2>1, <2>2, <2>3, <2>4 DEF Become
<1>5. ASSUME NEW h \in Handlers, SubmitApplication(h)
      PROVE  OwnDraft'
  BY <1>5 DEF SubmitApplication, IsNext, Become
<1>6. ASSUME NEW h \in Handlers, SubmitNotify(h)
      PROVE  OwnDraft'
  BY <1>6 DEF SubmitNotify, Finish, Become, Idle
<1>7. ASSUME NEW h \in Handlers, NEW a \in Rows, NEW d \in Decisions, ManageRead(h, a, d)
      PROVE  OwnDraft'
  BY <1>7 DEF ManageRead, Start, Become, Idle, Decisions
<1>8. ASSUME NEW h \in Handlers, Reject(h)
      PROVE  OwnDraft'
  BY <1>8 DEF Reject, Goto, Become
<1>9. ASSUME NEW h \in Handlers, Approve(h)
      PROVE  OwnDraft'
  BY <1>9 DEF Approve, Goto, Become
<1>10. ASSUME NEW h \in Handlers, ReadContract(h)
       PROVE  OwnDraft'
  BY <1>10 DEF ReadContract, Become
<1>11. ASSUME NEW h \in Handlers, Countersign(h)
       PROVE  OwnDraft'
  BY <1>11 DEF Countersign, Goto, Become
<1>12. ASSUME NEW h \in Handlers, Tell(h)
       PROVE  OwnDraft'
  BY <1>12 DEF Tell, Finish, Become, Idle
<1>13. ASSUME NEW h \in Handlers, NEW l \in Rows, PayReadLease(h, l)
       PROVE  OwnDraft'
  BY <1>13 DEF PayReadLease, Start, Become, Idle
<1>14. ASSUME NEW h \in Handlers, PayReadApplication(h)
       PROVE  OwnDraft'
  <2>1. CASE Goto(h, "checkout")
    BY <1>14, <2>1 DEF PayReadApplication, Goto, Become
  <2>2. CASE Finish(h)
    BY <1>14, <2>2 DEF PayReadApplication, Finish, Become, Idle
  <2>3. QED
    BY <1>14, <2>1, <2>2 DEF PayReadApplication
<1>15. ASSUME NEW h \in Handlers, PayCheckout(h)
       PROVE  OwnDraft'
  BY <1>15 DEF PayCheckout, Finish, Become, Idle
<1>16. ASSUME NEW l \in Rows, CustomerPays(l)
       PROVE  OwnDraft'
  BY <1>16 DEF CustomerPays
<1>17. ASSUME NEW h \in Handlers, NEW l \in Rows, SettleReadLease(h, l)
       PROVE  OwnDraft'
  BY <1>17 DEF SettleReadLease, Start, Become, Idle
<1>18. ASSUME NEW h \in Handlers, SettleDocument(h)
       PROVE  OwnDraft'
  BY <1>18 DEF SettleDocument, Become
<1>19. ASSUME NEW h \in Handlers, SettleCommit(h)
       PROVE  OwnDraft'
  <2> DEFINE l == req[h].lease
  <2>1. l \in Rows /\ Drafted(l)
    BY <1>19, LeaseInHand DEF SettleCommit, Settling
  <2>2. CASE Activate(l, req[h].path)
    BY <1>19, <2>1, <2>2 DEF SettleCommit, Activate, Finish, Become, Idle
  <2>3. CASE UNCHANGED <<active, contract, status>>
    BY <1>19, <2>1, <2>3, SMTT(60) DEF SettleCommit, Finish, Become, Idle
  <2>4. QED
    BY <1>19, <2>2, <2>3 DEF SettleCommit
<1>20. ASSUME NEW h \in Handlers, Fails(h)
       PROVE  OwnDraft'
  BY <1>20 DEF Fails, Finish, Become, Idle
<1>21. ASSUME NEW h \in Handlers, ApproveUnsigned(h)
       PROVE  OwnDraft'
  BY <1>21 DEF ApproveUnsigned, Finish, Become, Idle
<1>22. QED
  BY <1>1, <1>2, <1>3, <1>4, <1>5, <1>6, <1>7, <1>8, <1>9, <1>10,
     <1>11, <1>12, <1>13, <1>14, <1>15, <1>16, <1>17, <1>18, <1>19,
     <1>20, <1>21
     DEF Next, Step

(* Only SubmitApplication stores an application, with the lease it owns.   *)
LEMMA ApplicationOfItsLeaseStep ==
  ASSUME TypeOK, Known, OwnDraft, ApplicationOfItsLease, [Next]_vars PROVE ApplicationOfItsLease'
<1> USE TenancyAssumption DEF TypeOK, DatabaseTypes, PaymentTypes, RequestTypes,
            Requests, Known, RowsKnown, RequestsKnown, Rows, NoRow,
            ApplicationOfItsLease, OwnDraft, Applied, Drafted
<1>1. CASE UNCHANGED vars
  BY <1>1 DEF ApplicationOfItsLease
<1>2. ASSUME NEW h \in Handlers, NEW b \in Bids, SubmitRead(h, b)
      PROVE  ApplicationOfItsLease'
  BY <1>2 DEF SubmitRead, Start, Become, Idle
<1>3. ASSUME NEW h \in Handlers, SubmitAgreement(h)
      PROVE  ApplicationOfItsLease'
  BY <1>3 DEF SubmitAgreement, Goto, Become
<1>4. ASSUME NEW h \in Handlers, SubmitLease(h)
      PROVE  ApplicationOfItsLease'
  BY <1>4 DEF SubmitLease, IsNext, Become
<1>5. ASSUME NEW h \in Handlers, SubmitApplication(h)
      PROVE  ApplicationOfItsLease'
  BY <1>5 DEF SubmitApplication, IsNext, Become
<1>6. ASSUME NEW h \in Handlers, SubmitNotify(h)
      PROVE  ApplicationOfItsLease'
  BY <1>6 DEF SubmitNotify, Finish, Become, Idle
<1>7. ASSUME NEW h \in Handlers, NEW a \in Rows, NEW d \in Decisions, ManageRead(h, a, d)
      PROVE  ApplicationOfItsLease'
  BY <1>7 DEF ManageRead, Start, Become, Idle, Decisions
<1>8. ASSUME NEW h \in Handlers, Reject(h)
      PROVE  ApplicationOfItsLease'
  BY <1>8 DEF Reject, Goto, Become
<1>9. ASSUME NEW h \in Handlers, Approve(h)
      PROVE  ApplicationOfItsLease'
  BY <1>9 DEF Approve, Goto, Become
<1>10. ASSUME NEW h \in Handlers, ReadContract(h)
       PROVE  ApplicationOfItsLease'
  BY <1>10 DEF ReadContract, Become
<1>11. ASSUME NEW h \in Handlers, Countersign(h)
       PROVE  ApplicationOfItsLease'
  BY <1>11 DEF Countersign, Goto, Become
<1>12. ASSUME NEW h \in Handlers, Tell(h)
       PROVE  ApplicationOfItsLease'
  BY <1>12 DEF Tell, Finish, Become, Idle
<1>13. ASSUME NEW h \in Handlers, NEW l \in Rows, PayReadLease(h, l)
       PROVE  ApplicationOfItsLease'
  BY <1>13 DEF PayReadLease, Start, Become, Idle
<1>14. ASSUME NEW h \in Handlers, PayReadApplication(h)
       PROVE  ApplicationOfItsLease'
  <2>1. CASE Goto(h, "checkout")
    BY <1>14, <2>1 DEF PayReadApplication, Goto, Become
  <2>2. CASE Finish(h)
    BY <1>14, <2>2 DEF PayReadApplication, Finish, Become, Idle
  <2>3. QED
    BY <1>14, <2>1, <2>2 DEF PayReadApplication
<1>15. ASSUME NEW h \in Handlers, PayCheckout(h)
       PROVE  ApplicationOfItsLease'
  BY <1>15 DEF PayCheckout, Finish, Become, Idle
<1>16. ASSUME NEW l \in Rows, CustomerPays(l)
       PROVE  ApplicationOfItsLease'
  BY <1>16 DEF CustomerPays
<1>17. ASSUME NEW h \in Handlers, NEW l \in Rows, SettleReadLease(h, l)
       PROVE  ApplicationOfItsLease'
  BY <1>17 DEF SettleReadLease, Start, Become, Idle
<1>18. ASSUME NEW h \in Handlers, SettleDocument(h)
       PROVE  ApplicationOfItsLease'
  BY <1>18 DEF SettleDocument, Become
<1>19. ASSUME NEW h \in Handlers, SettleCommit(h)
       PROVE  ApplicationOfItsLease'
  <2> DEFINE l == req[h].lease
  <2>1. l \in Rows /\ Drafted(l)
    BY <1>19, LeaseInHand DEF SettleCommit, Settling
  <2>2. CASE Activate(l, req[h].path)
    BY <1>19, <2>1, <2>2 DEF SettleCommit, Activate, Finish, Become, Idle
  <2>3. CASE UNCHANGED <<active, contract, status>>
    BY <1>19, <2>1, <2>3, SMTT(60) DEF SettleCommit, Finish, Become, Idle
  <2>4. QED
    BY <1>19, <2>2, <2>3 DEF SettleCommit
<1>20. ASSUME NEW h \in Handlers, Fails(h)
       PROVE  ApplicationOfItsLease'
  BY <1>20 DEF Fails, Finish, Become, Idle
<1>21. ASSUME NEW h \in Handlers, ApproveUnsigned(h)
       PROVE  ApplicationOfItsLease'
  BY <1>21 DEF ApproveUnsigned, Finish, Become, Idle
<1>22. QED
  BY <1>1, <1>2, <1>3, <1>4, <1>5, <1>6, <1>7, <1>8, <1>9, <1>10,
     <1>11, <1>12, <1>13, <1>14, <1>15, <1>16, <1>17, <1>18, <1>19,
     <1>20, <1>21
     DEF Next, Step

(* A submission writes the agreement before it drafts, and none is         *)
(* deleted.                                                                *)
LEMMA AgreedStep ==
  ASSUME TypeOK, Known, Agreed, [Next]_vars PROVE Agreed'
<1> USE DEF TypeOK, DatabaseTypes, PaymentTypes, RequestTypes, Requests, Known,
            RowsKnown, RequestsKnown, Rows, NoRow, Agreed
<1>1. CASE UNCHANGED vars
  BY <1>1 DEF Agreed
<1>2. ASSUME NEW h \in Handlers, NEW b \in Bids, SubmitRead(h, b)
      PROVE  Agreed'
  BY <1>2 DEF SubmitRead, Start, Become, Idle
<1>3. ASSUME NEW h \in Handlers, SubmitAgreement(h)
      PROVE  Agreed'
  BY <1>3 DEF SubmitAgreement, Goto, Become
<1>4. ASSUME NEW h \in Handlers, SubmitLease(h)
      PROVE  Agreed'
  BY <1>4 DEF SubmitLease, IsNext, Become
<1>5. ASSUME NEW h \in Handlers, SubmitApplication(h)
      PROVE  Agreed'
  BY <1>5 DEF SubmitApplication, IsNext, Become
<1>6. ASSUME NEW h \in Handlers, SubmitNotify(h)
      PROVE  Agreed'
  BY <1>6 DEF SubmitNotify, Finish, Become, Idle
<1>7. ASSUME NEW h \in Handlers, NEW a \in Rows, NEW d \in Decisions, ManageRead(h, a, d)
      PROVE  Agreed'
  BY <1>7 DEF ManageRead, Start, Become, Idle, Decisions
<1>8. ASSUME NEW h \in Handlers, Reject(h)
      PROVE  Agreed'
  BY <1>8 DEF Reject, Goto, Become
<1>9. ASSUME NEW h \in Handlers, Approve(h)
      PROVE  Agreed'
  BY <1>9 DEF Approve, Goto, Become
<1>10. ASSUME NEW h \in Handlers, ReadContract(h)
       PROVE  Agreed'
  BY <1>10 DEF ReadContract, Become
<1>11. ASSUME NEW h \in Handlers, Countersign(h)
       PROVE  Agreed'
  BY <1>11 DEF Countersign, Goto, Become
<1>12. ASSUME NEW h \in Handlers, Tell(h)
       PROVE  Agreed'
  BY <1>12 DEF Tell, Finish, Become, Idle
<1>13. ASSUME NEW h \in Handlers, NEW l \in Rows, PayReadLease(h, l)
       PROVE  Agreed'
  BY <1>13 DEF PayReadLease, Start, Become, Idle
<1>14. ASSUME NEW h \in Handlers, PayReadApplication(h)
       PROVE  Agreed'
  <2>1. CASE Goto(h, "checkout")
    BY <1>14, <2>1 DEF PayReadApplication, Goto, Become
  <2>2. CASE Finish(h)
    BY <1>14, <2>2 DEF PayReadApplication, Finish, Become, Idle
  <2>3. QED
    BY <1>14, <2>1, <2>2 DEF PayReadApplication
<1>15. ASSUME NEW h \in Handlers, PayCheckout(h)
       PROVE  Agreed'
  BY <1>15 DEF PayCheckout, Finish, Become, Idle
<1>16. ASSUME NEW l \in Rows, CustomerPays(l)
       PROVE  Agreed'
  BY <1>16 DEF CustomerPays
<1>17. ASSUME NEW h \in Handlers, NEW l \in Rows, SettleReadLease(h, l)
       PROVE  Agreed'
  BY <1>17 DEF SettleReadLease, Start, Become, Idle
<1>18. ASSUME NEW h \in Handlers, SettleDocument(h)
       PROVE  Agreed'
  BY <1>18 DEF SettleDocument, Become
<1>19. ASSUME NEW h \in Handlers, SettleCommit(h)
       PROVE  Agreed'
  <2> DEFINE l == req[h].lease
  <2>1. l \in Rows /\ Drafted(l)
    BY <1>19, LeaseInHand DEF SettleCommit, Settling
  <2>2. CASE Activate(l, req[h].path)
    BY <1>19, <2>1, <2>2 DEF SettleCommit, Activate, Finish, Become, Idle
  <2>3. CASE UNCHANGED <<active, contract, status>>
    BY <1>19, <2>1, <2>3, SMTT(60) DEF SettleCommit, Finish, Become, Idle
  <2>4. QED
    BY <1>19, <2>2, <2>3 DEF SettleCommit
<1>20. ASSUME NEW h \in Handlers, Fails(h)
       PROVE  Agreed'
  BY <1>20 DEF Fails, Finish, Become, Idle
<1>21. ASSUME NEW h \in Handlers, ApproveUnsigned(h)
       PROVE  Agreed'
  BY <1>21 DEF ApproveUnsigned, Finish, Become, Idle
<1>22. QED
  BY <1>1, <1>2, <1>3, <1>4, <1>5, <1>6, <1>7, <1>8, <1>9, <1>10,
     <1>11, <1>12, <1>13, <1>14, <1>15, <1>16, <1>17, <1>18, <1>19,
     <1>20, <1>21
     DEF Next, Step

(* Only SubmitLease drafts a lease, for a property that has an agreement.  *)
LEMMA LeaseHasAgreementStep ==
  ASSUME TypeOK, Known, Agreed, LeaseHasAgreement, [Next]_vars PROVE LeaseHasAgreement'
<1> USE DEF TypeOK, DatabaseTypes, PaymentTypes, RequestTypes, Requests, Known,
            RowsKnown, RequestsKnown, Rows, NoRow, Agreed, LeaseHasAgreement,
            Drafted
<1>1. CASE UNCHANGED vars
  BY <1>1 DEF LeaseHasAgreement
<1>2. ASSUME NEW h \in Handlers, NEW b \in Bids, SubmitRead(h, b)
      PROVE  LeaseHasAgreement'
  BY <1>2 DEF SubmitRead, Start, Become, Idle
<1>3. ASSUME NEW h \in Handlers, SubmitAgreement(h)
      PROVE  LeaseHasAgreement'
  BY <1>3 DEF SubmitAgreement, Goto, Become
<1>4. ASSUME NEW h \in Handlers, SubmitLease(h)
      PROVE  LeaseHasAgreement'
  BY <1>4 DEF SubmitLease, IsNext, Become
<1>5. ASSUME NEW h \in Handlers, SubmitApplication(h)
      PROVE  LeaseHasAgreement'
  BY <1>5 DEF SubmitApplication, IsNext, Become
<1>6. ASSUME NEW h \in Handlers, SubmitNotify(h)
      PROVE  LeaseHasAgreement'
  BY <1>6 DEF SubmitNotify, Finish, Become, Idle
<1>7. ASSUME NEW h \in Handlers, NEW a \in Rows, NEW d \in Decisions, ManageRead(h, a, d)
      PROVE  LeaseHasAgreement'
  BY <1>7 DEF ManageRead, Start, Become, Idle, Decisions
<1>8. ASSUME NEW h \in Handlers, Reject(h)
      PROVE  LeaseHasAgreement'
  BY <1>8 DEF Reject, Goto, Become
<1>9. ASSUME NEW h \in Handlers, Approve(h)
      PROVE  LeaseHasAgreement'
  BY <1>9 DEF Approve, Goto, Become
<1>10. ASSUME NEW h \in Handlers, ReadContract(h)
       PROVE  LeaseHasAgreement'
  BY <1>10 DEF ReadContract, Become
<1>11. ASSUME NEW h \in Handlers, Countersign(h)
       PROVE  LeaseHasAgreement'
  BY <1>11 DEF Countersign, Goto, Become
<1>12. ASSUME NEW h \in Handlers, Tell(h)
       PROVE  LeaseHasAgreement'
  BY <1>12 DEF Tell, Finish, Become, Idle
<1>13. ASSUME NEW h \in Handlers, NEW l \in Rows, PayReadLease(h, l)
       PROVE  LeaseHasAgreement'
  BY <1>13 DEF PayReadLease, Start, Become, Idle
<1>14. ASSUME NEW h \in Handlers, PayReadApplication(h)
       PROVE  LeaseHasAgreement'
  <2>1. CASE Goto(h, "checkout")
    BY <1>14, <2>1 DEF PayReadApplication, Goto, Become
  <2>2. CASE Finish(h)
    BY <1>14, <2>2 DEF PayReadApplication, Finish, Become, Idle
  <2>3. QED
    BY <1>14, <2>1, <2>2 DEF PayReadApplication
<1>15. ASSUME NEW h \in Handlers, PayCheckout(h)
       PROVE  LeaseHasAgreement'
  BY <1>15 DEF PayCheckout, Finish, Become, Idle
<1>16. ASSUME NEW l \in Rows, CustomerPays(l)
       PROVE  LeaseHasAgreement'
  BY <1>16 DEF CustomerPays
<1>17. ASSUME NEW h \in Handlers, NEW l \in Rows, SettleReadLease(h, l)
       PROVE  LeaseHasAgreement'
  BY <1>17 DEF SettleReadLease, Start, Become, Idle
<1>18. ASSUME NEW h \in Handlers, SettleDocument(h)
       PROVE  LeaseHasAgreement'
  BY <1>18 DEF SettleDocument, Become
<1>19. ASSUME NEW h \in Handlers, SettleCommit(h)
       PROVE  LeaseHasAgreement'
  <2> DEFINE l == req[h].lease
  <2>1. l \in Rows /\ Drafted(l)
    BY <1>19, LeaseInHand DEF SettleCommit, Settling
  <2>2. CASE Activate(l, req[h].path)
    BY <1>19, <2>1, <2>2 DEF SettleCommit, Activate, Finish, Become, Idle
  <2>3. CASE UNCHANGED <<active, contract, status>>
    BY <1>19, <2>1, <2>3, SMTT(60) DEF SettleCommit, Finish, Become, Idle
  <2>4. QED
    BY <1>19, <2>2, <2>3 DEF SettleCommit
<1>20. ASSUME NEW h \in Handlers, Fails(h)
       PROVE  LeaseHasAgreement'
  BY <1>20 DEF Fails, Finish, Become, Idle
<1>21. ASSUME NEW h \in Handlers, ApproveUnsigned(h)
       PROVE  LeaseHasAgreement'
  BY <1>21 DEF ApproveUnsigned, Finish, Become, Idle
<1>22. QED
  BY <1>1, <1>2, <1>3, <1>4, <1>5, <1>6, <1>7, <1>8, <1>9, <1>10,
     <1>11, <1>12, <1>13, <1>14, <1>15, <1>16, <1>17, <1>18, <1>19,
     <1>20, <1>21
     DEF Next, Step

(* A decision is never undone: no step returns to the pending status.      *)
LEMMA DecidedStep ==
  ASSUME TypeOK, Known, NEW k \in Rows, Decided(k), [Next]_vars PROVE Decided(k)'
<1> USE DEF DatabaseTypes, TypeOK, Known, RowsKnown, RequestsKnown, Decided,
            Applied, Rows, NoRow
<1>1. CASE UNCHANGED vars
  BY <1>1 DEF Decided
<1>2. ASSUME NEW h \in Handlers, NEW b \in Bids, SubmitRead(h, b)
      PROVE  Decided(k)'
  BY <1>2 DEF SubmitRead, Start, Become, Idle
<1>3. ASSUME NEW h \in Handlers, SubmitAgreement(h)
      PROVE  Decided(k)'
  BY <1>3 DEF SubmitAgreement, Goto, Become
<1>4. ASSUME NEW h \in Handlers, SubmitLease(h)
      PROVE  Decided(k)'
  BY <1>4 DEF SubmitLease, IsNext, Become
<1>5. ASSUME NEW h \in Handlers, SubmitApplication(h)
      PROVE  Decided(k)'
  BY <1>5 DEF SubmitApplication, IsNext, Become
<1>6. ASSUME NEW h \in Handlers, SubmitNotify(h)
      PROVE  Decided(k)'
  BY <1>6 DEF SubmitNotify, Finish, Become, Idle
<1>7. ASSUME NEW h \in Handlers, NEW a \in Rows, NEW d \in Decisions, ManageRead(h, a, d)
      PROVE  Decided(k)'
  BY <1>7 DEF ManageRead, Start, Become, Idle, Decisions
<1>8. ASSUME NEW h \in Handlers, Reject(h)
      PROVE  Decided(k)'
  BY <1>8 DEF Reject, Goto, Become
<1>9. ASSUME NEW h \in Handlers, Approve(h)
      PROVE  Decided(k)'
  BY <1>9 DEF Approve, Goto, Become
<1>10. ASSUME NEW h \in Handlers, ReadContract(h)
       PROVE  Decided(k)'
  BY <1>10 DEF ReadContract, Become
<1>11. ASSUME NEW h \in Handlers, Countersign(h)
       PROVE  Decided(k)'
  BY <1>11 DEF Countersign, Goto, Become
<1>12. ASSUME NEW h \in Handlers, Tell(h)
       PROVE  Decided(k)'
  BY <1>12 DEF Tell, Finish, Become, Idle
<1>13. ASSUME NEW h \in Handlers, NEW l \in Rows, PayReadLease(h, l)
       PROVE  Decided(k)'
  BY <1>13 DEF PayReadLease, Start, Become, Idle
<1>14. ASSUME NEW h \in Handlers, PayReadApplication(h)
       PROVE  Decided(k)'
  <2>1. CASE Goto(h, "checkout")
    BY <1>14, <2>1 DEF PayReadApplication, Goto, Become
  <2>2. CASE Finish(h)
    BY <1>14, <2>2 DEF PayReadApplication, Finish, Become, Idle
  <2>3. QED
    BY <1>14, <2>1, <2>2 DEF PayReadApplication
<1>15. ASSUME NEW h \in Handlers, PayCheckout(h)
       PROVE  Decided(k)'
  BY <1>15 DEF PayCheckout, Finish, Become, Idle
<1>16. ASSUME NEW l \in Rows, CustomerPays(l)
       PROVE  Decided(k)'
  BY <1>16 DEF CustomerPays
<1>17. ASSUME NEW h \in Handlers, NEW l \in Rows, SettleReadLease(h, l)
       PROVE  Decided(k)'
  BY <1>17 DEF SettleReadLease, Start, Become, Idle
<1>18. ASSUME NEW h \in Handlers, SettleDocument(h)
       PROVE  Decided(k)'
  BY <1>18 DEF SettleDocument, Become
<1>19. ASSUME NEW h \in Handlers, SettleCommit(h)
       PROVE  Decided(k)'
  <2> DEFINE l == req[h].lease
  <2>1. l \in Rows /\ Drafted(l)
    BY <1>19, LeaseInHand DEF SettleCommit, Settling
  <2>2. CASE Activate(l, req[h].path)
    BY <1>19, <2>1, <2>2 DEF SettleCommit, Activate, Finish, Become, Idle
  <2>3. CASE UNCHANGED <<active, contract, status>>
    BY <1>19, <2>1, <2>3, SMTT(60) DEF SettleCommit, Finish, Become, Idle
  <2>4. QED
    BY <1>19, <2>2, <2>3 DEF SettleCommit
<1>20. ASSUME NEW h \in Handlers, Fails(h)
       PROVE  Decided(k)'
  BY <1>20 DEF Fails, Finish, Become, Idle
<1>21. ASSUME NEW h \in Handlers, ApproveUnsigned(h)
       PROVE  Decided(k)'
  BY <1>21 DEF ApproveUnsigned, Finish, Become, Idle
<1>22. QED
  BY <1>1, <1>2, <1>3, <1>4, <1>5, <1>6, <1>7, <1>8, <1>9, <1>10,
     <1>11, <1>12, <1>13, <1>14, <1>15, <1>16, <1>17, <1>18, <1>19,
     <1>20, <1>21
     DEF Next, Step

(* Only the steps after a decision, and the check of PayReadApplication,   *)
(* lead to a request that opens, activates or settles a lease.             *)
LEMMA FoundDecidedStep ==
  ASSUME TypeOK, Known, FoundDecided, NothingBeforeDecision, [Next]_vars PROVE FoundDecided'
<1> USE DEF TypeOK, DatabaseTypes, PaymentTypes, RequestTypes, Requests, Known,
            RowsKnown, RequestsKnown, Rows, NoRow, FoundDecided,
            NothingBeforeDecision, Decided, Deciding, Settling, Paying
<1>1. CASE UNCHANGED vars
  BY <1>1 DEF FoundDecided
<1>2. ASSUME NEW h \in Handlers, NEW b \in Bids, SubmitRead(h, b)
      PROVE  FoundDecided'
  BY <1>2 DEF SubmitRead, Start, Become, Idle
<1>3. ASSUME NEW h \in Handlers, SubmitAgreement(h)
      PROVE  FoundDecided'
  BY <1>3 DEF SubmitAgreement, Goto, Become
<1>4. ASSUME NEW h \in Handlers, SubmitLease(h)
      PROVE  FoundDecided'
  BY <1>4 DEF SubmitLease, IsNext, Become
<1>5. ASSUME NEW h \in Handlers, SubmitApplication(h)
      PROVE  FoundDecided'
  BY <1>5 DEF SubmitApplication, IsNext, Become
<1>6. ASSUME NEW h \in Handlers, SubmitNotify(h)
      PROVE  FoundDecided'
  BY <1>6 DEF SubmitNotify, Finish, Become, Idle
<1>7. ASSUME NEW h \in Handlers, NEW a \in Rows, NEW d \in Decisions, ManageRead(h, a, d)
      PROVE  FoundDecided'
  BY <1>7 DEF ManageRead, Start, Become, Idle, Decisions
<1>8. ASSUME NEW h \in Handlers, Reject(h)
      PROVE  FoundDecided'
  BY <1>8 DEF Reject, Goto, Become
<1>9. ASSUME NEW h \in Handlers, Approve(h)
      PROVE  FoundDecided'
  BY <1>9 DEF Approve, Goto, Become
<1>10. ASSUME NEW h \in Handlers, ReadContract(h)
       PROVE  FoundDecided'
  BY <1>10 DEF ReadContract, Become
<1>11. ASSUME NEW h \in Handlers, Countersign(h)
       PROVE  FoundDecided'
  BY <1>11 DEF Countersign, Goto, Become
<1>12. ASSUME NEW h \in Handlers, Tell(h)
       PROVE  FoundDecided'
  BY <1>12 DEF Tell, Finish, Become, Idle
<1>13. ASSUME NEW h \in Handlers, NEW l \in Rows, PayReadLease(h, l)
       PROVE  FoundDecided'
  BY <1>13 DEF PayReadLease, Start, Become, Idle
<1>14. ASSUME NEW h \in Handlers, PayReadApplication(h)
       PROVE  FoundDecided'
  <2>1. CASE /\ Decided(req[h].lease)
             /\ Goto(h, "checkout")
    BY <1>14, <2>1 DEF PayReadApplication, Goto, Become
  <2>2. CASE Finish(h)
    BY <1>14, <2>2 DEF PayReadApplication, Finish, Become, Idle
  <2>3. QED
    BY <1>14, <2>1, <2>2 DEF PayReadApplication
<1>15. ASSUME NEW h \in Handlers, PayCheckout(h)
       PROVE  FoundDecided'
  BY <1>15 DEF PayCheckout, Finish, Become, Idle
<1>16. ASSUME NEW l \in Rows, CustomerPays(l)
       PROVE  FoundDecided'
  BY <1>16 DEF CustomerPays
<1>17. ASSUME NEW h \in Handlers, NEW l \in Rows, SettleReadLease(h, l)
       PROVE  FoundDecided'
  BY <1>17 DEF SettleReadLease, Start, Become, Idle
<1>18. ASSUME NEW h \in Handlers, SettleDocument(h)
       PROVE  FoundDecided'
  BY <1>18 DEF SettleDocument, Become
<1>19. ASSUME NEW h \in Handlers, SettleCommit(h)
       PROVE  FoundDecided'
  <2> DEFINE l == req[h].lease
  <2>1. l \in Rows /\ Drafted(l)
    BY <1>19, LeaseInHand DEF SettleCommit, Settling
  <2>2. CASE Activate(l, req[h].path)
    BY <1>19, <2>1, <2>2 DEF SettleCommit, Activate, Finish, Become, Idle
  <2>3. CASE UNCHANGED <<active, contract, status>>
    BY <1>19, <2>1, <2>3, SMTT(60) DEF SettleCommit, Finish, Become, Idle
  <2>4. QED
    BY <1>19, <2>2, <2>3 DEF SettleCommit
<1>20. ASSUME NEW h \in Handlers, Fails(h)
       PROVE  FoundDecided'
  BY <1>20 DEF Fails, Finish, Become, Idle
<1>21. ASSUME NEW h \in Handlers, ApproveUnsigned(h)
       PROVE  FoundDecided'
  BY <1>21 DEF ApproveUnsigned, Finish, Become, Idle
<1>22. QED
  BY <1>1, <1>2, <1>3, <1>4, <1>5, <1>6, <1>7, <1>8, <1>9, <1>10,
     <1>11, <1>12, <1>13, <1>14, <1>15, <1>16, <1>17, <1>18, <1>19,
     <1>20, <1>21
     DEF Next, Step

(* Only such a request opens or activates a lease.                         *)
LEMMA NothingBeforeDecisionStep ==
  ASSUME TypeOK, Known, FoundDecided, NothingBeforeDecision, [Next]_vars
  PROVE  NothingBeforeDecision'
<1> USE DEF TypeOK, DatabaseTypes, PaymentTypes, RequestTypes, Requests, Known,
            RowsKnown, RequestsKnown, Rows, NoRow, FoundDecided,
            NothingBeforeDecision, Decided, Deciding, Settling, Paying
<1>1. CASE UNCHANGED vars
  BY <1>1 DEF NothingBeforeDecision
<1>2. ASSUME NEW h \in Handlers, NEW b \in Bids, SubmitRead(h, b)
      PROVE  NothingBeforeDecision'
  BY <1>2 DEF SubmitRead, Start, Become, Idle
<1>3. ASSUME NEW h \in Handlers, SubmitAgreement(h)
      PROVE  NothingBeforeDecision'
  BY <1>3 DEF SubmitAgreement, Goto, Become
<1>4. ASSUME NEW h \in Handlers, SubmitLease(h)
      PROVE  NothingBeforeDecision'
  BY <1>4 DEF SubmitLease, IsNext, Become
<1>5. ASSUME NEW h \in Handlers, SubmitApplication(h)
      PROVE  NothingBeforeDecision'
  BY <1>5 DEF SubmitApplication, IsNext, Become
<1>6. ASSUME NEW h \in Handlers, SubmitNotify(h)
      PROVE  NothingBeforeDecision'
  BY <1>6 DEF SubmitNotify, Finish, Become, Idle
<1>7. ASSUME NEW h \in Handlers, NEW a \in Rows, NEW d \in Decisions, ManageRead(h, a, d)
      PROVE  NothingBeforeDecision'
  BY <1>7 DEF ManageRead, Start, Become, Idle, Decisions
<1>8. ASSUME NEW h \in Handlers, Reject(h)
      PROVE  NothingBeforeDecision'
  BY <1>8 DEF Reject, Goto, Become
<1>9. ASSUME NEW h \in Handlers, Approve(h)
      PROVE  NothingBeforeDecision'
  BY <1>9 DEF Approve, Goto, Become
<1>10. ASSUME NEW h \in Handlers, ReadContract(h)
       PROVE  NothingBeforeDecision'
  BY <1>10 DEF ReadContract, Become
<1>11. ASSUME NEW h \in Handlers, Countersign(h)
       PROVE  NothingBeforeDecision'
  BY <1>11 DEF Countersign, Goto, Become
<1>12. ASSUME NEW h \in Handlers, Tell(h)
       PROVE  NothingBeforeDecision'
  BY <1>12 DEF Tell, Finish, Become, Idle
<1>13. ASSUME NEW h \in Handlers, NEW l \in Rows, PayReadLease(h, l)
       PROVE  NothingBeforeDecision'
  BY <1>13 DEF PayReadLease, Start, Become, Idle
<1>14. ASSUME NEW h \in Handlers, PayReadApplication(h)
       PROVE  NothingBeforeDecision'
  <2>1. CASE Goto(h, "checkout")
    BY <1>14, <2>1 DEF PayReadApplication, Goto, Become
  <2>2. CASE Finish(h)
    BY <1>14, <2>2 DEF PayReadApplication, Finish, Become, Idle
  <2>3. QED
    BY <1>14, <2>1, <2>2 DEF PayReadApplication
<1>15. ASSUME NEW h \in Handlers, PayCheckout(h)
       PROVE  NothingBeforeDecision'
  BY <1>15 DEF PayCheckout, Finish, Become, Idle
<1>16. ASSUME NEW l \in Rows, CustomerPays(l)
       PROVE  NothingBeforeDecision'
  BY <1>16 DEF CustomerPays
<1>17. ASSUME NEW h \in Handlers, NEW l \in Rows, SettleReadLease(h, l)
       PROVE  NothingBeforeDecision'
  BY <1>17 DEF SettleReadLease, Start, Become, Idle
<1>18. ASSUME NEW h \in Handlers, SettleDocument(h)
       PROVE  NothingBeforeDecision'
  BY <1>18 DEF SettleDocument, Become
<1>19. ASSUME NEW h \in Handlers, SettleCommit(h)
       PROVE  NothingBeforeDecision'
  <2> DEFINE l == req[h].lease
  <2>1. l \in Rows /\ Drafted(l)
    BY <1>19, LeaseInHand DEF SettleCommit, Settling
  <2>2. CASE Activate(l, req[h].path)
    BY <1>19, <2>1, <2>2 DEF SettleCommit, Activate, Finish, Become, Idle
  <2>3. CASE UNCHANGED <<active, contract, status>>
    BY <1>19, <2>1, <2>3, SMTT(60) DEF SettleCommit, Finish, Become, Idle
  <2>4. QED
    BY <1>19, <2>2, <2>3 DEF SettleCommit
<1>20. ASSUME NEW h \in Handlers, Fails(h)
       PROVE  NothingBeforeDecision'
  BY <1>20 DEF Fails, Finish, Become, Idle
<1>21. ASSUME NEW h \in Handlers, ApproveUnsigned(h)
       PROVE  NothingBeforeDecision'
  BY <1>21 DEF ApproveUnsigned, Finish, Become, Idle
<1>22. QED
  BY <1>1, <1>2, <1>3, <1>4, <1>5, <1>6, <1>7, <1>8, <1>9, <1>10,
     <1>11, <1>12, <1>13, <1>14, <1>15, <1>16, <1>17, <1>18, <1>19,
     <1>20, <1>21
     DEF Next, Step

(* Only SettleCommit completes an application, with its lease.             *)
LEMMA CompletedIsActiveStep ==
  ASSUME TypeOK, Known, CompletedIsActive, [Next]_vars PROVE CompletedIsActive'
<1> USE DEF TypeOK, DatabaseTypes, PaymentTypes, RequestTypes, Requests, Known,
            RowsKnown, RequestsKnown, Rows, NoRow, CompletedIsActive
<1>1. CASE UNCHANGED vars
  BY <1>1 DEF CompletedIsActive
<1>2. ASSUME NEW h \in Handlers, NEW b \in Bids, SubmitRead(h, b)
      PROVE  CompletedIsActive'
  BY <1>2 DEF SubmitRead, Start, Become, Idle
<1>3. ASSUME NEW h \in Handlers, SubmitAgreement(h)
      PROVE  CompletedIsActive'
  BY <1>3 DEF SubmitAgreement, Goto, Become
<1>4. ASSUME NEW h \in Handlers, SubmitLease(h)
      PROVE  CompletedIsActive'
  BY <1>4 DEF SubmitLease, IsNext, Become
<1>5. ASSUME NEW h \in Handlers, SubmitApplication(h)
      PROVE  CompletedIsActive'
  BY <1>5 DEF SubmitApplication, IsNext, Become
<1>6. ASSUME NEW h \in Handlers, SubmitNotify(h)
      PROVE  CompletedIsActive'
  BY <1>6 DEF SubmitNotify, Finish, Become, Idle
<1>7. ASSUME NEW h \in Handlers, NEW a \in Rows, NEW d \in Decisions, ManageRead(h, a, d)
      PROVE  CompletedIsActive'
  BY <1>7 DEF ManageRead, Start, Become, Idle, Decisions
<1>8. ASSUME NEW h \in Handlers, Reject(h)
      PROVE  CompletedIsActive'
  BY <1>8 DEF Reject, Goto, Become
<1>9. ASSUME NEW h \in Handlers, Approve(h)
      PROVE  CompletedIsActive'
  BY <1>9 DEF Approve, Goto, Become
<1>10. ASSUME NEW h \in Handlers, ReadContract(h)
       PROVE  CompletedIsActive'
  BY <1>10 DEF ReadContract, Become
<1>11. ASSUME NEW h \in Handlers, Countersign(h)
       PROVE  CompletedIsActive'
  BY <1>11 DEF Countersign, Goto, Become
<1>12. ASSUME NEW h \in Handlers, Tell(h)
       PROVE  CompletedIsActive'
  BY <1>12 DEF Tell, Finish, Become, Idle
<1>13. ASSUME NEW h \in Handlers, NEW l \in Rows, PayReadLease(h, l)
       PROVE  CompletedIsActive'
  BY <1>13 DEF PayReadLease, Start, Become, Idle
<1>14. ASSUME NEW h \in Handlers, PayReadApplication(h)
       PROVE  CompletedIsActive'
  <2>1. CASE Goto(h, "checkout")
    BY <1>14, <2>1 DEF PayReadApplication, Goto, Become
  <2>2. CASE Finish(h)
    BY <1>14, <2>2 DEF PayReadApplication, Finish, Become, Idle
  <2>3. QED
    BY <1>14, <2>1, <2>2 DEF PayReadApplication
<1>15. ASSUME NEW h \in Handlers, PayCheckout(h)
       PROVE  CompletedIsActive'
  BY <1>15 DEF PayCheckout, Finish, Become, Idle
<1>16. ASSUME NEW l \in Rows, CustomerPays(l)
       PROVE  CompletedIsActive'
  BY <1>16 DEF CustomerPays
<1>17. ASSUME NEW h \in Handlers, NEW l \in Rows, SettleReadLease(h, l)
       PROVE  CompletedIsActive'
  BY <1>17 DEF SettleReadLease, Start, Become, Idle
<1>18. ASSUME NEW h \in Handlers, SettleDocument(h)
       PROVE  CompletedIsActive'
  BY <1>18 DEF SettleDocument, Become
<1>19. ASSUME NEW h \in Handlers, SettleCommit(h)
       PROVE  CompletedIsActive'
  <2> DEFINE l == req[h].lease
  <2>1. l \in Rows /\ Drafted(l)
    BY <1>19, LeaseInHand DEF SettleCommit, Settling
  <2>2. CASE Activate(l, req[h].path)
    BY <1>19, <2>1, <2>2 DEF SettleCommit, Activate, Finish, Become, Idle
  <2>3. CASE UNCHANGED <<active, contract, status>>
    BY <1>19, <2>1, <2>3, SMTT(60) DEF SettleCommit, Finish, Become, Idle
  <2>4. QED
    BY <1>19, <2>2, <2>3 DEF SettleCommit
<1>20. ASSUME NEW h \in Handlers, Fails(h)
       PROVE  CompletedIsActive'
  BY <1>20 DEF Fails, Finish, Become, Idle
<1>21. ASSUME NEW h \in Handlers, ApproveUnsigned(h)
       PROVE  CompletedIsActive'
  BY <1>21 DEF ApproveUnsigned, Finish, Become, Idle
<1>22. QED
  BY <1>1, <1>2, <1>3, <1>4, <1>5, <1>6, <1>7, <1>8, <1>9, <1>10,
     <1>11, <1>12, <1>13, <1>14, <1>15, <1>16, <1>17, <1>18, <1>19,
     <1>20, <1>21
     DEF Next, Step

(* Setting a flag that may be set already takes none back.                 *)
LEMMA FlagRaised ==
  ASSUME NEW f \in [Rows -> BOOLEAN], NEW g, NEW l \in Rows,
         g = [f EXCEPT ![l] = TRUE] \/ (f[l] /\ g = f)
  PROVE  g[l] /\ \A k \in Rows : f[k] => g[k]
  OBVIOUS

(* A settlement is of a lease somebody paid for, and only the one that     *)
(* found the lease inactive may have to activate it.                       *)
LEMMA SettlesPaidStep ==
  ASSUME TypeOK, Known, SettlesPaid, [Next]_vars PROVE SettlesPaid'
<1> USE DEF TypeOK, DatabaseTypes, PaymentTypes, RequestTypes, Requests, Known,
            RowsKnown, RequestsKnown, Rows, NoRow, SettlesPaid,
            Deciding, Paying, Settling
<1>1. CASE UNCHANGED vars
  BY <1>1 DEF SettlesPaid
<1>2. ASSUME NEW h \in Handlers, NEW b \in Bids, SubmitRead(h, b)
      PROVE  SettlesPaid'
  BY <1>2 DEF SubmitRead, Start, Become, Idle
<1>3. ASSUME NEW h \in Handlers, SubmitAgreement(h)
      PROVE  SettlesPaid'
  BY <1>3 DEF SubmitAgreement, Goto, Become
<1>4. ASSUME NEW h \in Handlers, SubmitLease(h)
      PROVE  SettlesPaid'
  BY <1>4 DEF SubmitLease, IsNext, Become
<1>5. ASSUME NEW h \in Handlers, SubmitApplication(h)
      PROVE  SettlesPaid'
  BY <1>5 DEF SubmitApplication, IsNext, Become
<1>6. ASSUME NEW h \in Handlers, SubmitNotify(h)
      PROVE  SettlesPaid'
  BY <1>6 DEF SubmitNotify, Finish, Become, Idle
<1>7. ASSUME NEW h \in Handlers, NEW a \in Rows, NEW d \in Decisions, ManageRead(h, a, d)
      PROVE  SettlesPaid'
  BY <1>7 DEF ManageRead, Start, Become, Idle, Decisions
<1>8. ASSUME NEW h \in Handlers, Reject(h)
      PROVE  SettlesPaid'
  BY <1>8 DEF Reject, Goto, Become
<1>9. ASSUME NEW h \in Handlers, Approve(h)
      PROVE  SettlesPaid'
  BY <1>9 DEF Approve, Goto, Become
<1>10. ASSUME NEW h \in Handlers, ReadContract(h)
       PROVE  SettlesPaid'
  BY <1>10 DEF ReadContract, Become
<1>11. ASSUME NEW h \in Handlers, Countersign(h)
       PROVE  SettlesPaid'
  BY <1>11 DEF Countersign, Goto, Become
<1>12. ASSUME NEW h \in Handlers, Tell(h)
       PROVE  SettlesPaid'
  BY <1>12 DEF Tell, Finish, Become, Idle
<1>13. ASSUME NEW h \in Handlers, NEW l \in Rows, PayReadLease(h, l)
       PROVE  SettlesPaid'
  BY <1>13 DEF PayReadLease, Start, Become, Idle
<1>14. ASSUME NEW h \in Handlers, PayReadApplication(h)
       PROVE  SettlesPaid'
  <2>1. CASE Goto(h, "checkout")
    BY <1>14, <2>1 DEF PayReadApplication, Goto, Become
  <2>2. CASE Finish(h)
    BY <1>14, <2>2 DEF PayReadApplication, Finish, Become, Idle
  <2>3. QED
    BY <1>14, <2>1, <2>2 DEF PayReadApplication
<1>15. ASSUME NEW h \in Handlers, PayCheckout(h)
       PROVE  SettlesPaid'
  BY <1>15 DEF PayCheckout, Finish, Become, Idle
<1>16. ASSUME NEW l \in Rows, CustomerPays(l)
       PROVE  SettlesPaid'
  BY <1>16 DEF CustomerPays
<1>17. ASSUME NEW h \in Handlers, NEW l \in Rows, SettleReadLease(h, l)
       PROVE  SettlesPaid'
  BY <1>17 DEF SettleReadLease, Start, Become, Idle
<1>18. ASSUME NEW h \in Handlers, SettleDocument(h)
       PROVE  SettlesPaid'
  BY <1>18 DEF SettleDocument, Become
<1>19. ASSUME NEW h \in Handlers, SettleCommit(h)
       PROVE  SettlesPaid'
  <2> DEFINE l == req[h].lease
  <2>1. l \in Rows
    BY <1>19, LeaseInHand DEF SettleCommit, Settling
  <2>2. active' = [active EXCEPT ![l] = TRUE] \/ (active[l] /\ UNCHANGED active)
    BY <1>19, <2>1 DEF SettleCommit, Activate
  <2>3. debited' = [debited EXCEPT ![l] = TRUE] /\ UNCHANGED paid /\ Finish(h)
    BY <1>19 DEF SettleCommit
  <2>4. active'[l] /\ \A k \in Rows : active[k] => active'[k]
    <3>1. active \in [Rows -> BOOLEAN]
      BY DEF TypeOK
    <3> HIDE DEF l
    <3>2. QED
      BY ONLY <2>1, <2>2, <3>1, FlagRaised, Zenon
  <2>5. \A k \in Rows : debited'[k] => k = l \/ debited[k]
    BY <2>1, <2>3
  <2>6. \A k \in Rows : debited'[k] => active'[k]
    BY <2>4, <2>5
  <2>7. req' = [req EXCEPT ![h] = Idle]
    BY <2>3 DEF Finish, Become
  <2>8. ASSUME NEW g \in Handlers
        PROVE  /\ req'[g].at \in Settling => paid'[req'[g].lease]
               /\ req'[g].at = "document" => req'[g].first
               /\ req'[g].at = "settle" => req'[g].first \/ active'[req'[g].lease]
    <3>1. CASE g = h
      BY <2>7, <3>1 DEF Idle
    <3>2. CASE g # h
      <4>1. req'[g] = req[g] /\ UNCHANGED paid
        BY <2>3, <2>7, <3>2
      <4>2. req[g].at = "settle" => req[g].lease \in Rows
        BY LeaseInHand
      <4>3. QED
        BY <2>4, <4>1, <4>2
    <3>3. QED
      BY <3>1, <3>2
  <2>9. QED
    BY <2>6, <2>8
<1>20. ASSUME NEW h \in Handlers, Fails(h)
       PROVE  SettlesPaid'
  BY <1>20 DEF Fails, Finish, Become, Idle
<1>21. ASSUME NEW h \in Handlers, ApproveUnsigned(h)
       PROVE  SettlesPaid'
  BY <1>21 DEF ApproveUnsigned, Finish, Become, Idle
<1>22. QED
  BY <1>1, <1>2, <1>3, <1>4, <1>5, <1>6, <1>7, <1>8, <1>9, <1>10,
     <1>11, <1>12, <1>13, <1>14, <1>15, <1>16, <1>17, <1>18, <1>19,
     <1>20, <1>21
     DEF Next, Step

(* Every write of the contract column keeps a mark of the renter or the    *)
(* PDF.                                                                    *)
LEMMA MarkedStep ==
  ASSUME TypeOK, Known, Marked, [Next]_vars PROVE Marked'
<1> USE TenancyAssumption DEF TypeOK, DatabaseTypes, PaymentTypes, RequestTypes,
            Requests, Known, RowsKnown, RequestsKnown, Rows, NoRow, Marked,
            Bears, Drafted, Deciding
<1>1. CASE UNCHANGED vars
  BY <1>1 DEF Marked
<1>2. ASSUME NEW h \in Handlers, NEW b \in Bids, SubmitRead(h, b)
      PROVE  Marked'
  BY <1>2 DEF SubmitRead, Start, Become, Idle
<1>3. ASSUME NEW h \in Handlers, SubmitAgreement(h)
      PROVE  Marked'
  BY <1>3 DEF SubmitAgreement, Goto, Become
<1>4. ASSUME NEW h \in Handlers, SubmitLease(h)
      PROVE  Marked'
  BY <1>4 DEF SubmitLease, IsNext, Become
<1>5. ASSUME NEW h \in Handlers, SubmitApplication(h)
      PROVE  Marked'
  BY <1>5 DEF SubmitApplication, IsNext, Become
<1>6. ASSUME NEW h \in Handlers, SubmitNotify(h)
      PROVE  Marked'
  BY <1>6 DEF SubmitNotify, Finish, Become, Idle
<1>7. ASSUME NEW h \in Handlers, NEW a \in Rows, NEW d \in Decisions, ManageRead(h, a, d)
      PROVE  Marked'
  BY <1>7 DEF ManageRead, Start, Become, Idle, Decisions
<1>8. ASSUME NEW h \in Handlers, Reject(h)
      PROVE  Marked'
  BY <1>8 DEF Reject, Goto, Become
<1>9. ASSUME NEW h \in Handlers, Approve(h)
      PROVE  Marked'
  BY <1>9 DEF Approve, Goto, Become
<1>10. ASSUME NEW h \in Handlers, ReadContract(h)
       PROVE  Marked'
  BY <1>10 DEF ReadContract, Become
<1>11. ASSUME NEW h \in Handlers, Countersign(h)
       PROVE  Marked'
  BY <1>11 DEF Countersign, Goto, Become
<1>12. ASSUME NEW h \in Handlers, Tell(h)
       PROVE  Marked'
  BY <1>12 DEF Tell, Finish, Become, Idle
<1>13. ASSUME NEW h \in Handlers, NEW l \in Rows, PayReadLease(h, l)
       PROVE  Marked'
  BY <1>13 DEF PayReadLease, Start, Become, Idle
<1>14. ASSUME NEW h \in Handlers, PayReadApplication(h)
       PROVE  Marked'
  <2>1. CASE Goto(h, "checkout")
    BY <1>14, <2>1 DEF PayReadApplication, Goto, Become
  <2>2. CASE Finish(h)
    BY <1>14, <2>2 DEF PayReadApplication, Finish, Become, Idle
  <2>3. QED
    BY <1>14, <2>1, <2>2 DEF PayReadApplication
<1>15. ASSUME NEW h \in Handlers, PayCheckout(h)
       PROVE  Marked'
  BY <1>15 DEF PayCheckout, Finish, Become, Idle
<1>16. ASSUME NEW l \in Rows, CustomerPays(l)
       PROVE  Marked'
  BY <1>16 DEF CustomerPays
<1>17. ASSUME NEW h \in Handlers, NEW l \in Rows, SettleReadLease(h, l)
       PROVE  Marked'
  BY <1>17 DEF SettleReadLease, Start, Become, Idle
<1>18. ASSUME NEW h \in Handlers, SettleDocument(h)
       PROVE  Marked'
  BY <1>18 DEF SettleDocument, Become
<1>19. ASSUME NEW h \in Handlers, SettleCommit(h)
       PROVE  Marked'
  <2> DEFINE l == req[h].lease
  <2>1. l \in Rows /\ Drafted(l)
    BY <1>19, LeaseInHand DEF SettleCommit, Settling
  <2>2. CASE Activate(l, req[h].path)
    BY <1>19, <2>1, <2>2 DEF SettleCommit, Activate, Finish, Become, Idle
  <2>3. CASE UNCHANGED <<active, contract, status>>
    BY <1>19, <2>1, <2>3, SMTT(60) DEF SettleCommit, Finish, Become, Idle
  <2>4. QED
    BY <1>19, <2>2, <2>3 DEF SettleCommit
<1>20. ASSUME NEW h \in Handlers, Fails(h)
       PROVE  Marked'
  BY <1>20 DEF Fails, Finish, Become, Idle
<1>21. ASSUME NEW h \in Handlers, ApproveUnsigned(h)
       PROVE  Marked'
  BY <1>21 DEF ApproveUnsigned, Finish, Become, Idle
<1>22. QED
  BY <1>1, <1>2, <1>3, <1>4, <1>5, <1>6, <1>7, <1>8, <1>9, <1>10,
     <1>11, <1>12, <1>13, <1>14, <1>15, <1>16, <1>17, <1>18, <1>19,
     <1>20, <1>21
     DEF Next, Step

(* Countersign adds the landlord to what the renter signed; SettleCommit   *)
(* activates with a debit.                                                 *)
LEMMA ActiveIsSignedStep ==
  ASSUME TypeOK, Known, Marked, ActiveIsSigned, [Next]_vars PROVE ActiveIsSigned'
<1> USE DEF TypeOK, DatabaseTypes, PaymentTypes, RowsKnown, Known, Rows, NoRow,
            Marked, Bears, Drafted, ActiveIsSigned, Deciding, Settling
<1>1. CASE UNCHANGED vars
  BY <1>1 DEF ActiveIsSigned
<1>2. ASSUME NEW h \in Handlers, NEW b \in Bids, SubmitRead(h, b)
      PROVE  ActiveIsSigned'
  BY <1>2 DEF SubmitRead, Start, Become, Idle
<1>3. ASSUME NEW h \in Handlers, SubmitAgreement(h)
      PROVE  ActiveIsSigned'
  BY <1>3 DEF SubmitAgreement, Goto, Become
<1>4. ASSUME NEW h \in Handlers, SubmitLease(h)
      PROVE  ActiveIsSigned'
  BY <1>4 DEF SubmitLease, IsNext, Become
<1>5. ASSUME NEW h \in Handlers, SubmitApplication(h)
      PROVE  ActiveIsSigned'
  BY <1>5 DEF SubmitApplication, IsNext, Become
<1>6. ASSUME NEW h \in Handlers, SubmitNotify(h)
      PROVE  ActiveIsSigned'
  BY <1>6 DEF SubmitNotify, Finish, Become, Idle
<1>7. ASSUME NEW h \in Handlers, NEW a \in Rows, NEW d \in Decisions, ManageRead(h, a, d)
      PROVE  ActiveIsSigned'
  BY <1>7 DEF ManageRead, Start, Become, Idle, Decisions
<1>8. ASSUME NEW h \in Handlers, Reject(h)
      PROVE  ActiveIsSigned'
  BY <1>8 DEF Reject, Goto, Become
<1>9. ASSUME NEW h \in Handlers, Approve(h)
      PROVE  ActiveIsSigned'
  BY <1>9 DEF Approve, Goto, Become
<1>10. ASSUME NEW h \in Handlers, ReadContract(h)
       PROVE  ActiveIsSigned'
  BY <1>10 DEF ReadContract, Become
<1>11. ASSUME NEW h \in Handlers, Countersign(h)
       PROVE  ActiveIsSigned'
  BY <1>11 DEF Countersign, Goto, Become
<1>12. ASSUME NEW h \in Handlers, Tell(h)
       PROVE  ActiveIsSigned'
  BY <1>12 DEF Tell, Finish, Become, Idle
<1>13. ASSUME NEW h \in Handlers, NEW l \in Rows, PayReadLease(h, l)
       PROVE  ActiveIsSigned'
  BY <1>13 DEF PayReadLease, Start, Become, Idle
<1>14. ASSUME NEW h \in Handlers, PayReadApplication(h)
       PROVE  ActiveIsSigned'
  <2>1. CASE Goto(h, "checkout")
    BY <1>14, <2>1 DEF PayReadApplication, Goto, Become
  <2>2. CASE Finish(h)
    BY <1>14, <2>2 DEF PayReadApplication, Finish, Become, Idle
  <2>3. QED
    BY <1>14, <2>1, <2>2 DEF PayReadApplication
<1>15. ASSUME NEW h \in Handlers, PayCheckout(h)
       PROVE  ActiveIsSigned'
  BY <1>15 DEF PayCheckout, Finish, Become, Idle
<1>16. ASSUME NEW l \in Rows, CustomerPays(l)
       PROVE  ActiveIsSigned'
  BY <1>16 DEF CustomerPays
<1>17. ASSUME NEW h \in Handlers, NEW l \in Rows, SettleReadLease(h, l)
       PROVE  ActiveIsSigned'
  BY <1>17 DEF SettleReadLease, Start, Become, Idle
<1>18. ASSUME NEW h \in Handlers, SettleDocument(h)
       PROVE  ActiveIsSigned'
  BY <1>18 DEF SettleDocument, Become
<1>19. ASSUME NEW h \in Handlers, SettleCommit(h)
       PROVE  ActiveIsSigned'
  <2> DEFINE l == req[h].lease
  <2>1. l \in Rows /\ Drafted(l)
    BY <1>19, LeaseInHand DEF SettleCommit, Settling
  <2>2. CASE Activate(l, req[h].path)
    BY <1>19, <2>1, <2>2 DEF SettleCommit, Activate, Finish, Become, Idle
  <2>3. CASE UNCHANGED <<active, contract, status>>
    BY <1>19, <2>1, <2>3, SMTT(60) DEF SettleCommit, Finish, Become, Idle
  <2>4. QED
    BY <1>19, <2>2, <2>3 DEF SettleCommit
<1>20. ASSUME NEW h \in Handlers, Fails(h)
       PROVE  ActiveIsSigned'
  BY <1>20 DEF Fails, Finish, Become, Idle
<1>21. ASSUME NEW h \in Handlers, ApproveUnsigned(h)
       PROVE  ActiveIsSigned'
  BY <1>21 DEF ApproveUnsigned, Finish, Become, Idle
<1>22. QED
  BY <1>1, <1>2, <1>3, <1>4, <1>5, <1>6, <1>7, <1>8, <1>9, <1>10,
     <1>11, <1>12, <1>13, <1>14, <1>15, <1>16, <1>17, <1>18, <1>19,
     <1>20, <1>21
     DEF Next, Step

(* SettleDocument yields a path for what it stored, and nothing is deleted *)
(* from the bucket.                                                        *)
LEMMA PathIsStoredStep ==
  ASSUME TypeOK, Known, PathIsStored, DocumentIsStored, [Next]_vars PROVE PathIsStored'
<1> USE DEF TypeOK, DatabaseTypes, PaymentTypes, RequestTypes, Requests, Known,
            RowsKnown, RequestsKnown, Rows, NoRow, PathIsStored,
            DocumentIsStored, Deciding, Settling
<1>1. CASE UNCHANGED vars
  BY <1>1 DEF PathIsStored
<1>2. ASSUME NEW h \in Handlers, NEW b \in Bids, SubmitRead(h, b)
      PROVE  PathIsStored'
  BY <1>2 DEF SubmitRead, Start, Become, Idle
<1>3. ASSUME NEW h \in Handlers, SubmitAgreement(h)
      PROVE  PathIsStored'
  BY <1>3 DEF SubmitAgreement, Goto, Become
<1>4. ASSUME NEW h \in Handlers, SubmitLease(h)
      PROVE  PathIsStored'
  BY <1>4 DEF SubmitLease, IsNext, Become
<1>5. ASSUME NEW h \in Handlers, SubmitApplication(h)
      PROVE  PathIsStored'
  BY <1>5 DEF SubmitApplication, IsNext, Become
<1>6. ASSUME NEW h \in Handlers, SubmitNotify(h)
      PROVE  PathIsStored'
  BY <1>6 DEF SubmitNotify, Finish, Become, Idle
<1>7. ASSUME NEW h \in Handlers, NEW a \in Rows, NEW d \in Decisions, ManageRead(h, a, d)
      PROVE  PathIsStored'
  BY <1>7 DEF ManageRead, Start, Become, Idle, Decisions
<1>8. ASSUME NEW h \in Handlers, Reject(h)
      PROVE  PathIsStored'
  BY <1>8 DEF Reject, Goto, Become
<1>9. ASSUME NEW h \in Handlers, Approve(h)
      PROVE  PathIsStored'
  BY <1>9 DEF Approve, Goto, Become
<1>10. ASSUME NEW h \in Handlers, ReadContract(h)
       PROVE  PathIsStored'
  BY <1>10 DEF ReadContract, Become
<1>11. ASSUME NEW h \in Handlers, Countersign(h)
       PROVE  PathIsStored'
  BY <1>11 DEF Countersign, Goto, Become
<1>12. ASSUME NEW h \in Handlers, Tell(h)
       PROVE  PathIsStored'
  BY <1>12 DEF Tell, Finish, Become, Idle
<1>13. ASSUME NEW h \in Handlers, NEW l \in Rows, PayReadLease(h, l)
       PROVE  PathIsStored'
  BY <1>13 DEF PayReadLease, Start, Become, Idle
<1>14. ASSUME NEW h \in Handlers, PayReadApplication(h)
       PROVE  PathIsStored'
  <2>1. CASE Goto(h, "checkout")
    BY <1>14, <2>1 DEF PayReadApplication, Goto, Become
  <2>2. CASE Finish(h)
    BY <1>14, <2>2 DEF PayReadApplication, Finish, Become, Idle
  <2>3. QED
    BY <1>14, <2>1, <2>2 DEF PayReadApplication
<1>15. ASSUME NEW h \in Handlers, PayCheckout(h)
       PROVE  PathIsStored'
  BY <1>15 DEF PayCheckout, Finish, Become, Idle
<1>16. ASSUME NEW l \in Rows, CustomerPays(l)
       PROVE  PathIsStored'
  BY <1>16 DEF CustomerPays
<1>17. ASSUME NEW h \in Handlers, NEW l \in Rows, SettleReadLease(h, l)
       PROVE  PathIsStored'
  BY <1>17 DEF SettleReadLease, Start, Become, Idle
<1>18. ASSUME NEW h \in Handlers, SettleDocument(h)
       PROVE  PathIsStored'
  BY <1>18 DEF SettleDocument, Become
<1>19. ASSUME NEW h \in Handlers, SettleCommit(h)
       PROVE  PathIsStored'
  <2> DEFINE l == req[h].lease
  <2>1. l \in Rows /\ Drafted(l)
    BY <1>19, LeaseInHand DEF SettleCommit, Settling
  <2>2. CASE Activate(l, req[h].path)
    BY <1>19, <2>1, <2>2 DEF SettleCommit, Activate, Finish, Become, Idle
  <2>3. CASE UNCHANGED <<active, contract, status>>
    BY <1>19, <2>1, <2>3, SMTT(60) DEF SettleCommit, Finish, Become, Idle
  <2>4. QED
    BY <1>19, <2>2, <2>3 DEF SettleCommit
<1>20. ASSUME NEW h \in Handlers, Fails(h)
       PROVE  PathIsStored'
  BY <1>20 DEF Fails, Finish, Become, Idle
<1>21. ASSUME NEW h \in Handlers, ApproveUnsigned(h)
       PROVE  PathIsStored'
  BY <1>21 DEF ApproveUnsigned, Finish, Become, Idle
<1>22. QED
  BY <1>1, <1>2, <1>3, <1>4, <1>5, <1>6, <1>7, <1>8, <1>9, <1>10,
     <1>11, <1>12, <1>13, <1>14, <1>15, <1>16, <1>17, <1>18, <1>19,
     <1>20, <1>21
     DEF Next, Step

(* Only SettleCommit and Countersign put a path into the contract column.  *)
LEMMA DocumentIsStoredStep ==
  ASSUME TypeOK, Known, PathIsStored, DocumentIsStored, [Next]_vars PROVE DocumentIsStored'
<1> USE DEF TypeOK, DatabaseTypes, PaymentTypes, RequestTypes, Requests, Known,
            RowsKnown, RequestsKnown, Rows, NoRow, PathIsStored,
            DocumentIsStored, Deciding, Settling
<1>1. CASE UNCHANGED vars
  BY <1>1 DEF DocumentIsStored
<1>2. ASSUME NEW h \in Handlers, NEW b \in Bids, SubmitRead(h, b)
      PROVE  DocumentIsStored'
  BY <1>2 DEF SubmitRead, Start, Become, Idle
<1>3. ASSUME NEW h \in Handlers, SubmitAgreement(h)
      PROVE  DocumentIsStored'
  BY <1>3 DEF SubmitAgreement, Goto, Become
<1>4. ASSUME NEW h \in Handlers, SubmitLease(h)
      PROVE  DocumentIsStored'
  BY <1>4 DEF SubmitLease, IsNext, Become
<1>5. ASSUME NEW h \in Handlers, SubmitApplication(h)
      PROVE  DocumentIsStored'
  BY <1>5 DEF SubmitApplication, IsNext, Become
<1>6. ASSUME NEW h \in Handlers, SubmitNotify(h)
      PROVE  DocumentIsStored'
  BY <1>6 DEF SubmitNotify, Finish, Become, Idle
<1>7. ASSUME NEW h \in Handlers, NEW a \in Rows, NEW d \in Decisions, ManageRead(h, a, d)
      PROVE  DocumentIsStored'
  BY <1>7 DEF ManageRead, Start, Become, Idle, Decisions
<1>8. ASSUME NEW h \in Handlers, Reject(h)
      PROVE  DocumentIsStored'
  BY <1>8 DEF Reject, Goto, Become
<1>9. ASSUME NEW h \in Handlers, Approve(h)
      PROVE  DocumentIsStored'
  BY <1>9 DEF Approve, Goto, Become
<1>10. ASSUME NEW h \in Handlers, ReadContract(h)
       PROVE  DocumentIsStored'
  BY <1>10 DEF ReadContract, Become
<1>11. ASSUME NEW h \in Handlers, Countersign(h)
       PROVE  DocumentIsStored'
  BY <1>11 DEF Countersign, Goto, Become
<1>12. ASSUME NEW h \in Handlers, Tell(h)
       PROVE  DocumentIsStored'
  BY <1>12 DEF Tell, Finish, Become, Idle
<1>13. ASSUME NEW h \in Handlers, NEW l \in Rows, PayReadLease(h, l)
       PROVE  DocumentIsStored'
  BY <1>13 DEF PayReadLease, Start, Become, Idle
<1>14. ASSUME NEW h \in Handlers, PayReadApplication(h)
       PROVE  DocumentIsStored'
  <2>1. CASE Goto(h, "checkout")
    BY <1>14, <2>1 DEF PayReadApplication, Goto, Become
  <2>2. CASE Finish(h)
    BY <1>14, <2>2 DEF PayReadApplication, Finish, Become, Idle
  <2>3. QED
    BY <1>14, <2>1, <2>2 DEF PayReadApplication
<1>15. ASSUME NEW h \in Handlers, PayCheckout(h)
       PROVE  DocumentIsStored'
  BY <1>15 DEF PayCheckout, Finish, Become, Idle
<1>16. ASSUME NEW l \in Rows, CustomerPays(l)
       PROVE  DocumentIsStored'
  BY <1>16 DEF CustomerPays
<1>17. ASSUME NEW h \in Handlers, NEW l \in Rows, SettleReadLease(h, l)
       PROVE  DocumentIsStored'
  BY <1>17 DEF SettleReadLease, Start, Become, Idle
<1>18. ASSUME NEW h \in Handlers, SettleDocument(h)
       PROVE  DocumentIsStored'
  BY <1>18 DEF SettleDocument, Become
<1>19. ASSUME NEW h \in Handlers, SettleCommit(h)
       PROVE  DocumentIsStored'
  <2> DEFINE l == req[h].lease
  <2>1. l \in Rows /\ Drafted(l)
    BY <1>19, LeaseInHand DEF SettleCommit, Settling
  <2>2. CASE Activate(l, req[h].path)
    BY <1>19, <2>1, <2>2 DEF SettleCommit, Activate, Finish, Become, Idle
  <2>3. CASE UNCHANGED <<active, contract, status>>
    BY <1>19, <2>1, <2>3, SMTT(60) DEF SettleCommit, Finish, Become, Idle
  <2>4. QED
    BY <1>19, <2>2, <2>3 DEF SettleCommit
<1>20. ASSUME NEW h \in Handlers, Fails(h)
       PROVE  DocumentIsStored'
  BY <1>20 DEF Fails, Finish, Become, Idle
<1>21. ASSUME NEW h \in Handlers, ApproveUnsigned(h)
       PROVE  DocumentIsStored'
  BY <1>21 DEF ApproveUnsigned, Finish, Become, Idle
<1>22. QED
  BY <1>1, <1>2, <1>3, <1>4, <1>5, <1>6, <1>7, <1>8, <1>9, <1>10,
     <1>11, <1>12, <1>13, <1>14, <1>15, <1>16, <1>17, <1>18, <1>19,
     <1>20, <1>21
     DEF Next, Step

(* Only Countersign leads an approval to its answer, and no lease is       *)
(* deactivated.                                                            *)
LEMMA ToldIsActiveStep ==
  ASSUME TypeOK, Known, ToldIsActive, [Next]_vars PROVE ToldIsActive'
<1> USE DEF TypeOK, DatabaseTypes, PaymentTypes, RequestTypes, Requests, Known,
            RowsKnown, RequestsKnown, Rows, NoRow, ToldIsActive, Deciding,
            Settling
<1>1. CASE UNCHANGED vars
  BY <1>1 DEF ToldIsActive
<1>2. ASSUME NEW h \in Handlers, NEW b \in Bids, SubmitRead(h, b)
      PROVE  ToldIsActive'
  BY <1>2 DEF SubmitRead, Start, Become, Idle
<1>3. ASSUME NEW h \in Handlers, SubmitAgreement(h)
      PROVE  ToldIsActive'
  BY <1>3 DEF SubmitAgreement, Goto, Become
<1>4. ASSUME NEW h \in Handlers, SubmitLease(h)
      PROVE  ToldIsActive'
  BY <1>4 DEF SubmitLease, IsNext, Become
<1>5. ASSUME NEW h \in Handlers, SubmitApplication(h)
      PROVE  ToldIsActive'
  BY <1>5 DEF SubmitApplication, IsNext, Become
<1>6. ASSUME NEW h \in Handlers, SubmitNotify(h)
      PROVE  ToldIsActive'
  BY <1>6 DEF SubmitNotify, Finish, Become, Idle
<1>7. ASSUME NEW h \in Handlers, NEW a \in Rows, NEW d \in Decisions, ManageRead(h, a, d)
      PROVE  ToldIsActive'
  BY <1>7 DEF ManageRead, Start, Become, Idle, Decisions
<1>8. ASSUME NEW h \in Handlers, Reject(h)
      PROVE  ToldIsActive'
  BY <1>8 DEF Reject, Goto, Become
<1>9. ASSUME NEW h \in Handlers, Approve(h)
      PROVE  ToldIsActive'
  BY <1>9 DEF Approve, Goto, Become
<1>10. ASSUME NEW h \in Handlers, ReadContract(h)
       PROVE  ToldIsActive'
  BY <1>10 DEF ReadContract, Become
<1>11. ASSUME NEW h \in Handlers, Countersign(h)
       PROVE  ToldIsActive'
  BY <1>11 DEF Countersign, Goto, Become
<1>12. ASSUME NEW h \in Handlers, Tell(h)
       PROVE  ToldIsActive'
  BY <1>12 DEF Tell, Finish, Become, Idle
<1>13. ASSUME NEW h \in Handlers, NEW l \in Rows, PayReadLease(h, l)
       PROVE  ToldIsActive'
  BY <1>13 DEF PayReadLease, Start, Become, Idle
<1>14. ASSUME NEW h \in Handlers, PayReadApplication(h)
       PROVE  ToldIsActive'
  <2>1. CASE Goto(h, "checkout")
    BY <1>14, <2>1 DEF PayReadApplication, Goto, Become
  <2>2. CASE Finish(h)
    BY <1>14, <2>2 DEF PayReadApplication, Finish, Become, Idle
  <2>3. QED
    BY <1>14, <2>1, <2>2 DEF PayReadApplication
<1>15. ASSUME NEW h \in Handlers, PayCheckout(h)
       PROVE  ToldIsActive'
  BY <1>15 DEF PayCheckout, Finish, Become, Idle
<1>16. ASSUME NEW l \in Rows, CustomerPays(l)
       PROVE  ToldIsActive'
  BY <1>16 DEF CustomerPays
<1>17. ASSUME NEW h \in Handlers, NEW l \in Rows, SettleReadLease(h, l)
       PROVE  ToldIsActive'
  BY <1>17 DEF SettleReadLease, Start, Become, Idle
<1>18. ASSUME NEW h \in Handlers, SettleDocument(h)
       PROVE  ToldIsActive'
  BY <1>18 DEF SettleDocument, Become
<1>19. ASSUME NEW h \in Handlers, SettleCommit(h)
       PROVE  ToldIsActive'
  <2> DEFINE l == req[h].lease
  <2>1. l \in Rows /\ Drafted(l)
    BY <1>19, LeaseInHand DEF SettleCommit, Settling
  <2>2. CASE Activate(l, req[h].path)
    BY <1>19, <2>1, <2>2 DEF SettleCommit, Activate, Finish, Become, Idle
  <2>3. CASE UNCHANGED <<active, contract, status>>
    BY <1>19, <2>1, <2>3, SMTT(60) DEF SettleCommit, Finish, Become, Idle
  <2>4. QED
    BY <1>19, <2>2, <2>3 DEF SettleCommit
<1>20. ASSUME NEW h \in Handlers, Fails(h)
       PROVE  ToldIsActive'
  BY <1>20 DEF Fails, Finish, Become, Idle
<1>21. ASSUME NEW h \in Handlers, ApproveUnsigned(h)
       PROVE  ToldIsActive'
  BY <1>21 DEF ApproveUnsigned, Finish, Become, Idle
<1>22. QED
  BY <1>1, <1>2, <1>3, <1>4, <1>5, <1>6, <1>7, <1>8, <1>9, <1>10,
     <1>11, <1>12, <1>13, <1>14, <1>15, <1>16, <1>17, <1>18, <1>19,
     <1>20, <1>21
     DEF Next, Step

(* Tell confirms an approval of an active lease, and Fails is a fault.     *)
LEMMA ApprovalIsWholeStep ==
  ASSUME TypeOK, Known, ToldIsActive, ApprovalIsWhole, [Next]_vars PROVE ApprovalIsWhole'
<1> USE DEF TypeOK, DatabaseTypes, PaymentTypes, RequestTypes, Requests, Known,
            RowsKnown, RequestsKnown, Rows, NoRow, ToldIsActive,
            ApprovalIsWhole, Deciding
<1>1. CASE UNCHANGED vars
  BY <1>1 DEF ApprovalIsWhole
<1>2. ASSUME NEW h \in Handlers, NEW b \in Bids, SubmitRead(h, b)
      PROVE  ApprovalIsWhole'
  BY <1>2 DEF SubmitRead, Start, Become, Idle
<1>3. ASSUME NEW h \in Handlers, SubmitAgreement(h)
      PROVE  ApprovalIsWhole'
  BY <1>3 DEF SubmitAgreement, Goto, Become
<1>4. ASSUME NEW h \in Handlers, SubmitLease(h)
      PROVE  ApprovalIsWhole'
  BY <1>4 DEF SubmitLease, IsNext, Become
<1>5. ASSUME NEW h \in Handlers, SubmitApplication(h)
      PROVE  ApprovalIsWhole'
  BY <1>5 DEF SubmitApplication, IsNext, Become
<1>6. ASSUME NEW h \in Handlers, SubmitNotify(h)
      PROVE  ApprovalIsWhole'
  BY <1>6 DEF SubmitNotify, Finish, Become, Idle
<1>7. ASSUME NEW h \in Handlers, NEW a \in Rows, NEW d \in Decisions, ManageRead(h, a, d)
      PROVE  ApprovalIsWhole'
  BY <1>7 DEF ManageRead, Start, Become, Idle, Decisions
<1>8. ASSUME NEW h \in Handlers, Reject(h)
      PROVE  ApprovalIsWhole'
  BY <1>8 DEF Reject, Goto, Become
<1>9. ASSUME NEW h \in Handlers, Approve(h)
      PROVE  ApprovalIsWhole'
  BY <1>9 DEF Approve, Goto, Become
<1>10. ASSUME NEW h \in Handlers, ReadContract(h)
       PROVE  ApprovalIsWhole'
  BY <1>10 DEF ReadContract, Become
<1>11. ASSUME NEW h \in Handlers, Countersign(h)
       PROVE  ApprovalIsWhole'
  BY <1>11 DEF Countersign, Goto, Become
<1>12. ASSUME NEW h \in Handlers, Tell(h)
       PROVE  ApprovalIsWhole'
  BY <1>12 DEF Tell, Finish, Become, Idle
<1>13. ASSUME NEW h \in Handlers, NEW l \in Rows, PayReadLease(h, l)
       PROVE  ApprovalIsWhole'
  BY <1>13 DEF PayReadLease, Start, Become, Idle
<1>14. ASSUME NEW h \in Handlers, PayReadApplication(h)
       PROVE  ApprovalIsWhole'
  <2>1. CASE Goto(h, "checkout")
    BY <1>14, <2>1 DEF PayReadApplication, Goto, Become
  <2>2. CASE Finish(h)
    BY <1>14, <2>2 DEF PayReadApplication, Finish, Become, Idle
  <2>3. QED
    BY <1>14, <2>1, <2>2 DEF PayReadApplication
<1>15. ASSUME NEW h \in Handlers, PayCheckout(h)
       PROVE  ApprovalIsWhole'
  BY <1>15 DEF PayCheckout, Finish, Become, Idle
<1>16. ASSUME NEW l \in Rows, CustomerPays(l)
       PROVE  ApprovalIsWhole'
  BY <1>16 DEF CustomerPays
<1>17. ASSUME NEW h \in Handlers, NEW l \in Rows, SettleReadLease(h, l)
       PROVE  ApprovalIsWhole'
  BY <1>17 DEF SettleReadLease, Start, Become, Idle
<1>18. ASSUME NEW h \in Handlers, SettleDocument(h)
       PROVE  ApprovalIsWhole'
  BY <1>18 DEF SettleDocument, Become
<1>19. ASSUME NEW h \in Handlers, SettleCommit(h)
       PROVE  ApprovalIsWhole'
  <2> DEFINE l == req[h].lease
  <2>1. l \in Rows /\ Drafted(l)
    BY <1>19, LeaseInHand DEF SettleCommit, Settling
  <2>2. CASE Activate(l, req[h].path)
    BY <1>19, <2>1, <2>2 DEF SettleCommit, Activate, Finish, Become, Idle
  <2>3. CASE UNCHANGED <<active, contract, status>>
    BY <1>19, <2>1, <2>3, SMTT(60) DEF SettleCommit, Finish, Become, Idle
  <2>4. QED
    BY <1>19, <2>2, <2>3 DEF SettleCommit
<1>20. ASSUME NEW h \in Handlers, Fails(h)
       PROVE  ApprovalIsWhole'
  BY <1>20 DEF Fails, Finish, Become, Idle
<1>21. ASSUME NEW h \in Handlers, ApproveUnsigned(h)
       PROVE  ApprovalIsWhole'
  BY <1>21 DEF ApproveUnsigned, Finish, Become, Idle
<1>22. QED
  BY <1>1, <1>2, <1>3, <1>4, <1>5, <1>6, <1>7, <1>8, <1>9, <1>10,
     <1>11, <1>12, <1>13, <1>14, <1>15, <1>16, <1>17, <1>18, <1>19,
     <1>20, <1>21
     DEF Next, Step

(* A request takes a lease only when no other one holds it, and a draft is *)
(* new.                                                                    *)
LEMMA DisjointStep ==
  ASSUME TypeOK, Known, Disjoint, ~Overlap, [Next]_vars PROVE Disjoint'
<1> USE TenancyAssumption DEF TypeOK, DatabaseTypes, PaymentTypes, RequestTypes,
            Requests, Known, RowsKnown, RequestsKnown, Rows, NoRow, Disjoint,
            MayWorkOn, Drafted, Applied
<1>1. CASE UNCHANGED vars
  BY <1>1 DEF Disjoint
<1>2. ASSUME NEW h \in Handlers, NEW b \in Bids, SubmitRead(h, b)
      PROVE  Disjoint'
  BY <1>2 DEF SubmitRead, Start, Become, Idle
<1>3. ASSUME NEW h \in Handlers, SubmitAgreement(h)
      PROVE  Disjoint'
  BY <1>3 DEF SubmitAgreement, Goto, Become
<1>4. ASSUME NEW h \in Handlers, SubmitLease(h)
      PROVE  Disjoint'
  BY <1>4 DEF SubmitLease, IsNext, Become
<1>5. ASSUME NEW h \in Handlers, SubmitApplication(h)
      PROVE  Disjoint'
  BY <1>5 DEF SubmitApplication, IsNext, Become
<1>6. ASSUME NEW h \in Handlers, SubmitNotify(h)
      PROVE  Disjoint'
  BY <1>6 DEF SubmitNotify, Finish, Become, Idle
<1>7. ASSUME NEW h \in Handlers, NEW a \in Rows, NEW d \in Decisions, ManageRead(h, a, d)
      PROVE  Disjoint'
  BY <1>7 DEF ManageRead, Start, Become, Idle
<1>8. ASSUME NEW h \in Handlers, Reject(h)
      PROVE  Disjoint'
  BY <1>8 DEF Reject, Goto, Become
<1>9. ASSUME NEW h \in Handlers, Approve(h)
      PROVE  Disjoint'
  BY <1>9 DEF Approve, Goto, Become
<1>10. ASSUME NEW h \in Handlers, ReadContract(h)
       PROVE  Disjoint'
  BY <1>10 DEF ReadContract, Become
<1>11. ASSUME NEW h \in Handlers, Countersign(h)
       PROVE  Disjoint'
  BY <1>11 DEF Countersign, Goto, Become
<1>12. ASSUME NEW h \in Handlers, Tell(h)
       PROVE  Disjoint'
  BY <1>12 DEF Tell, Finish, Become, Idle
<1>13. ASSUME NEW h \in Handlers, NEW l \in Rows, PayReadLease(h, l)
       PROVE  Disjoint'
  BY <1>13 DEF PayReadLease, Start, Become, Idle
<1>14. ASSUME NEW h \in Handlers, PayReadApplication(h)
       PROVE  Disjoint'
  <2>1. CASE Goto(h, "checkout")
    BY <1>14, <2>1 DEF PayReadApplication, Goto, Become
  <2>2. CASE Finish(h)
    BY <1>14, <2>2 DEF PayReadApplication, Finish, Become, Idle
  <2>3. QED
    BY <1>14, <2>1, <2>2 DEF PayReadApplication
<1>15. ASSUME NEW h \in Handlers, PayCheckout(h)
       PROVE  Disjoint'
  BY <1>15 DEF PayCheckout, Finish, Become, Idle
<1>16. ASSUME NEW l \in Rows, CustomerPays(l)
       PROVE  Disjoint'
  BY <1>16 DEF CustomerPays
<1>17. ASSUME NEW h \in Handlers, NEW l \in Rows, SettleReadLease(h, l)
       PROVE  Disjoint'
  BY <1>17 DEF SettleReadLease, Start, Become, Idle
<1>18. ASSUME NEW h \in Handlers, SettleDocument(h)
       PROVE  Disjoint'
  BY <1>18 DEF SettleDocument, Become
<1>19. ASSUME NEW h \in Handlers, SettleCommit(h)
       PROVE  Disjoint'
  BY <1>19 DEF SettleCommit, Finish, Become, Idle
<1>20. ASSUME NEW h \in Handlers, Fails(h)
       PROVE  Disjoint'
  BY <1>20 DEF Fails, Finish, Become, Idle
<1>21. ASSUME NEW h \in Handlers, ApproveUnsigned(h)
       PROVE  Disjoint'
  BY <1>21 DEF ApproveUnsigned, Finish, Become, Idle
<1>22. QED
  BY <1>1, <1>2, <1>3, <1>4, <1>5, <1>6, <1>7, <1>8, <1>9, <1>10,
     <1>11, <1>12, <1>13, <1>14, <1>15, <1>16, <1>17, <1>18, <1>19,
     <1>20, <1>21
     DEF Next, Step

(* A settlement has its lease to itself, and completed applications are    *)
(* not decided again.                                                      *)
LEMMA SealedStep ==
  ASSUME TypeOK, Known, Disjoint, Sealed, DecidesPending, [Next]_vars PROVE Sealed'
<1> USE TenancyAssumption DEF TypeOK, DatabaseTypes, PaymentTypes, RequestTypes, Requests, Known,
            RowsKnown, RequestsKnown, Rows, NoRow, Disjoint, Sealed,
            Drafted, Applied, Deciding, Paying, Settling, Decisions
<1>1. CASE UNCHANGED vars
  BY <1>1 DEF Sealed
<1>2. ASSUME NEW h \in Handlers, NEW b \in Bids, SubmitRead(h, b)
      PROVE  Sealed'
  BY <1>2 DEF SubmitRead, Start, Become, Idle
<1>3. ASSUME NEW h \in Handlers, SubmitAgreement(h)
      PROVE  Sealed'
  BY <1>3 DEF SubmitAgreement, Goto, Become
<1>4. ASSUME NEW h \in Handlers, SubmitLease(h)
      PROVE  Sealed'
  BY <1>4 DEF SubmitLease, IsNext, Become
<1>5. ASSUME NEW h \in Handlers, SubmitApplication(h)
      PROVE  Sealed'
  BY <1>5 DEF SubmitApplication, IsNext, Become
<1>6. ASSUME NEW h \in Handlers, SubmitNotify(h)
      PROVE  Sealed'
  BY <1>6 DEF SubmitNotify, Finish, Become, Idle
<1>7. ASSUME NEW h \in Handlers, NEW a \in Rows, NEW d \in Decisions, ManageRead(h, a, d)
      PROVE  Sealed'
  BY <1>7 DEF ManageRead, Start, Become, Idle
<1>8. ASSUME NEW h \in Handlers, Reject(h)
      PROVE  Sealed'
  BY <1>8 DEF Reject, Goto, Become
<1>9. ASSUME NEW h \in Handlers, Approve(h)
      PROVE  Sealed'
  BY <1>9 DEF Approve, Goto, Become
<1>10. ASSUME NEW h \in Handlers, ReadContract(h)
       PROVE  Sealed'
  BY <1>10 DEF ReadContract, Become
<1>11. ASSUME NEW h \in Handlers, Countersign(h)
       PROVE  Sealed'
  BY <1>11 DEF Countersign, Goto, Become
<1>12. ASSUME NEW h \in Handlers, Tell(h)
       PROVE  Sealed'
  BY <1>12 DEF Tell, Finish, Become, Idle
<1>13. ASSUME NEW h \in Handlers, NEW l \in Rows, PayReadLease(h, l)
       PROVE  Sealed'
  BY <1>13 DEF PayReadLease, Start, Become, Idle
<1>14. ASSUME NEW h \in Handlers, PayReadApplication(h)
       PROVE  Sealed'
  <2>1. CASE Goto(h, "checkout")
    BY <1>14, <2>1 DEF PayReadApplication, Goto, Become
  <2>2. CASE Finish(h)
    BY <1>14, <2>2 DEF PayReadApplication, Finish, Become, Idle
  <2>3. QED
    BY <1>14, <2>1, <2>2 DEF PayReadApplication
<1>15. ASSUME NEW h \in Handlers, PayCheckout(h)
       PROVE  Sealed'
  BY <1>15 DEF PayCheckout, Finish, Become, Idle
<1>16. ASSUME NEW l \in Rows, CustomerPays(l)
       PROVE  Sealed'
  BY <1>16 DEF CustomerPays
<1>17. ASSUME NEW h \in Handlers, NEW l \in Rows, SettleReadLease(h, l)
       PROVE  Sealed'
  BY <1>17 DEF SettleReadLease, Start, Become, Idle
<1>18. ASSUME NEW h \in Handlers, SettleDocument(h)
       PROVE  Sealed'
  BY <1>18 DEF SettleDocument, Become
<1>19. ASSUME NEW h \in Handlers, SettleCommit(h)
       PROVE  Sealed'
  <2> DEFINE l == req[h].lease
  <2>1. l \in Rows /\ Drafted(l)
    BY <1>19, LeaseInHand DEF SettleCommit, Settling
  <2>2. CASE Activate(l, req[h].path)
    BY <1>19, <2>1, <2>2 DEF SettleCommit, Activate, Finish, Become, Idle
  <2>3. CASE UNCHANGED <<active, contract, status>>
    BY <1>19, <2>1, <2>3, SMTT(60) DEF SettleCommit, Finish, Become, Idle
  <2>4. QED
    BY <1>19, <2>2, <2>3 DEF SettleCommit
<1>20. ASSUME NEW h \in Handlers, Fails(h)
       PROVE  Sealed'
  BY <1>20 DEF Fails, Finish, Become, Idle
<1>21. ASSUME NEW h \in Handlers, ApproveUnsigned(h)
       PROVE  Sealed'
  BY <1>21 DEF ApproveUnsigned, Finish, Become, Idle
<1>22. QED
  BY <1>1, <1>2, <1>3, <1>4, <1>5, <1>6, <1>7, <1>8, <1>9, <1>10,
     <1>11, <1>12, <1>13, <1>14, <1>15, <1>16, <1>17, <1>18, <1>19,
     <1>20, <1>21
     DEF Next, Step

(* The applications that were made and the leases whose application was    *)
(* decided, as LeaseLifecycle sees them.                                   *)
Applications == {<<leaseOf[a], applicant[a]>> : a \in {n \in Rows : Applied(n)}}
DecidedLeases == {l \in Rows : Decided(l)}
Where(flag) == {l \in Rows : flag[l]}

(* A flag that is set on one lease puts that lease among those it is set   *)
(* on.                                                                     *)
LEMMA FlagIsSet ==
  ASSUME NEW f \in [Rows -> BOOLEAN], NEW l \in Rows
  PROVE  Where([f EXCEPT ![l] = TRUE]) = Where(f) \cup {l}
  BY DEF Where

(* A step that touches none of the rows LeaseLifecycle is read from is no  *)
(* step of it.                                                             *)
LEMMA LifecycleStutters ==
  ASSUME UNCHANGED <<tenant, appVars, active, checkout, paid, debited>>
  PROVE  UNCHANGED Lifecycle!lifecycle
  BY DEF Lifecycle!lifecycle, Lifecycle!stages, Applied, Decided

(* A new lease row is a draft.                                             *)
LEMMA SubmitLeaseDrafts ==
  ASSUME TypeOK, Known, NEW h \in Handlers, SubmitLease(h)
  PROVE  Lifecycle!Next
<1>1. PICK l \in Rows : tenant[l] = Nobody /\ tenant' = [tenant EXCEPT ![l] = req[h].bid]
  BY DEF SubmitLease, IsNext
<1>2. req[h].bid \in Bids
  BY DEF SubmitLease, Known, RequestsKnown
<1>3. Lifecycle!Draft(l, req[h].bid)
  <2>1. UNCHANGED <<applicant, leaseOf, status, active, checkout, paid, debited>>
    BY DEF SubmitLease
  <2>2. QED
    BY <1>1, <2>1 DEF Lifecycle!Draft, Lifecycle!stages, Applied, Decided
<1>4. QED
  BY <1>2, <1>3 DEF Lifecycle!Next

(* A new application row is the first application for its lease.           *)
LEMMA SubmitApplicationApplies ==
  ASSUME TypeOK, Known, OwnDraft, NEW h \in Handlers, SubmitApplication(h)
  PROVE  Lifecycle!Next
<1>1. PICK l \in Rows : l = req[h].lease /\ tenant[l] = req[h].bid /\ req[h].bid \in Bids
  BY DEF SubmitApplication, Known, RequestsKnown
<1>2. PICK n \in Rows :
        /\ applicant[n] = Nobody
        /\ applicant' = [applicant EXCEPT ![n] = req[h].bid]
        /\ leaseOf' = [leaseOf EXCEPT ![n] = l]
        /\ status' = [status EXCEPT ![n] = "pending_landlord_approval"]
  BY <1>1 DEF SubmitApplication, IsNext
<1>3. \A a \in Rows : leaseOf[a] # l
  BY <1>1 DEF SubmitApplication, OwnDraft
<1>4. \A b \in Bids : <<l, b>> \notin Applications
  BY <1>3 DEF Applications
<1>5. Applications' = Applications \cup {<<l, tenant[l]>>}
  <2>1. \A a \in Rows : /\ Applied(a)' <=> a = n \/ Applied(a)
                        /\ a # n => leaseOf'[a] = leaseOf[a] /\ applicant'[a] = applicant[a]
    BY <1>1, <1>2, TenancyAssumption DEF Applied, TypeOK, DatabaseTypes
  <2>2. ~Applied(n) /\ leaseOf'[n] = l /\ applicant'[n] = tenant[l]
    BY <1>1, <1>2 DEF Applied, TypeOK, DatabaseTypes
  <2>3. QED
    BY <2>1, <2>2 DEF Applications
<1>6. DecidedLeases' = DecidedLeases
  <2>1. leaseOf[n] = NoRow /\ NoRow \notin Rows
    BY <1>2, TenancyAssumption DEF Known, RowsKnown, NoRow, Rows
  <2>2. \A k \in Rows : Decided(k)' <=> Decided(k)
    BY <1>2, <2>1 DEF Decided, TypeOK, DatabaseTypes
  <2>3. QED
    BY <2>2 DEF DecidedLeases
<1>7. Lifecycle!Apply(l)
  BY <1>1, <1>4, <1>5, <1>6
     DEF SubmitApplication, Lifecycle!Apply, Lifecycle!HasApplication, Lifecycle!stages,
         Applications, DecidedLeases
<1>8. QED
  BY <1>1, <1>7 DEF Lifecycle!Next

(* Rejecting or approving decides the lease of the application in hand.    *)
LEMMA DecisionDecides ==
  ASSUME TypeOK, Known, NEW h \in Handlers, Reject(h) \/ Approve(h)
  PROVE  Lifecycle!Next
<1> DEFINE n == req[h].app
<1>1. PICK l \in Rows :
        n \in Rows /\ Applied(n) /\ l = leaseOf[n] /\ applicant[n] \in Bids
  BY ApplicationInHand DEF Reject, Approve, Deciding, Applied, TypeOK, DatabaseTypes
<1>2. /\ \E s \in {"rejected", "approved_pending_payment"} : status' = [status EXCEPT ![n] = s]
      /\ UNCHANGED <<tenant, active, applicant, leaseOf, checkout, paid, debited>>
  BY DEF Reject, Approve
<1>3. Lifecycle!HasApplication(l)
  BY <1>1 DEF Lifecycle!HasApplication
<1>4. DecidedLeases' = DecidedLeases \cup {l}
  <2>1. \A k \in Rows : Decided(k)' <=> k = l \/ Decided(k)
    BY <1>1, <1>2 DEF Decided, TypeOK, DatabaseTypes
  <2>2. QED
    BY <1>1, <2>1 DEF DecidedLeases
<1>5. Lifecycle!Decide(l)
  BY <1>2, <1>3, <1>4 DEF Lifecycle!Decide, DecidedLeases, Applied
<1>6. QED
  BY <1>1, <1>5 DEF Lifecycle!Next

(* An approval that signs the contract activates a decided lease.          *)
LEMMA CountersignActivates ==
  ASSUME TypeOK, Known, FoundDecided, NEW h \in Handlers, Countersign(h)
  PROVE  Lifecycle!Next
<1>1. PICK l \in Rows : l = req[h].lease /\ Decided(l)
  BY ApplicationInHand DEF Countersign, Deciding, FoundDecided
<1>2. Where(active') = Where(active) \cup {l}
  BY <1>1, FlagIsSet DEF Countersign, TypeOK, DatabaseTypes
<1>3. Lifecycle!Activate(l)
  BY <1>1, <1>2 DEF Countersign, Lifecycle!Activate, Where, Applied, Decided
<1>4. QED
  BY <1>1, <1>3 DEF Lifecycle!Next

(* A checkout opens a decided lease.                                       *)
LEMMA CheckoutOpens ==
  ASSUME TypeOK, Known, FoundDecided, NEW h \in Handlers, PayCheckout(h)
  PROVE  Lifecycle!Next
<1>1. PICK l \in Rows : l = req[h].lease /\ Decided(l)
  BY LeaseInHand DEF PayCheckout, Paying, FoundDecided
<1>2. Where(checkout') = Where(checkout) \cup {l}
  BY <1>1, FlagIsSet DEF PayCheckout, TypeOK, PaymentTypes
<1>3. Lifecycle!Open(l)
  BY <1>1, <1>2 DEF PayCheckout, Lifecycle!Open, Where, Applied, Decided
<1>4. QED
  BY <1>1, <1>3 DEF Lifecycle!Next

(* The customer pays a lease that was opened.                              *)
LEMMA CustomerPaysOpen ==
  ASSUME TypeOK, NEW l \in Rows, CustomerPays(l)
  PROVE  Lifecycle!Next
<1>1. Where(paid') = Where(paid) \cup {l}
  BY FlagIsSet DEF CustomerPays, TypeOK, PaymentTypes
<1>2. Lifecycle!Pay(l)
  BY <1>1 DEF CustomerPays, Lifecycle!Pay, Where, Applied, Decided
<1>3. QED
  BY <1>2 DEF Lifecycle!Next

(* A commit settles a paid lease, which is active then, and decides none.  *)
LEMMA CommitSettles ==
  ASSUME TypeOK, Known, FoundDecided, SettlesPaid, NEW h \in Handlers, SettleCommit(h)
  PROVE  Lifecycle!Next
<1>1. PICK l \in Rows : l = req[h].lease /\ Decided(l) /\ paid[l]
  BY LeaseInHand DEF SettleCommit, Settling, FoundDecided, SettlesPaid
<1>2. \/ active' = [active EXCEPT ![l] = TRUE]
      \/ active[l] /\ UNCHANGED active
  BY <1>1 DEF SettleCommit, Activate, SettlesPaid
<1>3. Where(active') = Where(active) \cup {l}
  <2>1. CASE active' = [active EXCEPT ![l] = TRUE]
    BY <1>1, <2>1, FlagIsSet DEF TypeOK, DatabaseTypes
  <2>2. CASE active[l] /\ UNCHANGED active
    BY <1>1, <2>2 DEF Where
  <2>3. QED
    BY <1>2, <2>1, <2>2
<1>4. Where(debited') = Where(debited) \cup {l}
  BY <1>1, FlagIsSet DEF SettleCommit, TypeOK, PaymentTypes
<1>5. DecidedLeases' = DecidedLeases
  <2>1. CASE status' = [a \in Rows |-> IF leaseOf[a] = l THEN "completed" ELSE status[a]]
    <3>1. UNCHANGED leaseOf
      BY DEF SettleCommit
    <3>2. \A k \in Rows : Decided(k)' <=> Decided(k)
      BY <1>1, <2>1, <3>1 DEF Decided
    <3>3. QED
      BY <3>2 DEF DecidedLeases
  <2>2. CASE UNCHANGED status
    BY <2>2 DEF SettleCommit, DecidedLeases, Decided
  <2>3. QED
    BY <1>1, <2>1, <2>2 DEF SettleCommit, Activate
<1>6. Lifecycle!Settle(l)
  BY <1>1, <1>3, <1>4, <1>5
     DEF SettleCommit, Lifecycle!Settle, Where, DecidedLeases, Applied
<1>7. QED
  BY <1>1, <1>6 DEF Lifecycle!Next

(* Every step of the rows is a step of LeaseLifecycle or none.             *)
LEMMA LifecycleStep ==
  ASSUME TypeOK, Known, OwnDraft, FoundDecided, SettlesPaid, [Next]_vars
  PROVE  [Lifecycle!Next]_Lifecycle!lifecycle
<1>1. CASE UNCHANGED <<tenant, appVars, active, checkout, paid, debited>>
  BY <1>1, LifecycleStutters
<1>2. CASE \E l \in Rows : CustomerPays(l)
  BY <1>2, CustomerPaysOpen
<1>3. ASSUME NEW h \in Handlers,
             \/ SubmitLease(h) \/ SubmitApplication(h) \/ Reject(h) \/ Approve(h)
             \/ Countersign(h) \/ PayCheckout(h) \/ SettleCommit(h)
      PROVE  Lifecycle!Next
  BY <1>3, SubmitLeaseDrafts, SubmitApplicationApplies, DecisionDecides,
     CountersignActivates, CheckoutOpens, CommitSettles, SMTT(60)
<1>4. \/ UNCHANGED <<tenant, appVars, active, checkout, paid, debited>>
      \/ \E l \in Rows : CustomerPays(l)
      \/ \E h \in Handlers :
           \/ SubmitLease(h) \/ SubmitApplication(h) \/ Reject(h) \/ Approve(h)
           \/ Countersign(h) \/ PayCheckout(h) \/ SettleCommit(h)
  BY ZenonT(60)
     DEF Next, Step, SubmitRead, SubmitAgreement, SubmitNotify, ManageRead, ReadContract, Tell,
         PayReadLease, PayReadApplication, SettleReadLease, SettleDocument, Fails,
         ApproveUnsigned
<1>5. QED
  BY <1>1, <1>2, <1>3, <1>4

(* However submissions interleave and fail, an application names a lease   *)
(* of the same bid and no other application names it: deciding or paying   *)
(* one never touches another's lease.                                      *)
THEOREM ApplicationsOwnTheirLease == Spec => []ApplicationOfItsLease
<1> DEFINE Inv == OwnDraft /\ ApplicationOfItsLease
<1>1. Init => Inv
  BY TenancyAssumption DEF Init, Idle, OwnDraft, ApplicationOfItsLease, Applied
<1>2. TypeOK /\ Known /\ Inv /\ [Next]_vars => Inv'
  BY OwnDraftStep, ApplicationOfItsLeaseStep
<1> HIDE DEF Inv
<1>3. Spec => []Inv
  BY <1>1, <1>2, TypesCorrect, PTL DEF Spec
<1>4. Inv => ApplicationOfItsLease
  BY DEF Inv
<1>5. QED
  BY <1>3, <1>4, PTL

(* Every drafted lease is for a property with an agreement to print.       *)
THEOREM LeasesHaveAgreement == Spec => []LeaseHasAgreement
<1> DEFINE Inv == Agreed /\ LeaseHasAgreement
<1>1. Init => Inv
  BY TenancyAssumption DEF Init, Idle, Agreed, LeaseHasAgreement, Drafted
<1>2. TypeOK /\ Known /\ Inv /\ [Next]_vars => Inv'
  BY AgreedStep, LeaseHasAgreementStep
<1> HIDE DEF Inv
<1>3. Spec => []Inv
  BY <1>1, <1>2, TypesCorrect, PTL DEF Spec
<1>4. Inv => LeaseHasAgreement
  BY DEF Inv
<1>5. QED
  BY <1>3, <1>4, PTL

(* No lease is opened for payment, paid or active before the landlord has  *)
(* decided its application.                                                *)
THEOREM DecisionComesFirst == Spec => []NothingBeforeDecision
<1> DEFINE Inv == FoundDecided /\ NothingBeforeDecision
<1>1. Init => Inv
  BY TenancyAssumption DEF Init, Idle, FoundDecided, NothingBeforeDecision, Settling
<1>2. TypeOK /\ Known /\ Inv /\ [Next]_vars => Inv'
  BY FoundDecidedStep, NothingBeforeDecisionStep
<1> HIDE DEF Inv
<1>3. Spec => []Inv
  BY <1>1, <1>2, TypesCorrect, PTL DEF Spec
<1>4. Inv => NothingBeforeDecision
  BY DEF Inv
<1>5. QED
  BY <1>3, <1>4, PTL

(* A completed application has an active lease and a debit, although       *)
(* approvals and settlements of one lease overlap.                         *)
THEOREM CompletedLeasesAreActive == Spec => []CompletedIsActive
<1> DEFINE Inv == CompletedIsActive
<1>1. Init => Inv
  BY TenancyAssumption DEF Init, Idle, CompletedIsActive
<1>2. TypeOK /\ Known /\ Inv /\ [Next]_vars => Inv'
  BY CompletedIsActiveStep
<1> HIDE DEF Inv
<1>3. Spec => []Inv
  BY <1>1, <1>2, TypesCorrect, PTL DEF Spec
<1>4. Inv => CompletedIsActive
  BY DEF Inv
<1>5. QED
  BY <1>3, <1>4, PTL

(* An active lease is signed: the contract column is read in one call and  *)
(* written in another, and still keeps a mark of the renter.               *)
THEOREM ActiveLeasesAreSigned == Spec => []ActiveIsSigned
<1> DEFINE Inv == Marked /\ ActiveIsSigned
<1>1. Init => Inv
  BY TenancyAssumption DEF Init, Idle, Marked, Bears, ActiveIsSigned, Drafted
<1>2. TypeOK /\ Known /\ Inv /\ [Next]_vars => Inv'
  BY MarkedStep, ActiveIsSignedStep
<1> HIDE DEF Inv
<1>3. Spec => []Inv
  BY <1>1, <1>2, TypesCorrect, PTL DEF Spec
<1>4. Inv => ActiveIsSigned
  BY DEF Inv
<1>5. QED
  BY <1>3, <1>4, PTL

(* A contract that names the lease PDF names a stored object, although an  *)
(* upload may fail and a stale contract may be written back.               *)
THEOREM DocumentsAreStored == Spec => []DocumentIsStored
<1> DEFINE Inv == PathIsStored /\ DocumentIsStored
<1>1. Init => Inv
  BY TenancyAssumption DEF Init, Idle, PathIsStored, DocumentIsStored
<1>2. TypeOK /\ Known /\ Inv /\ [Next]_vars => Inv'
  BY PathIsStoredStep, DocumentIsStoredStep
<1> HIDE DEF Inv
<1>3. Spec => []Inv
  BY <1>1, <1>2, TypesCorrect, PTL DEF Spec
<1>4. Inv => DocumentIsStored
  BY DEF Inv
<1>5. QED
  BY <1>3, <1>4, PTL

(* While no call fails, an approval that carries a signature and was       *)
(* answered with success is whole, whatever overlaps it.                   *)
THEOREM ApprovalsAreWhole == Spec => []ApprovalIsWhole
<1> DEFINE Inv == ToldIsActive /\ ApprovalIsWhole
<1>1. Init => Inv
  BY TenancyAssumption DEF Init, Idle, ToldIsActive, ApprovalIsWhole
<1>2. TypeOK /\ Known /\ Inv /\ [Next]_vars => Inv'
  BY ToldIsActiveStep, ApprovalIsWholeStep
<1> HIDE DEF Inv
<1>3. Spec => []Inv
  BY <1>1, <1>2, TypesCorrect, PTL DEF Spec
<1>4. Inv => ApprovalIsWhole
  BY DEF Inv
<1>5. QED
  BY <1>3, <1>4, PTL

(* The PDF of an active lease can be downloaded where requests about one   *)
(* lease do not overlap and an application is decided once.  The code sees *)
(* to neither: an approval that a settlement overtakes, and a second       *)
(* decision, append to the path that the download takes whole.             *)
THEOREM DocumentsAreServed ==
  ASSUME ~Overlap, DecidesPending
  PROVE  Spec => []DocumentServed
<1>1. Init => Disjoint /\ Sealed
  BY TenancyAssumption DEF Init, Idle, Disjoint, Sealed, NoRow
<1>2. TypeOK /\ Known /\ Disjoint /\ Sealed /\ [Next]_vars => (Disjoint /\ Sealed)'
  BY DisjointStep, SealedStep
<1>3. Spec => [](Disjoint /\ Sealed)
  BY <1>1, <1>2, TypesCorrect, PTL DEF Spec
<1>4. Sealed /\ DocumentIsStored => DocumentServed
  BY DEF Sealed, DocumentIsStored, DocumentServed, Fetchable
<1>5. QED
  BY <1>3, <1>4, DocumentsAreStored, PTL

(* The rows of leases, applications and payments implement LeaseLifecycle, *)
(* whatever requests overlap or fail: every lease goes through its stages  *)
(* in order, for the bid it was drafted for, and none is undone.           *)
THEOREM LifecycleIsFollowed == Spec => FollowsLifecycle
<1> DEFINE Inv == OwnDraft /\ FoundDecided /\ NothingBeforeDecision /\ SettlesPaid
<1>1. Init => Inv
  BY TenancyAssumption
     DEF Init, Idle, OwnDraft, FoundDecided, NothingBeforeDecision, SettlesPaid, Settling
<1>2. TypeOK /\ Known /\ Inv /\ [Next]_vars => Inv'
  BY OwnDraftStep, FoundDecidedStep, NothingBeforeDecisionStep, SettlesPaidStep
<1>3. TypeOK /\ Known /\ Inv /\ [Next]_vars => [Lifecycle!Next]_Lifecycle!lifecycle
  BY LifecycleStep
<1>4. Init => Lifecycle!Init
  BY TenancyAssumption DEF Init, Lifecycle!Init, Applied, Decided, NoRow, Rows
<1> HIDE DEF Inv
<1>5. QED
  BY <1>1, <1>2, <1>3, <1>4, TypesCorrect, PTL DEF Spec, FollowsLifecycle, Lifecycle!Spec
=============================================================================
