------------------------------- MODULE Tenancy -------------------------------
(***************************************************************************)
(* From an application to an active lease: submit_application_worker and   *)
(* manage_application_worker (app/tools/application_lease_ops.py), their   *)
(* routes, and the payment flow as far as it reads and writes the same     *)
(* rows: what PaymentService.initialize accepts and what                   *)
(* process_payment_atomic does to lease and application.  Payments models  *)
(* the money; here a checkout is paid and settled once.                    *)
(*                                                                         *)
(* Nothing ties the awaited calls of a request together: each is an        *)
(* action, and a request that fails leaves what it has written.            *)
(***************************************************************************)
EXTENDS Integers

CONSTANTS
  Renters, Properties, Nobody,
  MaxRows,         \* bound: lease rows, and application rows, ever inserted
  Handlers,        \* requests that may be in flight at the same time
  MaxFaults,       \* bound: requests that fail half way
  Overlap,         \* may two requests work on one lease at the same time?
  DecidesPending   \* do landlords decide only applications that are pending?

Rows == 1 .. MaxRows
NoRow == 0

(* A bid is a renter's interest in one property.                           *)
Bids == Renters \X Properties

ASSUME TenancyAssumption ==
  /\ Nobody \notin Bids
  /\ MaxRows \in Nat /\ MaxFaults \in Nat
  /\ {Overlap, DecidesPending} \subseteq BOOLEAN

VARIABLES
  agreement,       \* properties that have agreement_content
  \* leases: who rents what (Nobody: no row yet), is_active, and what the
  \* string contract_url is made of: signatures and the path of the lease
  \* PDF.  It is a path only while it is exactly {"document"}.
  tenant, active, contract,
  \* applications: who applied for what, lease_id, status
  applicant, leaseOf, status,
  notices,         \* notification rows about an application
  confirmed,       \* decisions the landlord was told are done ("success")
  \* The payment of a lease: open at the gateway, paid there, in the ledger;
  \* and whether the lease PDF is in the storage bucket.
  checkout, paid, debited, stored,
  req,             \* the requests in flight
  faults

leaseVars   == <<tenant, active, contract>>
appVars     == <<applicant, leaseOf, status>>
noticeVars  == <<notices, confirmed>>
paymentVars == <<checkout, paid, debited, stored>>
vars == <<agreement, leaseVars, appVars, noticeVars, paymentVars, req, faults>>

Decisions == {"approve", "reject"}
Answers == Decisions \cup {"unsigned"}   \* an approval without a signature
Statuses == {"none", "pending_landlord_approval", "approved_pending_payment",
             "rejected", "completed"}
Marks == {"renter", "landlord", "document"}

Idle == [at |-> "idle", act |-> "none", bid |-> Nobody, app |-> NoRow, lease |-> NoRow,
         seen |-> {}, first |-> FALSE, path |-> FALSE]

Init ==
  /\ agreement = {}
  /\ tenant = [l \in Rows |-> Nobody]
  /\ active = [l \in Rows |-> FALSE]
  /\ contract = [l \in Rows |-> {}]
  /\ applicant = [a \in Rows |-> Nobody]
  /\ leaseOf = [a \in Rows |-> NoRow]
  /\ status = [a \in Rows |-> "none"]
  /\ notices = [a \in Rows |-> {}]
  /\ confirmed = [a \in Rows |-> {}]
  /\ checkout = [l \in Rows |-> FALSE]
  /\ paid = [l \in Rows |-> FALSE]
  /\ debited = [l \in Rows |-> FALSE]
  /\ stored = [l \in Rows |-> FALSE]
  /\ req = [h \in Handlers |-> Idle]
  /\ faults = 0

(* The row an insert creates.                                              *)
IsNext(n, holder) == holder[n] = Nobody /\ \A m \in Rows : m < n => holder[m] # Nobody

(* With Overlap = FALSE the deployment serialises the requests about one   *)
(* lease; the code itself does nothing of the kind.                        *)
MayWorkOn(l) == ~Overlap => \A g \in Handlers : req[g].lease # l

Become(h, r) == req' = [req EXCEPT ![h] = r]
Start(h, r) == req[h].at = "idle" /\ Become(h, r)
Goto(h, p) == Become(h, [req[h] EXCEPT !.at = p])
Finish(h) == Become(h, Idle)

-----------------------------------------------------------------------------
(* POST /properties/{id}/apply                                             *)

SubmitRead(h, b) ==
  /\ \E l \in Rows : tenant[l] = Nobody          \* bound MaxRows
  /\ Start(h, [Idle EXCEPT !.act = "submit", !.bid = b,
                           !.at = IF b[2] \in agreement THEN "draft" ELSE "agreement"])
  /\ UNCHANGED <<agreement, leaseVars, appVars, noticeVars, paymentVars, faults>>

SubmitAgreement(h) ==
  /\ req[h].at = "agreement"
  /\ agreement' = agreement \cup {req[h].bid[2]}
  /\ Goto(h, "draft")
  /\ UNCHANGED <<leaseVars, appVars, noticeVars, paymentVars, faults>>

SubmitLease(h) ==
  /\ req[h].at = "draft"
  /\ \E l \in Rows :
       /\ IsNext(l, tenant)
       /\ tenant' = [tenant EXCEPT ![l] = req[h].bid]
       /\ contract' = [contract EXCEPT ![l] = {"renter"}]
       /\ Become(h, [req[h] EXCEPT !.at = "apply", !.lease = l])
  /\ UNCHANGED <<agreement, active, appVars, noticeVars, paymentVars, faults>>

(* Fault: the column's default status is left in place.                    *)
SubmitApplication_Default(h) ==
  /\ req[h].at = "apply"
  /\ \E a \in Rows :
       /\ IsNext(a, applicant)
       /\ applicant' = [applicant EXCEPT ![a] = req[h].bid]
       /\ leaseOf' = [leaseOf EXCEPT ![a] = req[h].lease]
       /\ status' = [status EXCEPT ![a] = "submitted"]
       /\ Become(h, [req[h] EXCEPT !.at = "announce", !.app = a])
  /\ UNCHANGED <<agreement, leaseVars, noticeVars, paymentVars, faults>>

(* Fault: the lease is looked up as the newest one.                        *)
SubmitApplication_Newest(h) ==
  /\ req[h].at = "apply"
  /\ \E a, l \in Rows :
       /\ IsNext(a, applicant)
       /\ tenant[l] # Nobody /\ \A m \in Rows : m > l => tenant[m] = Nobody
       /\ applicant' = [applicant EXCEPT ![a] = req[h].bid]
       /\ leaseOf' = [leaseOf EXCEPT ![a] = l]
       /\ status' = [status EXCEPT ![a] = "pending_landlord_approval"]
       /\ Become(h, [req[h] EXCEPT !.at = "announce", !.app = a])
  /\ UNCHANGED <<agreement, leaseVars, noticeVars, paymentVars, faults>>

SubmitApplication(h) ==
  /\ req[h].at = "apply"
  /\ \E a \in Rows :
       /\ IsNext(a, applicant)
       /\ applicant' = [applicant EXCEPT ![a] = req[h].bid]
       /\ leaseOf' = [leaseOf EXCEPT ![a] = req[h].lease]
       /\ status' = [status EXCEPT ![a] = "pending_landlord_approval"]
       /\ Become(h, [req[h] EXCEPT !.at = "announce", !.app = a])
  /\ UNCHANGED <<agreement, leaseVars, noticeVars, paymentVars, faults>>

SubmitNotify(h) ==
  /\ req[h].at = "announce"
  /\ notices' = [notices EXCEPT ![req[h].app] = @ \cup {"submitted"}]
  /\ Finish(h)
  /\ UNCHANGED <<agreement, leaseVars, appVars, confirmed, paymentVars, faults>>

-----------------------------------------------------------------------------
(* POST /{application_id}/approve and /reject by the property's owner.     *)

(* The status of the application is read but not looked at.                *)
ManageRead(h, a, d) ==
  /\ applicant[a] # Nobody
  /\ DecidesPending => status[a] = "pending_landlord_approval"
  /\ MayWorkOn(leaseOf[a])
  /\ Start(h, [Idle EXCEPT !.act = d, !.app = a, !.lease = leaseOf[a], !.at = d])
  /\ UNCHANGED <<agreement, leaseVars, appVars, noticeVars, paymentVars, faults>>

Reject(h) ==
  /\ req[h].at = "reject"
  /\ status' = [status EXCEPT ![req[h].app] = "rejected"]
  /\ Goto(h, "tell")
  /\ UNCHANGED <<agreement, leaseVars, applicant, leaseOf, noticeVars, paymentVars, faults>>

(* An empty signature is refused in words only: nothing is written, and    *)
(* the route answers "success" with the text of the error.                 *)
ApproveUnsigned(h) ==
  /\ req[h].at = "approve"
  /\ confirmed' = [confirmed EXCEPT ![req[h].app] = @ \cup {"unsigned"}]
  /\ Finish(h)
  /\ UNCHANGED <<agreement, leaseVars, appVars, notices, paymentVars, faults>>

Approve(h) ==
  /\ req[h].at = "approve"
  /\ status' = [status EXCEPT ![req[h].app] = "approved_pending_payment"]
  /\ Goto(h, "contract")
  /\ UNCHANGED <<agreement, leaseVars, applicant, leaseOf, noticeVars, paymentVars, faults>>

(* Fault: the contract column is not among those selected.                 *)
ReadContract_Unselected(h) ==
  /\ req[h].at = "contract"
  /\ Become(h, [req[h] EXCEPT !.at = "countersign", !.seen = {}])
  /\ UNCHANGED <<agreement, leaseVars, appVars, noticeVars, paymentVars, faults>>

ReadContract(h) ==
  /\ req[h].at = "contract"
  /\ Become(h, [req[h] EXCEPT !.at = "countersign", !.seen = contract[req[h].lease]])
  /\ UNCHANGED <<agreement, leaseVars, appVars, noticeVars, paymentVars, faults>>

(* Fault: the update returns early for a lease that carries a signature.   *)
Countersign_Skips(h) ==
  /\ req[h].at = "countersign"
  /\ Goto(h, "tell")
  /\ IF "renter" \in req[h].seen
       THEN UNCHANGED <<contract, active>>
       ELSE /\ contract' = [contract EXCEPT ![req[h].lease] = req[h].seen \cup {"landlord"}]
            /\ active' = [active EXCEPT ![req[h].lease] = TRUE]
  /\ UNCHANGED <<agreement, tenant, appVars, noticeVars, paymentVars, faults>>

(* The signature is appended to what was read, and the lease activated.    *)
Countersign(h) ==
  /\ req[h].at = "countersign"
  /\ contract' = [contract EXCEPT ![req[h].lease] = req[h].seen \cup {"landlord"}]
  /\ active' = [active EXCEPT ![req[h].lease] = TRUE]
  /\ Goto(h, "tell")
  /\ UNCHANGED <<agreement, tenant, appVars, noticeVars, paymentVars, faults>>

(* The renter is notified and the landlord answered.                       *)
Tell(h) ==
  /\ req[h].at = "tell"
  /\ notices' = [notices EXCEPT ![req[h].app] = @ \cup {req[h].act}]
  /\ confirmed' = [confirmed EXCEPT ![req[h].app] = @ \cup {req[h].act}]
  /\ Finish(h)
  /\ UNCHANGED <<agreement, leaseVars, appVars, paymentVars, faults>>

-----------------------------------------------------------------------------
(* POST /payments/initialize by the renter, and the gateway's webhook.     *)

PayReadLease(h, l) ==
  /\ tenant[l] # Nobody
  /\ ~active[l]
  /\ ~checkout[l]                    \* no open transaction; Payments has the race
  /\ MayWorkOn(l)
  /\ Start(h, [Idle EXCEPT !.act = "pay", !.lease = l, !.at = "payable"])
  /\ UNCHANGED <<agreement, leaseVars, appVars, noticeVars, paymentVars, faults>>

(* Fault: any application of the lease will do.                            *)
PayReadApplication_AnyStatus(h) ==
  /\ req[h].at = "payable"
  /\ IF \E a \in Rows : leaseOf[a] = req[h].lease
       THEN Goto(h, "checkout")
       ELSE Finish(h)
  /\ UNCHANGED <<agreement, leaseVars, appVars, noticeVars, paymentVars, faults>>

PayReadApplication(h) ==
  /\ req[h].at = "payable"
  /\ IF \E a \in Rows : /\ leaseOf[a] = req[h].lease
                        /\ status[a] = "approved_pending_payment"
       THEN Goto(h, "checkout")
       ELSE Finish(h)
  /\ UNCHANGED <<agreement, leaseVars, appVars, noticeVars, paymentVars, faults>>

PayCheckout(h) ==
  /\ req[h].at = "checkout"
  /\ checkout' = [checkout EXCEPT ![req[h].lease] = TRUE]
  /\ Finish(h)
  /\ UNCHANGED <<agreement, leaseVars, appVars, noticeVars, paid, debited, stored, faults>>

(* The customer pays at the gateway (external).                            *)
CustomerPays(l) ==
  /\ checkout[l]
  /\ ~paid[l]
  /\ paid' = [paid EXCEPT ![l] = TRUE]
  /\ UNCHANGED <<agreement, leaseVars, appVars, noticeVars, checkout, debited, stored,
                 req, faults>>

SettleReadLease(h, l) ==
  /\ paid[l]
  /\ ~debited[l]
  /\ MayWorkOn(l)
  /\ Start(h, [Idle EXCEPT !.act = "settle", !.lease = l, !.first = ~active[l],
                           !.at = IF active[l] THEN "settle" ELSE "document"])
  /\ UNCHANGED <<agreement, leaseVars, appVars, noticeVars, paymentVars, faults>>

(* The lease PDF is uploaded; a failure yields no path and is ignored.     *)
SettleDocument(h) ==
  /\ req[h].at = "document"
  /\ \E ok \in BOOLEAN :
       /\ stored' = IF ok THEN [stored EXCEPT ![req[h].lease] = TRUE] ELSE stored
       /\ Become(h, [req[h] EXCEPT !.at = "settle", !.path = ok])
  /\ UNCHANGED <<agreement, leaseVars, appVars, noticeVars, checkout, paid, debited, faults>>

(* Fault: a lease without document is not activated.                       *)
Activate_NeedsDocument(l, path) ==
  /\ active' = IF path THEN [active EXCEPT ![l] = TRUE] ELSE active
  /\ contract' = IF path THEN [contract EXCEPT ![l] = {"document"}] ELSE contract
  /\ status' = [a \in Rows |-> IF leaseOf[a] = l THEN "completed" ELSE status[a]]

(* What process_payment_atomic does on the initial activation.             *)
Activate(l, path) ==
  /\ active' = [active EXCEPT ![l] = TRUE]
  /\ contract' = IF path THEN [contract EXCEPT ![l] = {"document"}] ELSE contract
  /\ status' = [a \in Rows |-> IF leaseOf[a] = l THEN "completed" ELSE status[a]]

SettleCommit(h) ==
  LET l == req[h].lease IN
  /\ req[h].at = "settle"
  /\ debited' = [debited EXCEPT ![l] = TRUE]
  /\ IF req[h].first /\ ~debited[l]
       THEN Activate(l, req[h].path)
       ELSE UNCHANGED <<active, contract, status>>
  /\ Finish(h)
  /\ UNCHANGED <<agreement, tenant, applicant, leaseOf, noticeVars, checkout, paid, stored,
                 faults>>

-----------------------------------------------------------------------------
(* A request fails where it waits; what it wrote stays.  The routes of     *)
(* approve and reject report the error text of the tool as a success,      *)
(* unless the process is gone.                                             *)
Fails(h) ==
  /\ req[h].at # "idle"
  /\ faults < MaxFaults                          \* bound MaxFaults
  /\ faults' = faults + 1
  /\ \/ UNCHANGED confirmed
     \/ /\ req[h].act \in Decisions
        /\ confirmed' = [confirmed EXCEPT ![req[h].app] = @ \cup {req[h].act}]
  /\ Finish(h)
  /\ UNCHANGED <<agreement, leaseVars, appVars, notices, paymentVars>>

Step(h) ==
  \/ SubmitAgreement(h)
  \/ SubmitLease(h)
  \/ SubmitApplication(h)
  \/ SubmitNotify(h)
  \/ Reject(h)
  \/ ApproveUnsigned(h)
  \/ Approve(h)
  \/ ReadContract(h)
  \/ Countersign(h)
  \/ Tell(h)
  \/ PayReadApplication(h)
  \/ PayCheckout(h)
  \/ SettleDocument(h)
  \/ SettleCommit(h)
  \/ Fails(h)

Next ==
  \/ \E h \in Handlers, b \in Bids : SubmitRead(h, b)
  \/ \E h \in Handlers, a \in Rows, d \in Decisions : ManageRead(h, a, d)
  \/ \E h \in Handlers, l \in Rows : PayReadLease(h, l)
  \/ \E h \in Handlers, l \in Rows : SettleReadLease(h, l)
  \/ \E l \in Rows : CustomerPays(l)
  \/ \E h \in Handlers : Step(h)

Spec == Init /\ [][Next]_vars

-----------------------------------------------------------------------------
Places == {"idle", "agreement", "draft", "apply", "announce", "reject", "approve", "contract",
           "countersign", "tell", "payable", "checkout", "document", "settle"}

Requests ==
  [at : Places,
   act : {"none", "submit", "pay", "settle"} \cup Decisions,
   bid : Bids \cup {Nobody}, app : Rows \cup {NoRow}, lease : Rows \cup {NoRow},
   seen : SUBSET Marks, first : BOOLEAN, path : BOOLEAN]

DatabaseTypes ==
  /\ agreement \subseteq Properties
  /\ tenant \in [Rows -> Bids \cup {Nobody}]
  /\ active \in [Rows -> BOOLEAN]
  /\ contract \in [Rows -> SUBSET Marks]
  /\ applicant \in [Rows -> Bids \cup {Nobody}]
  /\ leaseOf \in [Rows -> Rows \cup {NoRow}]
  /\ status \in [Rows -> Statuses]
  /\ notices \in [Rows -> SUBSET (Decisions \cup {"submitted"})]
  /\ confirmed \in [Rows -> SUBSET Answers]

PaymentTypes ==
  /\ checkout \in [Rows -> BOOLEAN]
  /\ paid \in [Rows -> BOOLEAN]
  /\ debited \in [Rows -> BOOLEAN]
  /\ stored \in [Rows -> BOOLEAN]

RequestTypes ==
  /\ req \in [Handlers -> Requests]
  /\ faults \in 0 .. MaxFaults

(* Every row and every request stays in its vocabulary: an application     *)
(* never carries the status "submitted" of the column's default, which no  *)
(* dashboard and no payment asks for.                                      *)
TypeOK == DatabaseTypes /\ PaymentTypes /\ RequestTypes

Applied(a) == applicant[a] # Nobody
Drafted(l) == tenant[l] # Nobody
Decided(l) == \E a \in Rows : leaseOf[a] = l /\ status[a] # "pending_landlord_approval"

(* However submissions interleave and fail, an application names a lease   *)
(* of the same renter and property, and no other application names it:     *)
(* approving or paying one application never touches another's lease.      *)
ApplicationOfItsLease ==
  \A a \in Rows : Applied(a) =>
    /\ leaseOf[a] \in Rows
    /\ tenant[leaseOf[a]] = applicant[a]
    /\ \A b \in Rows : Applied(b) /\ leaseOf[b] = leaseOf[a] => b = a

(* A lease draft exists only for a property with an agreement, which the   *)
(* lease PDF is made from, although two requests write them.               *)
LeaseHasAgreement == \A l \in Rows : Drafted(l) => tenant[l][2] \in agreement

(* No lease is opened for payment, paid or active before the landlord has  *)
(* decided its application, in particular no draft whose application was   *)
(* never stored.                                                           *)
NothingBeforeDecision == \A l \in Rows : checkout[l] \/ paid[l] \/ active[l] => Decided(l)

(* An active lease bears the renter's signature or the lease PDF, and the  *)
(* landlord's signature unless a payment activated it, although the        *)
(* contract column is read in one call and written in another.             *)
ActiveIsSigned ==
  \A l \in Rows : active[l] =>
    /\ contract[l] \cap {"renter", "document"} # {}
    /\ "landlord" \in contract[l] \/ debited[l]

(* An application is completed only together with its lease, and the lease *)
(* is never taken back.                                                    *)
CompletedIsActive ==
  \A a \in Rows : status[a] = "completed" => active[leaseOf[a]] /\ debited[leaseOf[a]]

(* A contract that names the lease PDF names an object in the bucket.      *)
DocumentIsStored == \A l \in Rows : "document" \in contract[l] => stored[l]

(* GET /leases/{id}/document, the one reader of contract_url: it signs a   *)
(* URL for the object whose path is all of contract_url.                   *)
Fetchable(l) == active[l] /\ contract[l] = {"document"} /\ stored[l]

(* What the docstring of that route promises: the PDF of an active lease   *)
(* can be downloaded, once a settlement has stored it there.               *)
DocumentServed ==
  \A l \in Rows : active[l] /\ "document" \in contract[l] => Fetchable(l)

(* While no call fails, an approval that carries the landlord's signature  *)
(* and was answered with "success" is whole, whatever overlaps it: the     *)
(* lease is active, the renter was told.  (One without a signature is      *)
(* answered with "success" too and does nothing: ApproveUnsigned.)         *)
ApprovalIsWhole ==
  faults = 0 => \A a \in Rows : "approve" \in confirmed[a] =>
                  active[leaseOf[a]] /\ "approve" \in notices[a]

(* Whatever overlaps or fails, the rows of leases, applications and        *)
(* payments show a lease go through the stages of LeaseLifecycle: in that  *)
(* order, for one bid, and none of them undone by a late or stale write.   *)
Lifecycle == INSTANCE LeaseLifecycle WITH
  Leases <- Rows, draftedFor <- tenant,
  applications <- {<<leaseOf[a], applicant[a]>> : a \in {n \in Rows : Applied(n)}},
  decided <- {l \in Rows : Decided(l)}, open <- {l \in Rows : checkout[l]},
  paid <- {l \in Rows : paid[l]}, active <- {l \in Rows : active[l]},
  settled <- {l \in Rows : debited[l]}

FollowsLifecycle == Lifecycle!Spec

=============================================================================
