-------------------------------- MODULE Kyc --------------------------------
(***************************************************************************)
(* Identity verification: submit_kyc_worker and approve_kyc_worker         *)
(* (app/tools/kyc_ops.py), and the check the payment service makes before  *)
(* it opens a checkout (SupabasePaymentRepository.get_kyc_status).         *)
(*                                                                         *)
(* The status is kept twice, in kyc_verifications and in profiles, by two  *)
(* calls each.  kyc_verifications.user_id is UNIQUE, so the table is a     *)
(* function of the user.  The notifications both workers try to insert     *)
(* name columns their table does not have: the database refuses them, the  *)
(* workers log it, and no state changes.                                   *)
(***************************************************************************)
EXTENDS Integers

CONSTANTS
  Users, Nobody,
  Handlers,        \* requests that may be in flight at the same time
  Decisions,       \* the status argument administrators pass
  MaxFaults        \* bound: calls that fail, and requests that die

Statuses == {"pending", "verified", "rejected"}

ASSUME KycAssumption ==
  /\ Nobody \notin Users
  /\ Decisions \subseteq Statuses
  /\ MaxFaults \in Nat

VARIABLES
  record,          \* kyc_verifications.status; "none": the user has no row
  profile,         \* profiles.kyc_status
  req,             \* the requests in flight
  faults,
  review,          \* history: what the last review wrote to the record
  mixed            \* history: users whose requests overlapped or lost a call

vars == <<record, profile, req, faults, review, mixed>>

Idle == [at |-> "idle", user |-> Nobody, decision |-> "none", grounds |-> FALSE]

Init ==
  /\ record = [u \in Users |-> "none"]
  /\ profile = [u \in Users |-> "pending"]
  /\ req = [h \in Handlers |-> Idle]
  /\ faults = 0
  /\ review = [u \in Users |-> "none"]
  /\ mixed = {}

WriterSteps == {"insert", "mirror_pending", "review", "mirror_review"}

(* A request that will write for u joins: from here on the two copies may  *)
(* differ if another one is at work.                                       *)
Enter(h, u, entry) ==
  /\ req[h].at = "idle"
  /\ req' = [req EXCEPT ![h] = entry]
  /\ mixed' = IF \E k \in Handlers : req[k].user = u /\ req[k].at \in WriterSteps
              THEN mixed \union {u} ELSE mixed

Go(h, at) == req' = [req EXCEPT ![h].at = at]
Leave(h)  == req' = [req EXCEPT ![h] = Idle]

-----------------------------------------------------------------------------
(* submit_kyc_worker.  A verified or a pending record ends the request.    *)

SubmitRead(h, u) ==
  /\ record[u] \in {"none", "rejected"}
  /\ Enter(h, u, [Idle EXCEPT !.at = "insert", !.user = u])
  /\ UNCHANGED <<record, profile, faults, review>>

\* Fault: the row is upserted, as if the constraint were not there.
SubmitInsert_Upsert(h) ==
  /\ req[h].at = "insert"
  /\ record' = [record EXCEPT ![req[h].user] = "pending"]
  /\ Go(h, "mirror_pending")
  /\ UNCHANGED <<profile, faults, review, mixed>>

(* The INSERT fails for a user who has a row.  That is how the slower half *)
(* of a double click ends, and also a resubmission after a rejection,      *)
(* which the workers' own messages ask for.                                *)
SubmitInsert(h) ==
  LET u == req[h].user IN
  /\ req[h].at = "insert"
  /\ \/ /\ record[u] = "none"
        /\ record' = [record EXCEPT ![u] = "pending"]
        /\ Go(h, "mirror_pending")
     \/ /\ record[u] # "none"
        /\ Leave(h)
        /\ UNCHANGED record
  /\ UNCHANGED <<profile, faults, review, mixed>>

SubmitProfile(h) ==
  /\ req[h].at = "mirror_pending"
  /\ profile' = [profile EXCEPT ![req[h].user] = "pending"]
  /\ Leave(h)
  /\ UNCHANGED <<record, faults, review, mixed>>

-----------------------------------------------------------------------------
(* approve_kyc_worker, called by an administrator.  The status it reads is *)
(* not looked at: a decided record can be decided again.                   *)

\* Fault: the review goes on without a record.
ReviewRead_AnyUser(h, u, d) ==
  /\ Enter(h, u, [Idle EXCEPT !.at = "review", !.user = u, !.decision = d])
  /\ UNCHANGED <<record, profile, faults, review>>

ReviewRead(h, u, d) ==
  /\ record[u] # "none"
  /\ Enter(h, u, [Idle EXCEPT !.at = "review", !.user = u, !.decision = d])
  /\ UNCHANGED <<record, profile, faults, review>>

(* A check in flight has grounds to pass if the user is verified at any    *)
(* moment of it.                                                           *)
ReviewWrite(h) ==
  LET u == req[h].user  d == req[h].decision IN
  /\ req[h].at = "review"
  /\ record' = [record EXCEPT ![u] = d]
  /\ review' = [review EXCEPT ![u] = d]
  /\ req' = [k \in Handlers |->
               IF k = h THEN [req[h] EXCEPT !.at = "mirror_review"]
               ELSE IF req[k].user = u /\ d = "verified"
                    THEN [req[k] EXCEPT !.grounds = TRUE] ELSE req[k]]
  /\ UNCHANGED <<profile, faults, mixed>>

\* Fault: the profile copies whatever status the administrator passed.
ReviewProfile_Swapped(h) ==
  /\ req[h].at = "mirror_review"
  /\ profile' = [profile EXCEPT ![req[h].user] =
                   IF req[h].decision = "rejected" THEN "rejected" ELSE "verified"]
  /\ Leave(h)
  /\ UNCHANGED <<record, faults, review, mixed>>

ReviewProfile(h) ==
  /\ req[h].at = "mirror_review"
  /\ profile' = [profile EXCEPT ![req[h].user] =
                   IF req[h].decision = "verified" THEN "verified" ELSE "rejected"]
  /\ Leave(h)
  /\ UNCHANGED <<record, faults, review, mixed>>

-----------------------------------------------------------------------------
(* get_kyc_status: the record decides; only a user without one is judged   *)
(* by the profile.  PaymentService.initialize refuses all but "verified".  *)

Verdict(status) == IF status = "verified" THEN "admitted" ELSE "refused"

(* The check starts with grounds if the last review verified the user.     *)
Asking(u, at) ==
  [at |-> at, user |-> u, decision |-> "none", grounds |-> review[u] = "verified"]

\* Fault: the profile is asked first and trusted.
CheckRecord_ProfileFirst(h, u) ==
  /\ req[h].at = "idle"
  /\ req' = [req EXCEPT ![h] =
       Asking(u, IF profile[u] = "verified" THEN "admitted" ELSE Verdict(record[u]))]
  /\ UNCHANGED <<record, profile, faults, review, mixed>>

CheckRecord(h, u) ==
  /\ req[h].at = "idle"
  /\ req' = [req EXCEPT ![h] =
       Asking(u, IF record[u] = "none" THEN "check_profile" ELSE Verdict(record[u]))]
  /\ UNCHANGED <<record, profile, faults, review, mixed>>

CheckProfile(h) ==
  /\ req[h].at = "check_profile"
  /\ Go(h, Verdict(profile[req[h].user]))
  /\ UNCHANGED <<record, profile, faults, review, mixed>>

Answered(h) ==
  /\ req[h].at \in {"admitted", "refused"}
  /\ Leave(h)
  /\ UNCHANGED <<record, profile, faults, review, mixed>>

-----------------------------------------------------------------------------
(* A failed call.  The workers swallow it where they copy the status to    *)
(* the profile and end anywhere else; a process that dies looks the same.  *)
Fails(h) ==
  /\ req[h].at # "idle"
  /\ faults < MaxFaults
  /\ faults' = faults + 1
  /\ mixed' = IF req[h].at \in WriterSteps THEN mixed \union {req[h].user} ELSE mixed
  /\ Leave(h)
  /\ UNCHANGED <<record, profile, review>>

Step(h) ==
  \/ \E u \in Users : SubmitRead(h, u)
  \/ SubmitInsert(h)
  \/ SubmitProfile(h)
  \/ \E u \in Users, d \in Decisions : ReviewRead(h, u, d)
  \/ ReviewWrite(h)
  \/ ReviewProfile(h)
  \/ \E u \in Users : CheckRecord(h, u)
  \/ CheckProfile(h)
  \/ Answered(h)
  \/ Fails(h)

Next == \E h \in Handlers : Step(h)
Spec == Init /\ [][Next]_vars

-----------------------------------------------------------------------------
(* Rows and requests stay in their vocabularies; a request past its first  *)
(* read works on a user, and one that copies a status on a user with a row.*)
TypeOK ==
  /\ record \in [Users -> Statuses \union {"none"}]
  /\ profile \in [Users -> Statuses]
  /\ req \in [Handlers -> [at : WriterSteps \union {"idle", "check_profile", "admitted", "refused"},
                           user : Users \union {Nobody},
                           decision : Decisions \union {"none"},
                           grounds : BOOLEAN]]
  /\ faults \in 0 .. MaxFaults
  /\ review \in [Users -> Decisions \union {"none"}]
  /\ mixed \subseteq Users
  /\ \A h \in Handlers :
       /\ req[h].at # "idle" => req[h].user \in Users
       /\ req[h].at \in {"mirror_pending", "review", "mirror_review"} => record[req[h].user] # "none"
       /\ req[h].at \in {"review", "mirror_review"} => req[h].decision \in Decisions

(* Whoever passes the payment gate was verified by the last review at some *)
(* moment between the first and the last read of the check, although the   *)
(* profile may still say "verified" for a user rejected long ago.          *)
AdmittedWasVerified ==
  \A h \in Handlers : req[h].at = "admitted" => req[h].grounds

(* With no request at work for a user, and none that overlapped or failed, *)
(* record and profile agree on whether the user is verified.               *)
CopiesAgree ==
  \A u \in Users :
    (/\ u \notin mixed
     /\ \A h \in Handlers : ~ (req[h].user = u /\ req[h].at \in WriterSteps))
    => (record[u] = "verified" <=> profile[u] = "verified")

(* A verified user stays verified until a review says otherwise: no        *)
(* submission, not even one that looked before the review, takes the       *)
(* record back.  (Of a rejected user's record nothing is said: the workers *)
(* ask for a resubmission and the constraint refuses it.)                  *)
VerifiedStands ==
  [][\A u \in Users : record[u] = "verified" /\ record'[u] # "verified"
                        => \E h \in Handlers : /\ req[h].at = "review" /\ req[h].user = u
                                               /\ req'[h].at = "mirror_review"]_vars
=============================================================================
