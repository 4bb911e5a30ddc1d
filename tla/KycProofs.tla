----------------------------- MODULE KycProofs -----------------------------
(***************************************************************************)
(* Identity verification, for every number of users, requests and faults.  *)
(* A review is the only way to "verified", and it writes the record before *)
(* the profile: from that follow the gate, the standing of a verified user *)
(* and the agreement of the two copies.                                    *)
(***************************************************************************)
EXTENDS Kyc, TLAPS

(* A step keeps rows and requests in their vocabularies.                   *)
LEMMA TypeStep ==
  ASSUME TypeOK, [Next]_vars PROVE TypeOK'
<1> USE KycAssumption DEF TypeOK, Statuses, WriterSteps
<1>1. CASE UNCHANGED vars
  BY <1>1 DEF vars, TypeOK
<1>2. ASSUME NEW h \in Handlers, NEW u \in Users, SubmitRead(h, u)
      PROVE  TypeOK'
  BY <1>2, ZenonT(60) DEF SubmitRead, Enter, Idle
<1>3. ASSUME NEW h \in Handlers, SubmitInsert(h)
      PROVE  TypeOK'
  <2>1. req[h].user \in Users
    BY <1>3 DEF SubmitInsert, Idle
  <2>2. CASE /\ record' = [record EXCEPT ![req[h].user] = "pending"]
             /\ Go(h, "mirror_pending")
    BY <1>3, <2>1, <2>2 DEF SubmitInsert, Go, Idle
  <2>3. CASE Leave(h) /\ UNCHANGED record
    BY <1>3, <2>1, <2>3 DEF SubmitInsert, Leave, Idle
  <2>4. QED
    BY <1>3, <2>2, <2>3 DEF SubmitInsert
<1>4. ASSUME NEW h \in Handlers, SubmitProfile(h)
      PROVE  TypeOK'
  BY <1>4 DEF SubmitProfile, Leave, Idle
<1>5. ASSUME NEW h \in Handlers, NEW u \in Users, NEW d \in Decisions,
            ReviewRead(h, u, d)
      PROVE  TypeOK'
  BY <1>5 DEF ReviewRead, Enter, Idle
<1>6. ASSUME NEW h \in Handlers, ReviewWrite(h)
      PROVE  TypeOK'
  <2>1. /\ req[h].user \in Users /\ req[h].decision \in Decisions
        /\ req[h].decision # "none"
    BY <1>6 DEF ReviewWrite, Idle
  <2>2. \A k \in Handlers :
          /\ req'[k].user = req[k].user /\ req'[k].decision = req[k].decision
          /\ req'[k].at = IF k = h THEN "mirror_review" ELSE req[k].at
    BY <1>6, <2>1 DEF ReviewWrite, Idle
  <2>3. req' \in [Handlers -> [at : WriterSteps \union {"idle", "check_profile", "admitted", "refused"},
                               user : Users \union {Nobody},
                               decision : Decisions \union {"none"},
                               grounds : BOOLEAN]]
    <3>1. ASSUME NEW k \in Handlers
          PROVE  \/ req'[k] = [req[k] EXCEPT !.at = "mirror_review"]
                 \/ req'[k] = [req[k] EXCEPT !.grounds = TRUE]
                 \/ req'[k] = req[k]
      BY <1>6 DEF ReviewWrite
    <3>2. req' = [k \in Handlers |-> req'[k]]
      BY <1>6 DEF ReviewWrite
    <3>3. ASSUME NEW k \in Handlers
          PROVE  req'[k] \in [at : WriterSteps \union {"idle", "check_profile", "admitted", "refused"},
                             user : Users \union {Nobody},
                             decision : Decisions \union {"none"},
                             grounds : BOOLEAN]
      <4>1. CASE req'[k] = [req[k] EXCEPT !.at = "mirror_review"]
        BY <4>1
      <4>2. CASE req'[k] = [req[k] EXCEPT !.grounds = TRUE]
        BY <4>2, ZenonT(60)
      <4>3. QED
        BY <3>1, <4>1, <4>2
    <3>4. QED
      BY <3>2, <3>3
  <2>4. record' = [record EXCEPT ![req[h].user] = req[h].decision]
        /\ review' = [review EXCEPT ![req[h].user] = req[h].decision]
        /\ UNCHANGED <<profile, faults, mixed>>
    BY <1>6 DEF ReviewWrite
  <2>5. \A k \in Handlers :
          /\ req'[k].at # "idle" => req'[k].user \in Users
          /\ req'[k].at \in {"mirror_pending", "review", "mirror_review"}
               => record'[req'[k].user] # "none"
          /\ req'[k].at \in {"review", "mirror_review"} => req'[k].decision \in Decisions
    BY <1>6, <2>1, <2>2, <2>4 DEF ReviewWrite, Idle
  <2>6. QED
    BY <2>1, <2>3, <2>4, <2>5
<1>7. ASSUME NEW h \in Handlers, ReviewProfile(h)
      PROVE  TypeOK'
  BY <1>7 DEF ReviewProfile, Leave, Idle
<1>8. ASSUME NEW h \in Handlers, NEW u \in Users, CheckRecord(h, u)
      PROVE  TypeOK'
  <2> DEFINE v == IF record[u] = "none" THEN "check_profile" ELSE Verdict(record[u])
  <2>1. req' = [req EXCEPT ![h] = Asking(u, v)]
    BY <1>8 DEF CheckRecord
  <2>2. v \in {"check_profile", "admitted", "refused"}
    BY DEF Verdict
  <2> HIDE DEF v
  <2>3. /\ Asking(u, v).at = v /\ Asking(u, v).user = u
        /\ Asking(u, v) \in [at : WriterSteps \union {"idle", "check_profile", "admitted", "refused"},
                             user : Users \union {Nobody},
                             decision : Decisions \union {"none"},
                             grounds : BOOLEAN]
    BY <2>2 DEF Asking
  <2>4. QED
    BY <1>8, <2>1, <2>2, <2>3 DEF CheckRecord
<1>9. ASSUME NEW h \in Handlers, CheckProfile(h)
      PROVE  TypeOK'
  <2>1. PICK v \in {"admitted", "refused"} : req' = [req EXCEPT ![h].at = v]
    BY <1>9 DEF CheckProfile, Go, Verdict
  <2>2. QED
    BY <1>9, <2>1 DEF CheckProfile, Idle
<1>10. ASSUME NEW h \in Handlers, Answered(h)
      PROVE  TypeOK'
  BY <1>10 DEF Answered, Leave, Idle
<1>11. ASSUME NEW h \in Handlers, Fails(h)
      PROVE  TypeOK'
  <2>1. req[h].user \in Users /\ mixed' \subseteq Users /\ faults' \in 0 .. MaxFaults
    BY <1>11 DEF Fails
  <2>2. QED
    BY <1>11, <2>1 DEF Fails, Leave, Idle
<1>12. QED
  BY <1>1, <1>2, <1>3, <1>4, <1>5, <1>6, <1>7, <1>8, <1>9, <1>10, <1>11 DEF
     Next, Step

(* Identity verification keeps its types.                                  *)
THEOREM TypeCorrect == Spec => []TypeOK
<1>1. Init => TypeOK
  BY KycAssumption DEF Init, TypeOK, Statuses, WriterSteps, Idle
<1>2. TypeOK /\ [Next]_vars => TypeOK'
  BY TypeStep
<1>3. QED
  BY <1>1, <1>2, PTL DEF Spec

-----------------------------------------------------------------------------
(* A reviewed record says what the review wrote, one that was not is at    *)
(* most pending, and a user without one has a pending profile.             *)
Reviewed ==
  \A u \in Users :
    /\ review[u] # "none" => record[u] = review[u]
    /\ review[u] = "none" => record[u] \in {"none", "pending"}
    /\ record[u] = "none" => profile[u] = "pending"

(* A step keeps the record to its review.                                  *)
LEMMA ReviewedStep ==
  ASSUME TypeOK, Reviewed, [Next]_vars PROVE Reviewed'
<1> USE KycAssumption DEF TypeOK, Reviewed, Statuses, WriterSteps
<1>1. CASE UNCHANGED vars
  BY <1>1 DEF vars, Reviewed
<1>2. ASSUME NEW h \in Handlers, NEW u \in Users, SubmitRead(h, u)
      PROVE  Reviewed'
  BY <1>2 DEF SubmitRead, Enter, Idle
<1>3. ASSUME NEW h \in Handlers, SubmitInsert(h)
      PROVE  Reviewed'
  BY <1>3 DEF SubmitInsert, Go, Leave, Idle
<1>4. ASSUME NEW h \in Handlers, SubmitProfile(h)
      PROVE  Reviewed'
  BY <1>4 DEF SubmitProfile, Leave, Idle
<1>5. ASSUME NEW h \in Handlers, NEW u \in Users, NEW d \in Decisions,
            ReviewRead(h, u, d)
      PROVE  Reviewed'
  BY <1>5 DEF ReviewRead, Enter, Idle
<1>6. ASSUME NEW h \in Handlers, ReviewWrite(h)
      PROVE  Reviewed'
  BY <1>6 DEF ReviewWrite
<1>7. ASSUME NEW h \in Handlers, ReviewProfile(h)
      PROVE  Reviewed'
  BY <1>7 DEF ReviewProfile, Leave, Idle
<1>8. ASSUME NEW h \in Handlers, NEW u \in Users, CheckRecord(h, u)
      PROVE  Reviewed'
  BY <1>8 DEF CheckRecord, Asking, Verdict
<1>9. ASSUME NEW h \in Handlers, CheckProfile(h)
      PROVE  Reviewed'
  BY <1>9 DEF CheckProfile, Go, Verdict
<1>10. ASSUME NEW h \in Handlers, Answered(h)
      PROVE  Reviewed'
  BY <1>10 DEF Answered, Leave, Idle
<1>11. ASSUME NEW h \in Handlers, Fails(h)
      PROVE  Reviewed'
  BY <1>11 DEF Fails, Leave, Idle
<1>12. QED
  BY <1>1, <1>2, <1>3, <1>4, <1>5, <1>6, <1>7, <1>8, <1>9, <1>10, <1>11 DEF
     Next, Step

(* A check that found no record and has no grounds will find no verified   *)
(* profile: nobody is about to write one, and nobody has.                  *)
Grounded ==
  \A h \in Handlers : req[h].at = "check_profile" /\ ~ req[h].grounds =>
    /\ profile[req[h].user] # "verified"
    /\ \A k \in Handlers : req[k].at = "mirror_review" /\ req[k].user = req[h].user
                             => req[k].decision # "verified"

(* A step keeps the grounds of the checks in flight.                       *)
LEMMA GroundedStep ==
  ASSUME TypeOK, Reviewed, Grounded, [Next]_vars PROVE Grounded'
<1> USE KycAssumption DEF TypeOK, Reviewed, Grounded, Statuses, WriterSteps
<1>1. CASE UNCHANGED vars
  BY <1>1 DEF vars, Grounded
<1>2. ASSUME NEW h \in Handlers, NEW u \in Users, SubmitRead(h, u)
      PROVE  Grounded'
  BY <1>2 DEF SubmitRead, Enter, Idle
<1>3. ASSUME NEW h \in Handlers, SubmitInsert(h)
      PROVE  Grounded'
  BY <1>3 DEF SubmitInsert, Go, Leave, Idle
<1>4. ASSUME NEW h \in Handlers, SubmitProfile(h)
      PROVE  Grounded'
  BY <1>4 DEF SubmitProfile, Leave, Idle
<1>5. ASSUME NEW h \in Handlers, NEW u \in Users, NEW d \in Decisions,
            ReviewRead(h, u, d)
      PROVE  Grounded'
  BY <1>5 DEF ReviewRead, Enter, Idle
<1>6. ASSUME NEW h \in Handlers, ReviewWrite(h)
      PROVE  Grounded'
  BY <1>6 DEF ReviewWrite
<1>7. ASSUME NEW h \in Handlers, ReviewProfile(h)
      PROVE  Grounded'
  BY <1>7 DEF ReviewProfile, Leave, Idle
<1>8. ASSUME NEW h \in Handlers, NEW u \in Users, CheckRecord(h, u)
      PROVE  Grounded'
  BY <1>8 DEF CheckRecord, Asking, Verdict
<1>9. ASSUME NEW h \in Handlers, CheckProfile(h)
      PROVE  Grounded'
  BY <1>9 DEF CheckProfile, Go, Verdict
<1>10. ASSUME NEW h \in Handlers, Answered(h)
      PROVE  Grounded'
  BY <1>10 DEF Answered, Leave, Idle
<1>11. ASSUME NEW h \in Handlers, Fails(h)
      PROVE  Grounded'
  BY <1>11 DEF Fails, Leave, Idle
<1>12. QED
  BY <1>1, <1>2, <1>3, <1>4, <1>5, <1>6, <1>7, <1>8, <1>9, <1>10, <1>11 DEF
     Next, Step

(* A step admits nobody without grounds.                                   *)
LEMMA AdmittedStep ==
  ASSUME TypeOK, Reviewed, Grounded, AdmittedWasVerified, [Next]_vars PROVE
         AdmittedWasVerified'
<1> USE KycAssumption DEF TypeOK, Reviewed, Grounded, AdmittedWasVerified,
            Statuses, WriterSteps
<1>1. CASE UNCHANGED vars
  BY <1>1 DEF vars, AdmittedWasVerified
<1>2. ASSUME NEW h \in Handlers, NEW u \in Users, SubmitRead(h, u)
      PROVE  AdmittedWasVerified'
  BY <1>2 DEF SubmitRead, Enter, Idle
<1>3. ASSUME NEW h \in Handlers, SubmitInsert(h)
      PROVE  AdmittedWasVerified'
  BY <1>3 DEF SubmitInsert, Go, Leave, Idle
<1>4. ASSUME NEW h \in Handlers, SubmitProfile(h)
      PROVE  AdmittedWasVerified'
  BY <1>4 DEF SubmitProfile, Leave, Idle
<1>5. ASSUME NEW h \in Handlers, NEW u \in Users, NEW d \in Decisions,
            ReviewRead(h, u, d)
      PROVE  AdmittedWasVerified'
  BY <1>5 DEF ReviewRead, Enter, Idle
<1>6. ASSUME NEW h \in Handlers, ReviewWrite(h)
      PROVE  AdmittedWasVerified'
  BY <1>6 DEF ReviewWrite
<1>7. ASSUME NEW h \in Handlers, ReviewProfile(h)
      PROVE  AdmittedWasVerified'
  BY <1>7 DEF ReviewProfile, Leave, Idle
<1>8. ASSUME NEW h \in Handlers, NEW u \in Users, CheckRecord(h, u)
      PROVE  AdmittedWasVerified'
  <2> DEFINE v == IF record[u] = "none" THEN "check_profile" ELSE Verdict(record[u])
  <2>1. req' = [req EXCEPT ![h] = Asking(u, v)]
    BY <1>8 DEF CheckRecord
  <2>2. v = "admitted" => record[u] = "verified" /\ review[u] = "verified"
    BY DEF Verdict, Statuses
  <2> HIDE DEF v
  <2>3. req'[h] = Asking(u, v) /\ \A k \in Handlers \ {h} : req'[k] = req[k]
    BY <2>1
  <2>4. Asking(u, v).at = v /\ Asking(u, v).grounds = (review[u] = "verified")
    BY Zenon DEF Asking
  <2>5. v = "admitted" => Asking(u, v).grounds
    BY <2>2, <2>4
  <2>6. QED
    BY <2>3, <2>4, <2>5
<1>9. ASSUME NEW h \in Handlers, CheckProfile(h)
      PROVE  AdmittedWasVerified'
  BY <1>9 DEF CheckProfile, Go, Verdict
<1>10. ASSUME NEW h \in Handlers, Answered(h)
      PROVE  AdmittedWasVerified'
  BY <1>10 DEF Answered, Leave, Idle
<1>11. ASSUME NEW h \in Handlers, Fails(h)
      PROVE  AdmittedWasVerified'
  BY <1>11 DEF Fails, Leave, Idle
<1>12. QED
  BY <1>1, <1>2, <1>3, <1>4, <1>5, <1>6, <1>7, <1>8, <1>9, <1>10, <1>11 DEF
     Next, Step

(* Whoever passes the payment gate was verified by the last review at some *)
(* moment of the check (get_kyc_status, PaymentService.initialize).        *)
THEOREM AdmittedUsersWereVerified == Spec => []AdmittedWasVerified
<1> DEFINE Inv == TypeOK /\ Reviewed /\ Grounded /\ AdmittedWasVerified
<1>1. Init => Inv
  BY KycAssumption DEF Init, TypeOK, Reviewed, Grounded, AdmittedWasVerified, Statuses,
     WriterSteps, Idle
<1>2. Inv /\ [Next]_vars => Inv'
  BY TypeStep, ReviewedStep, GroundedStep, AdmittedStep
<1>3. QED
  BY <1>1, <1>2, PTL DEF Spec

(* A verified user stays verified until a review says otherwise (the       *)
(* UNIQUE user_id of kyc_verifications refuses the late half of a double   *)
(* submission).                                                            *)
THEOREM VerifiedUsersStay == Spec => VerifiedStands
<1> DEFINE Stands == \A u \in Users : record[u] = "verified" /\ record'[u] # "verified"
                        => \E h \in Handlers : /\ req[h].at = "review" /\ req[h].user = u
                                               /\ req'[h].at = "mirror_review"
<1>1. TypeOK /\ [Next]_vars => [Stands]_vars
  <2> SUFFICES ASSUME TypeOK, Next PROVE Stands
    BY DEF Stands
  <2>1. ASSUME NEW h \in Handlers, SubmitInsert(h) PROVE Stands
    BY <2>1 DEF SubmitInsert, TypeOK
  <2>2. ASSUME NEW h \in Handlers, ReviewWrite(h) PROVE Stands
    BY <2>2 DEF ReviewWrite, TypeOK
  <2>3. ASSUME record' = record PROVE Stands
    BY <2>3
  <2>4. QED
    BY <2>1, <2>2, <2>3 DEF Next, Step, SubmitRead, SubmitProfile, ReviewRead, ReviewProfile,
       CheckRecord, CheckProfile, Answered, Fails
<1>2. QED
  BY <1>1, TypeCorrect, PTL DEF Spec, VerifiedStands

-----------------------------------------------------------------------------
Writing(h) == req[h].at \in WriterSteps
Verified(u) == record[u] = "verified" <=> profile[u] = "verified"

(* As long as requests for a user did not meet or fail, one is at work at  *)
(* a time, and only between its two writes may the copies differ.          *)
OneWriter ==
  \A h, k \in Handlers :
    Writing(h) /\ Writing(k) /\ req[h].user = req[k].user /\ req[h].user \notin mixed => h = k

BetweenWrites ==
  /\ \A h \in Handlers : req[h].user \notin mixed =>
       /\ req[h].at = "mirror_review" => record[req[h].user] = req[h].decision
       /\ req[h].at = "mirror_pending" => record[req[h].user] = "pending"
  /\ \A u \in Users \ mixed :
       (\A h \in Handlers : ~ (req[h].at = "mirror_review" /\ req[h].user = u)) => Verified(u)

(* A second request for a user makes the user mixed.                       *)
LEMMA OneWriterStep ==
  ASSUME TypeOK, OneWriter, [Next]_vars PROVE OneWriter'
<1> USE KycAssumption DEF TypeOK, OneWriter, Writing, Statuses, WriterSteps
<1>1. CASE UNCHANGED vars
  BY <1>1 DEF vars, OneWriter
<1>2. ASSUME NEW h \in Handlers, NEW u \in Users, SubmitRead(h, u)
      PROVE  OneWriter'
  BY <1>2 DEF SubmitRead, Enter, Idle
<1>3. ASSUME NEW h \in Handlers, SubmitInsert(h)
      PROVE  OneWriter'
  BY <1>3 DEF SubmitInsert, Go, Leave, Idle
<1>4. ASSUME NEW h \in Handlers, SubmitProfile(h)
      PROVE  OneWriter'
  BY <1>4 DEF SubmitProfile, Leave, Idle
<1>5. ASSUME NEW h \in Handlers, NEW u \in Users, NEW d \in Decisions,
            ReviewRead(h, u, d)
      PROVE  OneWriter'
  BY <1>5 DEF ReviewRead, Enter, Idle
<1>6. ASSUME NEW h \in Handlers, ReviewWrite(h)
      PROVE  OneWriter'
  BY <1>6 DEF ReviewWrite
<1>7. ASSUME NEW h \in Handlers, ReviewProfile(h)
      PROVE  OneWriter'
  BY <1>7 DEF ReviewProfile, Leave, Idle
<1>8. ASSUME NEW h \in Handlers, NEW u \in Users, CheckRecord(h, u)
      PROVE  OneWriter'
  BY <1>8 DEF CheckRecord, Asking, Verdict
<1>9. ASSUME NEW h \in Handlers, CheckProfile(h)
      PROVE  OneWriter'
  BY <1>9 DEF CheckProfile, Go, Verdict
<1>10. ASSUME NEW h \in Handlers, Answered(h)
      PROVE  OneWriter'
  BY <1>10 DEF Answered, Leave, Idle
<1>11. ASSUME NEW h \in Handlers, Fails(h)
      PROVE  OneWriter'
  BY <1>11 DEF Fails, Leave, Idle
<1>12. QED
  BY <1>1, <1>2, <1>3, <1>4, <1>5, <1>6, <1>7, <1>8, <1>9, <1>10, <1>11 DEF
     Next, Step

(* A step keeps what holds between the two writes of a request.            *)
LEMMA BetweenWritesStep ==
  ASSUME TypeOK, Reviewed, OneWriter, BetweenWrites, [Next]_vars PROVE
         BetweenWrites'
<1> USE KycAssumption DEF TypeOK, Reviewed, OneWriter, BetweenWrites, Writing,
            Verified, Statuses, WriterSteps
<1>1. CASE UNCHANGED vars
  BY <1>1 DEF vars, BetweenWrites
<1>2. ASSUME NEW h \in Handlers, NEW u \in Users, SubmitRead(h, u)
      PROVE  BetweenWrites'
  BY <1>2 DEF SubmitRead, Enter, Idle
<1>3. ASSUME NEW h \in Handlers, SubmitInsert(h)
      PROVE  BetweenWrites'
  BY <1>3 DEF SubmitInsert, Go, Leave, Idle
<1>4. ASSUME NEW h \in Handlers, SubmitProfile(h)
      PROVE  BetweenWrites'
  BY <1>4 DEF SubmitProfile, Leave, Idle
<1>5. ASSUME NEW h \in Handlers, NEW u \in Users, NEW d \in Decisions,
            ReviewRead(h, u, d)
      PROVE  BetweenWrites'
  BY <1>5 DEF ReviewRead, Enter, Idle
<1>6. ASSUME NEW h \in Handlers, ReviewWrite(h)
      PROVE  BetweenWrites'
  <2>1. /\ req[h].user \in Users /\ req[h].decision \in Decisions
        /\ Writing(h) /\ mixed' = mixed /\ profile' = profile
    BY <1>6 DEF ReviewWrite, Idle
  <2>2. \A k \in Handlers :
          /\ req'[k].user = req[k].user /\ req'[k].decision = req[k].decision
          /\ req'[k].at = IF k = h THEN "mirror_review" ELSE req[k].at
    BY <1>6, <2>1 DEF ReviewWrite
  <2>3. record' = [record EXCEPT ![req[h].user] = req[h].decision]
    BY <1>6 DEF ReviewWrite
  <2>4. ASSUME NEW k \in Handlers, req'[k].user \notin mixed'
        PROVE  /\ req'[k].at = "mirror_review" => record'[req'[k].user] = req'[k].decision
               /\ req'[k].at = "mirror_pending" => record'[req'[k].user] = "pending"
    <3>1. CASE k = h
      BY <2>1, <2>2, <2>3, <3>1
    <3>2. CASE k # h /\ req[k].at \in {"mirror_review", "mirror_pending"}
      <4>1. req[k].user # req[h].user
        BY <2>1, <2>2, <2>4, <3>2
      <4>2. QED
        BY <2>1, <2>2, <2>3, <2>4, <3>2, <4>1
    <3>3. QED
      BY <2>2, <3>1, <3>2
  <2>5. ASSUME NEW u \in Users \ mixed',
               \A k \in Handlers : ~ (req'[k].at = "mirror_review" /\ req'[k].user = u)
        PROVE  Verified(u)'
    <3>1. u # req[h].user /\ \A k \in Handlers : ~ (req[k].at = "mirror_review" /\ req[k].user = u)
      BY <2>1, <2>2, <2>5
    <3>2. QED
      BY <2>1, <2>3, <2>5, <3>1
  <2>6. QED
    BY <2>4, <2>5
<1>7. ASSUME NEW h \in Handlers, ReviewProfile(h)
      PROVE  BetweenWrites'
  BY <1>7 DEF ReviewProfile, Leave, Idle
<1>8. ASSUME NEW h \in Handlers, NEW u \in Users, CheckRecord(h, u)
      PROVE  BetweenWrites'
  BY <1>8 DEF CheckRecord, Asking, Verdict
<1>9. ASSUME NEW h \in Handlers, CheckProfile(h)
      PROVE  BetweenWrites'
  BY <1>9 DEF CheckProfile, Go, Verdict
<1>10. ASSUME NEW h \in Handlers, Answered(h)
      PROVE  BetweenWrites'
  BY <1>10 DEF Answered, Leave, Idle
<1>11. ASSUME NEW h \in Handlers, Fails(h)
      PROVE  BetweenWrites'
  BY <1>11 DEF Fails, Leave, Idle
<1>12. QED
  BY <1>1, <1>2, <1>3, <1>4, <1>5, <1>6, <1>7, <1>8, <1>9, <1>10, <1>11 DEF
     Next, Step

(* With nothing at work for a user, and nothing that overlapped or failed, *)
(* kyc_verifications and profiles agree on whether the user is verified.   *)
THEOREM TheCopiesAgree == Spec => []CopiesAgree
<1> DEFINE Inv == TypeOK /\ Reviewed /\ OneWriter /\ BetweenWrites
<1>1. Init => Inv
  BY KycAssumption DEF Init, TypeOK, Reviewed, OneWriter, BetweenWrites, Writing, Verified,
     Statuses, WriterSteps, Idle
<1>2. Inv /\ [Next]_vars => Inv'
  BY TypeStep, ReviewedStep, OneWriterStep, BetweenWritesStep
<1>3. Inv => CopiesAgree
  BY DEF BetweenWrites, Verified, CopiesAgree, WriterSteps
<1>4. QED
  BY <1>1, <1>2, <1>3, PTL DEF Spec
=============================================================================
