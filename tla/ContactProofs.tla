--------------------------- MODULE ContactProofs ---------------------------
(***************************************************************************)
(* Tours and threads, for every number of users, rows, requests and        *)
(* faults.  All four safety properties rest on one fact: two requests at   *)
(* work on the same tour, on the same thread or on opening a thread make   *)
(* that subject mixed, so that on the others each is alone.                *)
(***************************************************************************)
EXTENDS Contact, TLAPS

LEMMA IdleIsRequest == Idle \in Requests
  BY ContactAssumption DEF Requests, Idle, Places, Party

(* One request moves, rows only get more: all requests work on rows.       *)
LEMMA MovesKeepTypes ==
  ASSUME req \in [Handlers -> Requests], \A k \in Handlers : Works(req[k]),
         NEW h \in Handlers, NEW e \in Requests, Works(e)', req' = [req EXCEPT ![h] = e],
         \A y \in Tours : visitor[y] # Nobody => visitor'[y] # Nobody,
         \A y \in Threads : exists[y] => exists'[y]
  PROVE  req' \in [Handlers -> Requests] /\ \A k \in Handlers : Works(req[k])'
<1>1. ASSUME NEW k \in Handlers PROVE Works(req[k])'
  <2>1. CASE k = h
    BY <2>1
  <2>2. CASE k # h
    BY <2>2 DEF Works
  <2>3. QED
    BY <2>1, <2>2
<1>2. QED
  BY <1>1

(* A step keeps rows and requests in their vocabularies.                   *)
LEMMA TypeStep ==
  ASSUME TypeOK, [Next]_vars PROVE TypeOK'
<1> USE ContactAssumption DEF TypeOK
<1>1. CASE UNCHANGED vars
  BY <1>1 DEF vars, tourVars, threadVars, TypeOK, RowsOK, Works
<1>2. ASSUME NEW h \in Handlers, NEW u \in Users, BookRead(h, u)
      PROVE  TypeOK'
  <2>1. req' = [req EXCEPT ![h] = [Idle EXCEPT !.at = "book", !.user = u]]
    BY <1>2 DEF BookRead, Enter
  <2> DEFINE e == [Idle EXCEPT !.at = "book", !.user = u]
  <2>3. e \in Requests
    BY IdleIsRequest DEF Requests, Places, Party
  <2>4. e.at = "book" /\ e.user = u
    BY DEF Idle
  <2> HIDE DEF e
  <2>5. Works(e)'
    BY <1>2, <2>4 DEF BookRead, Works, tourVars, threadVars
  <2>6. RowsOK'
    BY <1>2 DEF BookRead, RowsOK, Works, Requests, Party, Tours, Threads, Decisions, tourVars, threadVars
  <2>7. /\ \A y \in Tours : visitor[y] # Nobody => visitor'[y] # Nobody
        /\ \A y \in Threads : exists[y] => exists'[y]
    BY <1>2 DEF BookRead, RowsOK, Works, Tours, Threads, tourVars, threadVars
  <2>8. faults' \in 0 .. MaxFaults
    BY <1>2 DEF BookRead
  <2>9. QED
    BY <2>1, <2>3, <2>5, <2>6, <2>7, <2>8, MovesKeepTypes DEF e
<1>3. ASSUME NEW h \in Handlers, BookInsert(h)
      PROVE  TypeOK'
  <2>1. req' = [req EXCEPT ![h] = Idle]
    BY <1>3 DEF BookInsert, Leave
  <2> DEFINE e == Idle
  <2>3. e \in Requests
    BY IdleIsRequest DEF Requests, Places, Party
  <2>5. Works(e)'
    BY <1>3 DEF BookInsert, Works, Idle, tourVars, threadVars
  <2>6. RowsOK'
    BY <1>3 DEF BookInsert, RowsOK, Works, Requests, Party, Tours, Threads, Decisions, tourVars, threadVars
  <2>7. /\ \A y \in Tours : visitor[y] # Nobody => visitor'[y] # Nobody
        /\ \A y \in Threads : exists[y] => exists'[y]
    BY <1>3 DEF BookInsert, RowsOK, Works, Tours, Threads, tourVars, threadVars
  <2>8. faults' \in 0 .. MaxFaults
    BY <1>3 DEF BookInsert
  <2>9. QED
    BY <2>1, <2>3, <2>5, <2>6, <2>7, <2>8, MovesKeepTypes
<1>4. ASSUME NEW h \in Handlers, NEW u \in Users, NEW t \in Tours, NEW d \in
            Decisions, ManageRead(h, u, t, d)
      PROVE  TypeOK'
  <2>1. req' = [req EXCEPT ![h] = [Idle EXCEPT !.at = "decide", !.user = u, !.role = "owner", !.tour = t, !.decision = d]]
    BY <1>4 DEF ManageRead, Enter
  <2> DEFINE e == [Idle EXCEPT !.at = "decide", !.user = u, !.role = "owner", !.tour = t, !.decision = d]
  <2>2. t \in 0 .. MaxTours /\ d \in Decisions
    BY <1>4 DEF Tours
  <2>3. e \in Requests
    BY IdleIsRequest, <2>2 DEF Requests, Places, Party
  <2>4. e.at = "decide" /\ e.user = u /\ e.tour = t /\ e.decision = d
    BY DEF Idle
  <2> HIDE DEF e
  <2>5. Works(e)'
    BY <1>4, <2>4, <2>2 DEF ManageRead, Works, tourVars, threadVars
  <2>6. RowsOK'
    BY <1>4, <2>2 DEF ManageRead, RowsOK, Works, Requests, Party, Tours, Threads, Decisions, tourVars, threadVars
  <2>7. /\ \A y \in Tours : visitor[y] # Nobody => visitor'[y] # Nobody
        /\ \A y \in Threads : exists[y] => exists'[y]
    BY <1>4 DEF ManageRead, RowsOK, Works, Tours, Threads, tourVars, threadVars
  <2>8. faults' \in 0 .. MaxFaults
    BY <1>4 DEF ManageRead
  <2>9. QED
    BY <2>1, <2>3, <2>5, <2>6, <2>7, <2>8, MovesKeepTypes DEF e
<1>5. ASSUME NEW h \in Handlers, Decide(h)
      PROVE  TypeOK'
  <2>1. req' = [req EXCEPT ![h] = [req[h] EXCEPT !.at = "told"]]
    BY <1>5 DEF Decide, Go
  <2>2. req[h] \in Requests
    BY <1>5
  <2>3. [req[h] EXCEPT !.at = "told"] \in Requests
    BY IdleIsRequest, <2>2 DEF Requests, Places, Party
  <2>r. PICK e \in Requests : e = [req[h] EXCEPT !.at = "told"]
    BY <2>3
  <2>4. e.at = "told" /\ e.user = req[h].user /\ e.tour = req[h].tour /\ e.decision = req[h].decision
    BY <2>r DEF Idle, Requests
  <2>5. Works(e)'
    BY <1>5, <2>4, <2>2 DEF Decide, Works, tourVars, threadVars
  <2>6. RowsOK'
    BY <1>5, <2>2 DEF Decide, RowsOK, Works, Requests, Party, Tours, Threads, Decisions, tourVars, threadVars
  <2>7. /\ \A y \in Tours : visitor[y] # Nobody => visitor'[y] # Nobody
        /\ \A y \in Threads : exists[y] => exists'[y]
    BY <1>5 DEF Decide, RowsOK, Works, Tours, Threads, tourVars, threadVars
  <2>8. faults' \in 0 .. MaxFaults
    BY <1>5 DEF Decide
  <2>9. QED
    BY <2>1, <2>r, <2>5, <2>6, <2>7, <2>8, MovesKeepTypes
<1>6. ASSUME NEW h \in Handlers, DecisionAnswered(h)
      PROVE  TypeOK'
  <2>1. req' = [req EXCEPT ![h] = Idle]
    BY <1>6 DEF DecisionAnswered, Leave
  <2> DEFINE e == Idle
  <2>3. e \in Requests
    BY IdleIsRequest DEF Requests, Places, Party
  <2>5. Works(e)'
    BY <1>6 DEF DecisionAnswered, Works, Idle, tourVars, threadVars
  <2>6. RowsOK'
    BY <1>6 DEF DecisionAnswered, RowsOK, Works, Requests, Party, Tours, Threads, Decisions, tourVars, threadVars
  <2>7. /\ \A y \in Tours : visitor[y] # Nobody => visitor'[y] # Nobody
        /\ \A y \in Threads : exists[y] => exists'[y]
    BY <1>6 DEF DecisionAnswered, RowsOK, Works, Tours, Threads, tourVars, threadVars
  <2>8. faults' \in 0 .. MaxFaults
    BY <1>6 DEF DecisionAnswered
  <2>9. QED
    BY <2>1, <2>3, <2>5, <2>6, <2>7, <2>8, MovesKeepTypes
<1>7. ASSUME NEW h \in Handlers, NEW u \in Users, NEW to \in Party,
            ThreadReuse(h, u, to)
      PROVE  TypeOK'
  <2>1. PICK x \in Threads :
          req' = [req EXCEPT ![h] = [Idle EXCEPT !.at = "given", !.user = u, !.to = to, !.thread = x]]
    BY <1>7 DEF ThreadReuse, RowsOK, Threads, Found
  <2> DEFINE e == [Idle EXCEPT !.at = "given", !.user = u, !.to = to, !.thread = x]
  <2>2. x \in 0 .. MaxThreads
    BY <1>7 DEF Threads
  <2>3. e \in Requests
    BY IdleIsRequest, <2>2 DEF Requests, Places, Party
  <2>4. e.at = "given" /\ e.user = u
    BY DEF Idle
  <2> HIDE DEF e
  <2>5. Works(e)'
    BY <1>7, <2>4, <2>2 DEF ThreadReuse, Works, tourVars, threadVars
  <2>6. RowsOK'
    BY <1>7, <2>2 DEF ThreadReuse, RowsOK, Works, Requests, Party, Tours, Threads, Decisions, tourVars, threadVars
  <2>7. /\ \A y \in Tours : visitor[y] # Nobody => visitor'[y] # Nobody
        /\ \A y \in Threads : exists[y] => exists'[y]
    BY <1>7 DEF ThreadReuse, RowsOK, Works, Tours, Threads, tourVars, threadVars
  <2>8. faults' \in 0 .. MaxFaults
    BY <1>7 DEF ThreadReuse
  <2>9. QED
    BY <2>1, <2>3, <2>5, <2>6, <2>7, <2>8, MovesKeepTypes DEF e
<1>8. ASSUME NEW h \in Handlers, NEW u \in Users, NEW p \in BOOLEAN, NEW to \in
            Party, ThreadMissing(h, u, p, to)
      PROVE  TypeOK'
  <2>1. PICK x \in StoredRoles \union {"renter"} :
          req' = [req EXCEPT ![h] = [Idle EXCEPT !.at = "open", !.user = u, !.role = x, !.about = p, !.to = to]]
    BY <1>8 DEF ThreadMissing, Enter, RowsOK, Threads, ContextRole
  <2> DEFINE e == [Idle EXCEPT !.at = "open", !.user = u, !.role = x, !.about = p, !.to = to]
  <2>2. x \in StoredRoles \union {"renter"}
    BY <1>8
  <2>3. e \in Requests
    BY IdleIsRequest, <2>2 DEF Requests, Places, Party
  <2>4. e.at = "open" /\ e.user = u
    BY DEF Idle
  <2> HIDE DEF e
  <2>5. Works(e)'
    BY <1>8, <2>4, <2>2 DEF ThreadMissing, Works, tourVars, threadVars
  <2>6. RowsOK'
    BY <1>8, <2>2 DEF ThreadMissing, RowsOK, Works, Requests, Party, Tours, Threads, Decisions, tourVars, threadVars
  <2>7. /\ \A y \in Tours : visitor[y] # Nobody => visitor'[y] # Nobody
        /\ \A y \in Threads : exists[y] => exists'[y]
    BY <1>8 DEF ThreadMissing, RowsOK, Works, Tours, Threads, tourVars, threadVars
  <2>8. faults' \in 0 .. MaxFaults
    BY <1>8 DEF ThreadMissing
  <2>9. QED
    BY <2>1, <2>3, <2>5, <2>6, <2>7, <2>8, MovesKeepTypes DEF e
<1>9. ASSUME NEW h \in Handlers, ThreadInsert(h)
      PROVE  TypeOK'
  <2>1. PICK x \in Threads :
          req' = [req EXCEPT ![h] = [Idle EXCEPT !.at = "given", !.user = req[h].user, !.to = req[h].to, !.thread = x]]
    BY <1>9 DEF ThreadInsert, RowsOK, Threads
  <2>2. /\ x \in 0 .. MaxThreads /\ req[h].user \in Users /\ req[h].to \in Party
    BY <1>9 DEF ThreadInsert, Threads, Works, Requests
  <2>3. [Idle EXCEPT !.at = "given", !.user = req[h].user, !.to = req[h].to, !.thread = x] \in Requests
    BY IdleIsRequest, <2>2 DEF Requests, Places, Party
  <2>r. PICK e \in Requests : e = [Idle EXCEPT !.at = "given", !.user = req[h].user, !.to = req[h].to, !.thread = x]
    BY <2>3
  <2>4. e.at = "given" /\ e.user = req[h].user
    BY <2>r DEF Idle
  <2>5. Works(e)'
    BY <1>9, <2>4, <2>2 DEF ThreadInsert, Works, tourVars, threadVars
  <2>6. RowsOK'
    <3> DEFINE Opens(v, w) == \E y \in Threads : /\ exists' = [exists EXCEPT ![y] = TRUE]
                                                /\ about' = [about EXCEPT ![y] = req[h].about]
                                                /\ owner' = [owner EXCEPT ![y] = w]
                                                /\ renter' = [renter EXCEPT ![y] = v]
                                                /\ last' = [last EXCEPT ![y] = tickets]
    <3>1. \A v, w \in Party : Opens(v, w) => RowsOK'
      BY <1>9 DEF ThreadInsert, RowsOK, Requests, tourVars
    <3> HIDE DEF Opens
    <3>2. req[h].user \in Party /\ req[h].to \in Party
      BY DEF Requests
    <3>3. CASE req[h].role = "landlord"
      <4>1. Opens(req[h].to, req[h].user)
        BY <1>9, <3>3 DEF ThreadInsert, Opens
      <4>2. QED
        BY <4>1, <3>1, <3>2
    <3>4. CASE req[h].role # "landlord"
      <4>1. Opens(req[h].user, req[h].to)
        BY <1>9, <3>4 DEF ThreadInsert, Opens
      <4>2. QED
        BY <4>1, <3>1, <3>2
    <3>5. QED
      BY <3>3, <3>4
  <2>7. /\ \A y \in Tours : visitor[y] # Nobody => visitor'[y] # Nobody
        /\ \A y \in Threads : exists[y] => exists'[y]
    BY <1>9 DEF ThreadInsert, RowsOK, Works, Tours, Threads, tourVars, threadVars
  <2>8. faults' \in 0 .. MaxFaults
    BY <1>9 DEF ThreadInsert
  <2>9. QED
    BY <2>1, <2>r, <2>5, <2>6, <2>7, <2>8, MovesKeepTypes
<1>10. ASSUME NEW h \in Handlers, ThreadAnswered(h)
      PROVE  TypeOK'
  <2>1. req' = [req EXCEPT ![h] = Idle]
    BY <1>10 DEF ThreadAnswered, Leave
  <2> DEFINE e == Idle
  <2>3. e \in Requests
    BY IdleIsRequest DEF Requests, Places, Party
  <2>5. Works(e)'
    BY <1>10 DEF ThreadAnswered, Works, Idle, tourVars, threadVars
  <2>6. RowsOK'
    BY <1>10 DEF ThreadAnswered, RowsOK, Works, Requests, Party, Tours, Threads, Decisions, tourVars, threadVars
  <2>7. /\ \A y \in Tours : visitor[y] # Nobody => visitor'[y] # Nobody
        /\ \A y \in Threads : exists[y] => exists'[y]
    BY <1>10 DEF ThreadAnswered, RowsOK, Works, Tours, Threads, tourVars, threadVars
  <2>8. faults' \in 0 .. MaxFaults
    BY <1>10 DEF ThreadAnswered
  <2>9. QED
    BY <2>1, <2>3, <2>5, <2>6, <2>7, <2>8, MovesKeepTypes
<1>11. ASSUME NEW h \in Handlers, NEW u \in Users, NEW s \in Threads,
            SendRead(h, u, s)
      PROVE  TypeOK'
  <2>1. req' = [req EXCEPT ![h] = [Idle EXCEPT !.at = "message", !.user = u, !.thread = s, !.ticket = tickets + 1]]
    BY <1>11 DEF SendRead, Enter
  <2>2. s \in 0 .. MaxThreads /\ tickets + 1 \in 0 .. MaxMessages /\ tickets + 1 \in Tickets
    BY <1>11 DEF SendRead, Threads, Tickets, RowsOK
  <2>3. [Idle EXCEPT !.at = "message", !.user = u, !.thread = s, !.ticket = tickets + 1] \in Requests
    BY IdleIsRequest, <2>2 DEF Requests, Places, Party
  <2>r. PICK e \in Requests : e = [Idle EXCEPT !.at = "message", !.user = u, !.thread = s, !.ticket = tickets + 1]
    BY <2>3
  <2>4. e.at = "message" /\ e.user = u /\ e.thread = s /\ e.ticket = tickets + 1
    BY <2>r DEF Idle
  <2>5. Works(e)'
    BY <1>11, <2>4, <2>2 DEF SendRead, Works, tourVars, threadVars
  <2>6. RowsOK'
    BY <1>11, <2>2 DEF SendRead, RowsOK, Works, Requests, Party, Tours, Threads, Decisions, tourVars, threadVars
  <2>7. /\ \A y \in Tours : visitor[y] # Nobody => visitor'[y] # Nobody
        /\ \A y \in Threads : exists[y] => exists'[y]
    BY <1>11 DEF SendRead, RowsOK, Works, Tours, Threads, tourVars, threadVars
  <2>8. faults' \in 0 .. MaxFaults
    BY <1>11 DEF SendRead
  <2>9. QED
    BY <2>1, <2>r, <2>5, <2>6, <2>7, <2>8, MovesKeepTypes
<1>12. ASSUME NEW h \in Handlers, SendInsert(h)
      PROVE  TypeOK'
  <2>1. req' = [req EXCEPT ![h] = [req[h] EXCEPT !.at = "touch", !.stamp = tickets]]
    BY <1>12 DEF SendInsert
  <2>2. tickets \in 0 .. MaxMessages
    BY <1>12 DEF RowsOK
  <2>3. [req[h] EXCEPT !.at = "touch", !.stamp = tickets] \in Requests
    BY IdleIsRequest, <2>2, ZenonT(60) DEF Requests, Places, Party
  <2>r. PICK e \in Requests : e = [req[h] EXCEPT !.at = "touch", !.stamp = tickets]
    BY <2>3
  <2>4. e.at = "touch" /\ e.user = req[h].user /\ e.thread = req[h].thread /\ e.ticket = req[h].ticket
    BY <2>r DEF Idle, Requests
  <2>5. Works(e)'
    BY <1>12, <2>4, <2>2 DEF SendInsert, Works, tourVars, threadVars
  <2>6. RowsOK'
    <3>1. /\ req[h].thread \in Threads /\ req[h].user \in Users /\ req[h].ticket \in Tickets
      BY <1>12 DEF SendInsert, Works
    <3>2. messages' \subseteq [thread : Threads, sender : Users, ticket : Tickets]
      BY <1>12, <3>1 DEF SendInsert, RowsOK
    <3>3. QED
      BY <1>12, <3>2 DEF SendInsert, RowsOK, tourVars
  <2>7. /\ \A y \in Tours : visitor[y] # Nobody => visitor'[y] # Nobody
        /\ \A y \in Threads : exists[y] => exists'[y]
    BY <1>12 DEF SendInsert, RowsOK, Works, Tours, Threads, tourVars, threadVars
  <2>8. faults' \in 0 .. MaxFaults
    BY <1>12 DEF SendInsert
  <2>9. QED
    BY <2>1, <2>r, <2>5, <2>6, <2>7, <2>8, MovesKeepTypes
<1>13. ASSUME NEW h \in Handlers, SendTouch(h)
      PROVE  TypeOK'
  <2>1. req' = [req EXCEPT ![h] = Idle]
    BY <1>13 DEF SendTouch, Leave
  <2> DEFINE e == Idle
  <2>3. e \in Requests
    BY IdleIsRequest DEF Requests, Places, Party
  <2>5. Works(e)'
    BY <1>13 DEF SendTouch, Works, Idle, tourVars, threadVars
  <2>6. RowsOK'
    BY <1>13 DEF SendTouch, RowsOK, Works, Requests, Party, Tours, Threads, Decisions, tourVars, threadVars
  <2>7. /\ \A y \in Tours : visitor[y] # Nobody => visitor'[y] # Nobody
        /\ \A y \in Threads : exists[y] => exists'[y]
    BY <1>13 DEF SendTouch, RowsOK, Works, Tours, Threads, tourVars, threadVars
  <2>8. faults' \in 0 .. MaxFaults
    BY <1>13 DEF SendTouch
  <2>9. QED
    BY <2>1, <2>3, <2>5, <2>6, <2>7, <2>8, MovesKeepTypes
<1>14. ASSUME NEW h \in Handlers, Fails(h)
      PROVE  TypeOK'
  <2>1. req' = [req EXCEPT ![h] = Idle]
    BY <1>14 DEF Fails, Leave
  <2> DEFINE e == Idle
  <2>3. e \in Requests
    BY IdleIsRequest DEF Requests, Places, Party
  <2>5. Works(e)'
    BY <1>14 DEF Fails, Works, Idle, tourVars, threadVars
  <2>6. RowsOK'
    BY <1>14 DEF Fails, RowsOK, Works, Requests, Party, Tours, Threads, Decisions, tourVars, threadVars
  <2>7. /\ \A y \in Tours : visitor[y] # Nobody => visitor'[y] # Nobody
        /\ \A y \in Threads : exists[y] => exists'[y]
    BY <1>14 DEF Fails, RowsOK, Works, Tours, Threads, tourVars, threadVars
  <2>8. faults' \in 0 .. MaxFaults
    BY <1>14 DEF Fails
  <2>9. QED
    BY <2>1, <2>3, <2>5, <2>6, <2>7, <2>8, MovesKeepTypes
<1>15. QED
  BY <1>1, <1>2, <1>3, <1>4, <1>5, <1>6, <1>7, <1>8, <1>9, <1>10, <1>11, <1>12,
     <1>13, <1>14 DEF Next, TourStep, ThreadStep, Party

(* Bookings, decisions, threads and messages keep their types.             *)
THEOREM TypeCorrect == Spec => []TypeOK
<1>1. Init => TypeOK
  BY IdleIsRequest, ContactAssumption DEF Init, TypeOK, RowsOK, Works, Party, Decisions, Idle
<1>2. TypeOK /\ [Next]_vars => TypeOK'
  BY TypeStep
<1>3. QED
  BY <1>1, <1>2, PTL DEF Spec

-----------------------------------------------------------------------------
(* On a subject that is not mixed one request is at work.                  *)
OneAtWork ==
  \A h, k \in Handlers :
    /\ Subject(req[h]) = Subject(req[k]) /\ Subject(req[h]) # NoSubject
    /\ Subject(req[h]) \notin mixed
    => h = k

(* A request that stays with its subject, or leaves it, joins nobody.      *)
LEMMA MovesAlone ==
  ASSUME OneAtWork, req \in [Handlers -> Requests], NEW h \in Handlers, NEW e,
         req' = [req EXCEPT ![h] = e], Subject(e) \in {NoSubject, Subject(req[h])},
         mixed \subseteq mixed'
  PROVE  OneAtWork'
<1> SUFFICES ASSUME NEW i \in Handlers, NEW k \in Handlers,
                    Subject(req'[i]) = Subject(req'[k]), Subject(req'[i]) # NoSubject,
                    Subject(req'[i]) \notin mixed'
             PROVE  i = k
  BY DEF OneAtWork
<1>1. ASSUME NEW j \in Handlers
      PROVE  Subject(req'[j]) = IF j = h THEN Subject(e) ELSE Subject(req[j])
  BY DEF Subject
<1>2. QED
  BY <1>1 DEF OneAtWork

(* A request that joins another one makes their subject mixed.             *)
LEMMA EntersAlone ==
  ASSUME OneAtWork, req \in [Handlers -> Requests], NEW h \in Handlers, NEW e, Enter(h, e)
  PROVE  OneAtWork'
<1> SUFFICES ASSUME NEW i \in Handlers, NEW k \in Handlers,
                    Subject(req'[i]) = Subject(req'[k]), Subject(req'[i]) # NoSubject,
                    Subject(req'[i]) \notin mixed'
             PROVE  i = k
  BY DEF OneAtWork
<1>1. ASSUME NEW j \in Handlers
      PROVE  Subject(req'[j]) = IF j = h THEN Subject(e) ELSE Subject(req[j])
  BY DEF Subject, Enter
<1>2. QED
  BY <1>1 DEF OneAtWork, Enter

(* A step keeps everybody alone on what is not mixed.                      *)
LEMMA OneAtWorkStep ==
  ASSUME TypeOK, OneAtWork, [Next]_vars PROVE OneAtWork'
<1> USE  DEF TypeOK
<1>1. CASE UNCHANGED vars
  BY <1>1 DEF vars, tourVars, threadVars, OneAtWork, Subject
<1>2. ASSUME NEW h \in Handlers, NEW u \in Users, BookRead(h, u)
      PROVE  OneAtWork'
  BY <1>2, EntersAlone DEF BookRead
<1>3. ASSUME NEW h \in Handlers, BookInsert(h)
      PROVE  OneAtWork'
  <2>1. Subject(Idle) = NoSubject
    BY DEF Subject, Idle
  <2>2. QED
    BY <1>3, <2>1, MovesAlone DEF BookInsert, Leave
<1>4. ASSUME NEW h \in Handlers, NEW u \in Users, NEW t \in Tours, NEW d \in
            Decisions, ManageRead(h, u, t, d)
      PROVE  OneAtWork'
  BY <1>4, EntersAlone DEF ManageRead
<1>5. ASSUME NEW h \in Handlers, Decide(h)
      PROVE  OneAtWork'
  <2>1. PICK e : e = [req[h] EXCEPT !.at = "told"]
    OBVIOUS
  <2>2. req' = [req EXCEPT ![h] = e] /\ mixed' = mixed
    BY <1>5, <2>1 DEF Decide, Go
  <2>3. e.at = "told" /\ e.tour = req[h].tour
    BY <2>1 DEF Requests
  <2>4. Subject(e) = Subject(req[h])
    BY <1>5, <2>3 DEF Subject, Decide
  <2>5. QED
    BY <2>2, <2>4, MovesAlone
<1>6. ASSUME NEW h \in Handlers, DecisionAnswered(h)
      PROVE  OneAtWork'
  <2>1. Subject(Idle) = NoSubject
    BY DEF Subject, Idle
  <2>2. QED
    BY <1>6, <2>1, MovesAlone DEF DecisionAnswered, Leave
<1>7. ASSUME NEW h \in Handlers, NEW u \in Users, NEW to \in Party,
            ThreadReuse(h, u, to)
      PROVE  OneAtWork'
  <2>1. PICK e : req' = [req EXCEPT ![h] = e] /\ e.at = "given" /\ mixed' = mixed
    BY <1>7 DEF ThreadReuse, Idle
  <2>2. Subject(e) = NoSubject
    BY <2>1 DEF Subject
  <2>3. QED
    BY <2>1, <2>2, MovesAlone
<1>8. ASSUME NEW h \in Handlers, NEW u \in Users, NEW p \in BOOLEAN, NEW to \in
            Party, ThreadMissing(h, u, p, to)
      PROVE  OneAtWork'
  <2>1. PICK r : Enter(h, [Idle EXCEPT !.at = "open", !.user = u, !.role = r, !.about = p, !.to = to])
    BY <1>8 DEF ThreadMissing
  <2>2. QED
    BY <2>1, EntersAlone
<1>9. ASSUME NEW h \in Handlers, ThreadInsert(h)
      PROVE  OneAtWork'
  <2>1. PICK e : req' = [req EXCEPT ![h] = e] /\ e.at = "given" /\ mixed' = mixed
    BY <1>9 DEF ThreadInsert, Idle
  <2>2. Subject(e) = NoSubject
    BY <2>1 DEF Subject
  <2>3. QED
    BY <2>1, <2>2, MovesAlone
<1>10. ASSUME NEW h \in Handlers, ThreadAnswered(h)
      PROVE  OneAtWork'
  <2>1. Subject(Idle) = NoSubject
    BY DEF Subject, Idle
  <2>2. QED
    BY <1>10, <2>1, MovesAlone DEF ThreadAnswered, Leave
<1>11. ASSUME NEW h \in Handlers, NEW u \in Users, NEW s \in Threads,
            SendRead(h, u, s)
      PROVE  OneAtWork'
  BY <1>11, EntersAlone DEF SendRead
<1>12. ASSUME NEW h \in Handlers, SendInsert(h)
      PROVE  OneAtWork'
  <2>1. PICK e : e = [req[h] EXCEPT !.at = "touch", !.stamp = tickets]
    OBVIOUS
  <2>2. req' = [req EXCEPT ![h] = e] /\ mixed' = mixed
    BY <1>12, <2>1 DEF SendInsert
  <2>3. e.at = "touch" /\ e.thread = req[h].thread
    BY <2>1 DEF Requests
  <2>4. Subject(e) = Subject(req[h])
    BY <1>12, <2>3 DEF Subject, SendInsert
  <2>5. QED
    BY <2>2, <2>4, MovesAlone
<1>13. ASSUME NEW h \in Handlers, SendTouch(h)
      PROVE  OneAtWork'
  <2>1. Subject(Idle) = NoSubject
    BY DEF Subject, Idle
  <2>2. QED
    BY <1>13, <2>1, MovesAlone DEF SendTouch, Leave
<1>14. ASSUME NEW h \in Handlers, Fails(h)
      PROVE  OneAtWork'
  <2>1. req' = [req EXCEPT ![h] = Idle] /\ mixed \subseteq mixed'
    BY <1>14 DEF Fails, Leave
  <2>2. Subject(Idle) = NoSubject
    BY DEF Subject, Idle
  <2>3. QED
    BY <2>1, <2>2, MovesAlone
<1>15. QED
  BY <1>1, <1>2, <1>3, <1>4, <1>5, <1>6, <1>7, <1>8, <1>9, <1>10, <1>11, <1>12,
     <1>13, <1>14 DEF Next, TourStep, ThreadStep, Party

-----------------------------------------------------------------------------
(* A tour that is not mixed has the status last told, or the decision its  *)
(* only request is about to tell; who decides is an owner.                 *)
ToldOf(t) == {h \in Handlers : req[h].at = "told" /\ req[h].tour = t}
ToursInOrder ==
  /\ \A t \in Tours : visitor[t] = Nobody => status[t] = "none" /\ told[t] = "none"
  /\ \A h \in Handlers :
       req[h].at \in {"decide", "told"} => req[h].user = Landlord /\ role[Landlord] = "owner"
  /\ \A t \in Tours : <<"tour", t>> \notin mixed =>
       /\ \A h \in ToldOf(t) : status[t] = req[h].decision
       /\ told[t] # "none" /\ ToldOf(t) = {} => status[t] = told[t]

(* A step keeps the tours in order.                                        *)
LEMMA ToursStep ==
  ASSUME TypeOK, OneAtWork, ToursInOrder, [Next]_vars PROVE ToursInOrder'
<1> USE ContactAssumption DEF TypeOK, RowsOK, ToursInOrder, ToldOf
<1>1. CASE UNCHANGED vars
  BY <1>1 DEF vars, tourVars, threadVars, ToursInOrder
<1>2. ASSUME NEW h \in Handlers, NEW u \in Users, BookRead(h, u)
      PROVE  ToursInOrder'
  BY <1>2 DEF BookRead, Enter, tourVars, threadVars, Idle
<1>3. ASSUME NEW h \in Handlers, BookInsert(h)
      PROVE  ToursInOrder'
  <2>1. PICK b \in Tours : /\ \A y \in Tours : visitor[y] = Nobody <=> y >= b
                          /\ visitor' = [visitor EXCEPT ![b] = req[h].user]
                          /\ status' = [status EXCEPT ![b] = "pending_approval"]
    BY <1>3 DEF BookInsert
  <2>2. /\ req' = [req EXCEPT ![h] = Idle] /\ role' = role /\ told' = told /\ mixed' = mixed
    BY <1>3 DEF BookInsert, Leave
  <2>3. b >= b /\ visitor[b] = Nobody /\ req[h].user # Nobody
    BY <1>3, <2>1 DEF BookInsert, Works, Tours
  <2>4. ToldOf(b) = {}
    BY <2>3 DEF Works
  <2>5. ASSUME NEW y \in Tours PROVE ToldOf(y)' = ToldOf(y)
    BY <1>3, <2>2 DEF BookInsert, Idle
  <2>6. ASSUME NEW k \in Handlers PROVE k # h => req'[k] = req[k]
    BY <2>2
  <2>7. req'[h].at = "idle"
    BY <2>2 DEF Idle
  <2>8. ASSUME NEW y \in Tours
        PROVE  visitor'[y] = Nobody => status'[y] = "none" /\ told'[y] = "none"
    BY <2>1, <2>2, <2>3
  <2>9. ASSUME NEW y \in Tours, <<"tour", y>> \notin mixed'
        PROVE  /\ \A k \in ToldOf(y)' : status'[y] = req'[k].decision
               /\ told'[y] # "none" /\ ToldOf(y)' = {} => status'[y] = told'[y]
    <3>1. CASE y = b
      BY <2>2, <2>3, <2>4, <2>5, <3>1
    <3>2. CASE y # b
      BY <2>1, <2>2, <2>5, <2>6, <2>7, <2>9, <3>2
    <3>3. QED
      BY <3>1, <3>2
  <2>10. QED
    BY <2>2, <2>6, <2>7, <2>8, <2>9
<1>4. ASSUME NEW h \in Handlers, NEW u \in Users, NEW t \in Tours, NEW d \in
            Decisions, ManageRead(h, u, t, d)
      PROVE  ToursInOrder'
  BY <1>4 DEF ManageRead, Enter, tourVars, threadVars, ContextRole, Idle
<1>5. ASSUME NEW h \in Handlers, Decide(h)
      PROVE  ToursInOrder'
  <2>1. PICK e : e = [req[h] EXCEPT !.at = "told"]
    OBVIOUS
  <2>2. /\ req' = [req EXCEPT ![h] = e]
        /\ status' = [status EXCEPT ![req[h].tour] = req[h].decision]
        /\ UNCHANGED <<role, visitor, told, mixed>>
    BY <1>5, <2>1 DEF Decide, Go
  <2>3. /\ e.at = "told" /\ e.tour = req[h].tour /\ e.decision = req[h].decision
        /\ e.user = req[h].user
    BY <2>1 DEF Requests
  <2>4. req[h].at = "decide" /\ req[h].tour \in Tours /\ visitor[req[h].tour] # Nobody
    BY <1>5 DEF Decide, Works
  <2>5. ASSUME NEW k \in ToldOf(req[h].tour), <<"tour", req[h].tour>> \notin mixed PROVE FALSE
    BY <2>4, <2>5 DEF OneAtWork, Subject, NoSubject
  <2>6. ASSUME NEW y \in Tours, <<"tour", y>> \notin mixed'
        PROVE  /\ \A k \in ToldOf(y)' : status'[y] = req'[k].decision
               /\ told'[y] # "none" /\ ToldOf(y)' = {} => status'[y] = told'[y]
    <3>1. CASE y = req[h].tour
      BY <2>2, <2>3, <2>4, <2>5, <2>6, <3>1
    <3>2. CASE y # req[h].tour
      <4>1. ToldOf(y)' = ToldOf(y)
        BY <2>2, <2>3, <2>4, <3>2
      <4>2. \A k \in ToldOf(y) : req'[k] = req[k]
        BY <2>2, <2>4
      <4>3. QED
        BY <2>2, <2>6, <3>2, <4>1, <4>2
    <3>3. QED
      BY <3>1, <3>2
  <2>7. QED
    BY <2>2, <2>3, <2>4, <2>6
<1>6. ASSUME NEW h \in Handlers, DecisionAnswered(h)
      PROVE  ToursInOrder'
  BY <1>6 DEF DecisionAnswered, Leave, tourVars, threadVars, Idle, Works
<1>7. ASSUME NEW h \in Handlers, NEW u \in Users, NEW to \in Party,
            ThreadReuse(h, u, to)
      PROVE  ToursInOrder'
  BY <1>7 DEF ThreadReuse, tourVars, threadVars, Idle
<1>8. ASSUME NEW h \in Handlers, NEW u \in Users, NEW p \in BOOLEAN, NEW to \in
            Party, ThreadMissing(h, u, p, to)
      PROVE  ToursInOrder'
  BY <1>8 DEF ThreadMissing, Enter, tourVars, threadVars, Idle
<1>9. ASSUME NEW h \in Handlers, ThreadInsert(h)
      PROVE  ToursInOrder'
  BY <1>9 DEF ThreadInsert, tourVars, threadVars, Idle
<1>10. ASSUME NEW h \in Handlers, ThreadAnswered(h)
      PROVE  ToursInOrder'
  BY <1>10 DEF ThreadAnswered, Leave, tourVars, threadVars, Idle
<1>11. ASSUME NEW h \in Handlers, NEW u \in Users, NEW s \in Threads,
            SendRead(h, u, s)
      PROVE  ToursInOrder'
  BY <1>11 DEF SendRead, Enter, tourVars, threadVars, Idle
<1>12. ASSUME NEW h \in Handlers, SendInsert(h)
      PROVE  ToursInOrder'
  BY <1>12 DEF SendInsert, tourVars, threadVars
<1>13. ASSUME NEW h \in Handlers, SendTouch(h)
      PROVE  ToursInOrder'
  BY <1>13 DEF SendTouch, Leave, tourVars, threadVars, Idle
<1>14. ASSUME NEW h \in Handlers, Fails(h)
      PROVE  ToursInOrder'
  BY <1>14 DEF Fails, Leave, tourVars, threadVars, Idle, Subject, NoSubject
<1>15. QED
  BY <1>1, <1>2, <1>3, <1>4, <1>5, <1>6, <1>7, <1>8, <1>9, <1>10, <1>11, <1>12,
     <1>13, <1>14 DEF Next, TourStep, ThreadStep, Party

(* With nothing at work on a tour, and nothing on it that overlapped or    *)
(* failed, its status is what the landlord was last told                   *)
(* (manage_tour_request_worker).                                           *)
THEOREM DecisionsAreTold == Spec => []DecisionIsTold
<1> DEFINE Inv == TypeOK /\ OneAtWork /\ ToursInOrder
<1>1. Init => Inv
  BY IdleIsRequest, ContactAssumption DEF Init, TypeOK, RowsOK, Works, Party, Decisions,
     OneAtWork, Subject, NoSubject, ToursInOrder, ToldOf, Idle
<1>2. Inv /\ [Next]_vars => Inv'
  BY TypeStep, OneAtWorkStep, ToursStep
<1>3. Inv => DecisionIsTold
  BY DEF ToursInOrder, ToldOf, DecisionIsTold, Busy, Subject
<1>4. QED
  BY <1>1, <1>2, <1>3, PTL DEF Spec

(* A tour is only ever decided by the landlord of its property, and only   *)
(* while the profile says "owner": no failure to read it gives rights.     *)
THEOREM OwnersDecide == Spec => OwnerDecides
<1> DEFINE Inv == TypeOK /\ OneAtWork /\ ToursInOrder
           Decided == \A t \in Tours :
                        status'[t] # status[t] /\ status[t] # "none"
                        => /\ role[Landlord] = "owner"
                           /\ \E h \in Handlers : /\ req[h].user = Landlord /\ req[h].tour = t
                                                  /\ req[h].decision = status'[t]
<1>1. Init => Inv
  BY IdleIsRequest, ContactAssumption DEF Init, TypeOK, RowsOK, Works, Party, Decisions,
     OneAtWork, Subject, NoSubject, ToursInOrder, ToldOf, Idle
<1>2. Inv /\ [Next]_vars => Inv'
  BY TypeStep, OneAtWorkStep, ToursStep
<1>3. Inv /\ [Next]_vars => [Decided]_vars
  <2> SUFFICES ASSUME Inv, Next PROVE Decided \/ UNCHANGED status
    BY DEF vars, tourVars
  <2>1. ASSUME NEW h \in Handlers, BookInsert(h) PROVE Decided
    BY <2>1 DEF BookInsert, TypeOK, RowsOK, ToursInOrder, Tours
  <2>2. ASSUME NEW h \in Handlers, Decide(h) PROVE Decided
    BY <2>2 DEF Decide, TypeOK, RowsOK, ToursInOrder
  <2>3. QED
    BY <2>1, <2>2 DEF Next, TourStep, ThreadStep, BookRead, ManageRead, DecisionAnswered,
       ThreadReuse, ThreadMissing, ThreadInsert, ThreadAnswered, SendRead, SendInsert, SendTouch,
       Fails, tourVars
<1>4. QED
  BY <1>1, <1>2, <1>3, PTL DEF Spec, OwnerDecides

-----------------------------------------------------------------------------
(* Nobody has drawn a later ticket than the counter, and a thread that is  *)
(* not mixed is touched with a stamp as new as its newest message.         *)
Touching(t) == {h \in Handlers : req[h].at = "touch" /\ req[h].thread = t}
ThreadsInOrder ==
  /\ \A h \in Handlers : req[h].ticket <= tickets
  /\ \A m \in messages : exists[m.thread] /\ m.ticket <= tickets
  /\ \A m \in messages : <<"thread", m.thread>> \notin mixed =>
       /\ \A h \in Touching(m.thread) : req[h].stamp >= m.ticket
       /\ Touching(m.thread) = {} => last[m.thread] >= m.ticket

(* A step keeps the messages of a thread in order.                         *)
LEMMA ThreadsStep ==
  ASSUME TypeOK, OneAtWork, ThreadsInOrder, [Next]_vars PROVE ThreadsInOrder'
<1> USE ContactAssumption DEF TypeOK, RowsOK, Tickets, ThreadsInOrder, Touching
<1>1. CASE UNCHANGED vars
  BY <1>1 DEF vars, tourVars, threadVars, ThreadsInOrder
<1>2. ASSUME NEW h \in Handlers, NEW u \in Users, BookRead(h, u)
      PROVE  ThreadsInOrder'
  BY <1>2 DEF BookRead, Enter, tourVars, threadVars, Idle
<1>3. ASSUME NEW h \in Handlers, BookInsert(h)
      PROVE  ThreadsInOrder'
  BY <1>3 DEF BookInsert, Leave, tourVars, threadVars, Idle
<1>4. ASSUME NEW h \in Handlers, NEW u \in Users, NEW t \in Tours, NEW d \in
            Decisions, ManageRead(h, u, t, d)
      PROVE  ThreadsInOrder'
  BY <1>4 DEF ManageRead, Enter, tourVars, threadVars, Idle
<1>5. ASSUME NEW h \in Handlers, Decide(h)
      PROVE  ThreadsInOrder'
  BY <1>5 DEF Decide, Go, tourVars, threadVars
<1>6. ASSUME NEW h \in Handlers, DecisionAnswered(h)
      PROVE  ThreadsInOrder'
  BY <1>6 DEF DecisionAnswered, Leave, tourVars, threadVars, Idle
<1>7. ASSUME NEW h \in Handlers, NEW u \in Users, NEW to \in Party,
            ThreadReuse(h, u, to)
      PROVE  ThreadsInOrder'
  BY <1>7 DEF ThreadReuse, tourVars, threadVars, Idle
<1>8. ASSUME NEW h \in Handlers, NEW u \in Users, NEW p \in BOOLEAN, NEW to \in
            Party, ThreadMissing(h, u, p, to)
      PROVE  ThreadsInOrder'
  BY <1>8 DEF ThreadMissing, Enter, tourVars, threadVars, Idle
<1>9. ASSUME NEW h \in Handlers, ThreadInsert(h)
      PROVE  ThreadsInOrder'
  <2> DEFINE given(b) == [Idle EXCEPT !.at = "given", !.user = req[h].user, !.to = req[h].to, !.thread = b]
  <2>a. PICK b \in Threads :
          /\ \A y \in Threads : exists[y] <=> y < b
          /\ exists' = [exists EXCEPT ![b] = TRUE] /\ last' = [last EXCEPT ![b] = tickets]
          /\ req' = [req EXCEPT ![h] = given(b)]
    BY <1>9 DEF ThreadInsert
  <2>b. given(b).at = "given" /\ given(b).ticket = 0
    BY DEF Idle
  <2>1. PICK e :
          /\ \A y \in Threads : exists[y] <=> y < b
          /\ exists' = [exists EXCEPT ![b] = TRUE] /\ last' = [last EXCEPT ![b] = tickets]
          /\ req' = [req EXCEPT ![h] = e] /\ e.at = "given" /\ e.ticket = 0
    <3> HIDE DEF given
    <3> QED
      BY <2>a, <2>b
  <2>2. UNCHANGED <<messages, tickets, mixed>>
    BY <1>9 DEF ThreadInsert
  <2>3. ~ exists[b] /\ \A m \in messages : m.thread \in Threads /\ m.thread # b
    BY <2>1 DEF Threads
  <2>4. req[h].at = "open"
    BY <1>9 DEF ThreadInsert
  <2>5. \A k \in Handlers : /\ k # h => req'[k] = req[k]
                            /\ req'[h].at = "given" /\ req'[h].ticket = 0
    BY <2>1
  <2>6. \A y \in Threads : Touching(y)' = Touching(y)
    BY <2>4, <2>5
  <2>7. \A k \in Handlers : req'[k].ticket <= tickets'
    BY <2>2, <2>5
  <2>8. QED
    BY <2>1, <2>2, <2>3, <2>4, <2>5, <2>6, <2>7
<1>10. ASSUME NEW h \in Handlers, ThreadAnswered(h)
      PROVE  ThreadsInOrder'
  BY <1>10 DEF ThreadAnswered, Leave, tourVars, threadVars, Idle
<1>11. ASSUME NEW h \in Handlers, NEW u \in Users, NEW s \in Threads,
            SendRead(h, u, s)
      PROVE  ThreadsInOrder'
  <2>1. PICK e : e = [Idle EXCEPT !.at = "message", !.user = u, !.thread = s, !.ticket = tickets + 1]
    OBVIOUS
  <2>2. /\ req' = [req EXCEPT ![h] = e] /\ req[h].at = "idle" /\ mixed \subseteq mixed'
        /\ tickets' = tickets + 1 /\ UNCHANGED <<exists, messages, last>>
    BY <1>11, <2>1 DEF SendRead, Enter
  <2>3. e.at = "message" /\ e.ticket = tickets + 1
    BY <2>1 DEF Idle
  <2>4. \A k \in Handlers : k # h => req'[k] = req[k]
    BY <2>2
  <2>5. req'[h] = e
    BY <2>2
  <2>6. \A y \in Threads : Touching(y)' = Touching(y)
    BY <2>2, <2>3, <2>4, <2>5
  <2>7. \A k \in Handlers : req[k].ticket \in Nat
    BY DEF Requests
  <2>8. \A k \in Handlers : req'[k].ticket <= tickets'
    BY <2>2, <2>3, <2>4, <2>5, <2>7
  <2>9. ASSUME NEW m \in messages, <<"thread", m.thread>> \notin mixed'
        PROVE  /\ \A k \in Touching(m.thread)' : req'[k].stamp >= m.ticket
               /\ Touching(m.thread)' = {} => last'[m.thread] >= m.ticket
    BY <2>2, <2>3, <2>4, <2>5, <2>6, <2>9
  <2>10. \A m \in messages : exists'[m.thread] /\ m.ticket <= tickets'
    BY <2>2
  <2>11. QED
    BY <2>2, <2>8, <2>9, <2>10
<1>12. ASSUME NEW h \in Handlers, SendInsert(h)
      PROVE  ThreadsInOrder'
  <2> DEFINE t == req[h].thread
             new == [thread |-> t, sender |-> req[h].user, ticket |-> req[h].ticket]
  <2>1. PICK e : e = [req[h] EXCEPT !.at = "touch", !.stamp = tickets]
    OBVIOUS
  <2>2. /\ req' = [req EXCEPT ![h] = e] /\ messages' = messages \union {new}
        /\ UNCHANGED <<exists, last, tickets, mixed>>
    BY <1>12, <2>1 DEF SendInsert
  <2>3. /\ e.at = "touch" /\ e.thread = t /\ e.ticket = req[h].ticket /\ e.stamp = tickets
    BY <2>1 DEF Requests
  <2>4. req[h].at = "message" /\ t \in Threads /\ exists[t] /\ req[h].ticket \in Tickets
    BY <1>12 DEF SendInsert, Works
  <2>5. req'[h] = e /\ \A k \in Handlers : k # h => req'[k] = req[k]
    BY <2>2
  <2>6. <<"thread", t>> \notin mixed => Touching(t) = {}
    <3>1. ASSUME NEW k \in Touching(t), <<"thread", t>> \notin mixed PROVE FALSE
      BY <2>4, <3>1 DEF OneAtWork, Subject, NoSubject
    <3>2. QED
      BY <3>1
  <2>7. /\ Touching(t)' = Touching(t) \union {h}
        /\ \A y \in Threads \ {t} : Touching(y)' = Touching(y)
    BY <2>3, <2>4, <2>5
  <2>8. \A m \in messages : m.ticket <= tickets
    OBVIOUS
  <2>9. ASSUME NEW m \in messages', <<"thread", m.thread>> \notin mixed'
        PROVE  /\ \A k \in Touching(m.thread)' : req'[k].stamp >= m.ticket
               /\ Touching(m.thread)' = {} => last'[m.thread] >= m.ticket
    <3>1. CASE m.thread = t
      <4>1. Touching(t)' = {h}
        BY <2>2, <2>6, <2>7, <2>9, <3>1
      <4>2. m.ticket <= tickets
        BY <2>2, <2>8
      <4>3. tickets \in Nat /\ m.ticket \in Nat
        BY <2>2, <2>4
      <4>4. QED
        BY <2>3, <2>5, <3>1, <4>1, <4>2, <4>3
    <3>2. CASE m.thread # t
      <4>1. m \in messages
        BY <2>2, <3>2
      <4>2. Touching(m.thread)' = Touching(m.thread)
        BY <2>7, <3>2, <4>1
      <4>3. QED
        BY <2>2, <2>4, <2>5, <2>9, <4>1, <4>2
    <3>3. QED
      BY <3>1, <3>2
  <2>10. \A m \in messages' : exists'[m.thread] /\ m.ticket <= tickets'
    BY <2>2, <2>4
  <2>11. \A k \in Handlers : req'[k].ticket <= tickets'
    BY <2>2, <2>3, <2>5
  <2>12. QED
    BY <2>9, <2>10, <2>11
<1>13. ASSUME NEW h \in Handlers, SendTouch(h)
      PROVE  ThreadsInOrder'
  <2>t. PICK t \in Threads : t = req[h].thread
    BY <1>13 DEF SendTouch, Works
  <2>1. /\ req' = [req EXCEPT ![h] = Idle] /\ last' = [last EXCEPT ![t] = req[h].stamp]
        /\ UNCHANGED <<exists, messages, tickets, mixed>>
    BY <1>13, <2>t DEF SendTouch, Leave
  <2>2. req[h].at = "touch" /\ req[h].thread = t
    BY <1>13, <2>t DEF SendTouch, Works
  <2>3. /\ req'[h].at = "idle" /\ req'[h].ticket = 0
        /\ \A k \in Handlers : k # h => req'[k] = req[k]
    BY <2>1 DEF Idle
  <2>a. \A y \in Threads, k \in Handlers :
          k \in Touching(y)' <=> k # h /\ k \in Touching(y)
    BY <2>2, <2>3
  <2>4. /\ h \in Touching(t)
        /\ \A y \in Threads \ {t} : h \notin Touching(y)
    BY <2>2
  <2>5. <<"thread", t>> \notin mixed => Touching(t) = {h}
    <3>1. ASSUME NEW k \in Touching(t), <<"thread", t>> \notin mixed PROVE k = h
      BY <2>2, <3>1 DEF OneAtWork, Subject, NoSubject
    <3>2. QED
      BY <2>4, <3>1
  <2>6. ASSUME NEW m \in messages, <<"thread", m.thread>> \notin mixed
        PROVE  /\ \A k \in Touching(m.thread)' : req'[k].stamp >= m.ticket
               /\ Touching(m.thread)' = {} => last'[m.thread] >= m.ticket
    <3>1. CASE m.thread = t
      <4>1. (\A k \in Handlers : k \notin Touching(t)') /\ req[h].stamp >= m.ticket
        BY <2>2, <2>a, <2>4, <2>5, <2>6, <3>1
      <4>2. last'[t] = req[h].stamp
        BY <2>1, <2>2
      <4>3. \A k \in Touching(m.thread)' : FALSE
        BY <2>2, <3>1, <4>1
      <4>4. QED
        BY <3>1, <4>1, <4>2, <4>3
    <3>2. CASE m.thread # t
      <4>1. Touching(m.thread)' = Touching(m.thread) /\ h \notin Touching(m.thread)
        BY <2>2, <2>3, <3>2
      <4>2. last'[m.thread] = last[m.thread]
        BY <2>1, <3>2
      <4>3. QED
        BY <2>1, <2>3, <2>6, <4>1, <4>2
    <3>3. QED
      BY <3>1, <3>2
  <2>7. \A k \in Handlers : req'[k].ticket <= tickets'
    BY <2>1, <2>3
  <2>8. QED
    BY <2>1, <2>6, <2>7
<1>14. ASSUME NEW h \in Handlers, Fails(h)
      PROVE  ThreadsInOrder'
  BY <1>14 DEF Fails, Leave, tourVars, threadVars, Idle, Subject, NoSubject
<1>15. QED
  BY <1>1, <1>2, <1>3, <1>4, <1>5, <1>6, <1>7, <1>8, <1>9, <1>10, <1>11, <1>12,
     <1>13, <1>14 DEF Next, TourStep, ThreadStep, Party

-----------------------------------------------------------------------------
(* Who is about to open a thread about the property with somebody has none,*)
(* as long as nobody else opens one at the same time.                      *)
OpensInOrder ==
  <<"open", 0>> \notin mixed =>
    /\ \A h \in Handlers : req[h].at = "open" /\ req[h].about /\ req[h].to # Nobody
                           => Found(req[h].user) = {}
    /\ OneThreadPerPair

(* Whatever opens nothing and leaves the threads alone keeps the order.    *)
LEMMA OpensKept ==
  ASSUME OpensInOrder, req \in [Handlers -> Requests], NEW h \in Handlers, NEW e,
         req' = [req EXCEPT ![h] = e], e.at # "open", mixed \subseteq mixed',
         UNCHANGED <<exists, about, renter, owner>>
  PROVE  OpensInOrder'
<1>1. \A k \in Handlers : req'[k] = IF k = h THEN e ELSE req[k]
  OBVIOUS
<1>2. QED
  BY <1>1 DEF OpensInOrder, OneThreadPerPair, Found, Parties

(* A step keeps one thread per pair.                                       *)
LEMMA OpensStep ==
  ASSUME TypeOK, OneAtWork, OpensInOrder, [Next]_vars PROVE OpensInOrder'
<1> USE ContactAssumption DEF TypeOK, RowsOK, OpensInOrder, OneThreadPerPair,
            Found, Parties
<1>1. CASE UNCHANGED vars
  BY <1>1 DEF vars, tourVars, threadVars, OpensInOrder
<1>2. ASSUME NEW h \in Handlers, NEW u \in Users, BookRead(h, u)
      PROVE  OpensInOrder'
  BY <1>2 DEF BookRead, Enter, tourVars, threadVars, Idle, Subject, NoSubject
<1>3. ASSUME NEW h \in Handlers, BookInsert(h)
      PROVE  OpensInOrder'
  BY <1>3, ZenonT(60) DEF BookInsert, Leave, tourVars, threadVars, Idle
<1>4. ASSUME NEW h \in Handlers, NEW u \in Users, NEW t \in Tours, NEW d \in
            Decisions, ManageRead(h, u, t, d)
      PROVE  OpensInOrder'
  BY <1>4, ZenonT(60) DEF ManageRead, Enter, tourVars, threadVars, Idle, Subject, NoSubject
<1>5. ASSUME NEW h \in Handlers, Decide(h)
      PROVE  OpensInOrder'
  <2>1. PICK e : e = [req[h] EXCEPT !.at = "told"]
    OBVIOUS
  <2>2. e.at # "open"
    BY <2>1 DEF Requests
  <2>3. QED
    BY <1>5, <2>1, <2>2, OpensKept DEF Decide, Go, threadVars
<1>6. ASSUME NEW h \in Handlers, DecisionAnswered(h)
      PROVE  OpensInOrder'
  BY <1>6 DEF DecisionAnswered, Leave, tourVars, threadVars, Idle
<1>7. ASSUME NEW h \in Handlers, NEW u \in Users, NEW to \in Party,
            ThreadReuse(h, u, to)
      PROVE  OpensInOrder'
  <2>0. PICK x, e : /\ e = [Idle EXCEPT !.at = "given", !.user = u, !.to = to, !.thread = x]
                                 /\ req' = [req EXCEPT ![h] = e]
    BY <1>7 DEF ThreadReuse
  <2>1. req' = [req EXCEPT ![h] = e] /\ e.at = "given"
    BY <2>0 DEF Idle
  <2>2. QED
    BY <1>7, <2>1, OpensKept DEF ThreadReuse, threadVars
<1>8. ASSUME NEW h \in Handlers, NEW u \in Users, NEW p \in BOOLEAN, NEW to \in
            Party, ThreadMissing(h, u, p, to)
      PROVE  OpensInOrder'
  <2>0. PICK r, e : /\ e = [Idle EXCEPT !.at = "open", !.user = u, !.role = r, !.about = p, !.to = to]
                    /\ req' = [req EXCEPT ![h] = e]
    BY <1>8 DEF ThreadMissing, Enter
  <2>1. /\ req' = [req EXCEPT ![h] = e]
        /\ e.at = "open" /\ e.about = p /\ e.to = to /\ e.user = u
    BY <2>0 DEF Idle
  <2>2. /\ UNCHANGED <<exists, about, renter, owner>> /\ mixed \subseteq mixed'
        /\ p /\ to # Nobody => Found(u) = {}
    BY <1>8 DEF ThreadMissing, Enter, threadVars
  <2>3. \A k \in Handlers : req'[k] = IF k = h THEN e ELSE req[k]
    BY <2>1
  <2>4. \A w \in Users : Found(w)' = Found(w)
    BY <2>2
  <2>5. OneThreadPerPair' <=> (<<"open", 0>> \notin mixed' =>
          \A y, z \in Threads :
            /\ exists[y] /\ about[y] /\ exists[z] /\ about[z]
            /\ Parties(y) = Parties(z) /\ Nobody \notin Parties(y)
            => y = z)
    BY <2>2
  <2>6. QED
    BY <2>1, <2>2, <2>3, <2>5, ZenonT(60)
<1>9. ASSUME NEW h \in Handlers, ThreadInsert(h)
      PROVE  OpensInOrder'
  <2>1. PICK b, e :
          /\ b \in Threads
          /\ \A y \in Threads : exists[y] <=> y < b
          /\ exists' = [exists EXCEPT ![b] = TRUE] /\ about' = [about EXCEPT ![b] = req[h].about]
          /\ \/ /\ owner' = [owner EXCEPT ![b] = req[h].user]
                /\ renter' = [renter EXCEPT ![b] = req[h].to]
             \/ /\ owner' = [owner EXCEPT ![b] = req[h].to]
                /\ renter' = [renter EXCEPT ![b] = req[h].user]
          /\ req' = [req EXCEPT ![h] = e] /\ e.at = "given"
    <3> DEFINE given(y) == [Idle EXCEPT !.at = "given", !.user = req[h].user, !.to = req[h].to, !.thread = y]
    <3>1. \A y : given(y).at = "given"
      BY DEF Idle
    <3>2. \E y \in Threads :
            /\ \A z \in Threads : exists[z] <=> z < y
            /\ exists' = [exists EXCEPT ![y] = TRUE] /\ about' = [about EXCEPT ![y] = req[h].about]
            /\ \/ /\ owner' = [owner EXCEPT ![y] = req[h].user]
                  /\ renter' = [renter EXCEPT ![y] = req[h].to]
               \/ /\ owner' = [owner EXCEPT ![y] = req[h].to]
                  /\ renter' = [renter EXCEPT ![y] = req[h].user]
            /\ req' = [req EXCEPT ![h] = given(y)]
      <4>1. CASE req[h].role = "landlord"
        BY <1>9, <4>1 DEF ThreadInsert
      <4>2. CASE req[h].role # "landlord"
        BY <1>9, <4>2 DEF ThreadInsert
      <4>3. QED
        BY <4>1, <4>2
    <3> HIDE DEF given
    <3>3. QED
      BY <3>1, <3>2
  <2>2. mixed' = mixed /\ req[h].at = "open"
    BY <1>9 DEF ThreadInsert
  <2> SUFFICES ASSUME <<"open", 0>> \notin mixed
               PROVE  OpensInOrder'
    BY <2>2
  <2>3. ASSUME NEW k \in Handlers, req'[k].at = "open" PROVE FALSE
    BY <2>1, <2>2, <2>3 DEF OneAtWork, Subject, NoSubject
  <2>4. ~ exists[b] /\ Parties(b)' = {req[h].user, req[h].to}
    BY <2>1 DEF Threads
  <2>5. \A y \in Threads \ {b} : /\ exists'[y] = exists[y] /\ about'[y] = about[y]
                                  /\ Parties(y)' = Parties(y)
    BY <2>1
  <2>6. ASSUME NEW y \in Threads \ {b}, exists[y], about[y], about'[b],
               Parties(y) = Parties(b)', Nobody \notin Parties(y)
        PROVE  FALSE
    <3>1. req[h].about /\ req[h].to # Nobody /\ req[h].user \in Parties(y)
      BY <2>1, <2>4, <2>6, ZenonT(60)
    <3>2. y \in Found(req[h].user)
      BY <2>6, <3>1
    <3>3. QED
      BY <2>2, <3>1, <3>2
  <2>7. OneThreadPerPair'
    <3> SUFFICES ASSUME NEW y \in Threads, NEW z \in Threads,
                        exists'[y], about'[y], exists'[z], about'[z],
                        Parties(y)' = Parties(z)', Nobody \notin Parties(y)'
                 PROVE  y = z
      OBVIOUS
    <3>1. CASE y # b /\ z # b
      BY <2>2, <2>5, <3>1
    <3>2. CASE y = b /\ z # b
      BY <2>5, <2>6, <3>2
    <3>3. CASE y # b /\ z = b
      BY <2>5, <2>6, <3>3
    <3>4. QED
      BY <3>1, <3>2, <3>3
  <2>8. QED
    BY <2>3, <2>7
<1>10. ASSUME NEW h \in Handlers, ThreadAnswered(h)
      PROVE  OpensInOrder'
  BY <1>10 DEF ThreadAnswered, Leave, tourVars, threadVars, Idle
<1>11. ASSUME NEW h \in Handlers, NEW u \in Users, NEW s \in Threads,
            SendRead(h, u, s)
      PROVE  OpensInOrder'
  BY <1>11, ZenonT(60) DEF SendRead, Enter, tourVars, threadVars, Idle, Subject, NoSubject
<1>12. ASSUME NEW h \in Handlers, SendInsert(h)
      PROVE  OpensInOrder'
  <2>1. PICK e : e = [req[h] EXCEPT !.at = "touch", !.stamp = tickets]
    OBVIOUS
  <2>2. e.at # "open"
    BY <2>1 DEF Requests
  <2>3. QED
    BY <1>12, <2>1, <2>2, OpensKept DEF SendInsert
<1>13. ASSUME NEW h \in Handlers, SendTouch(h)
      PROVE  OpensInOrder'
  BY <1>13 DEF SendTouch, Leave, tourVars, threadVars, Idle
<1>14. ASSUME NEW h \in Handlers, Fails(h)
      PROVE  OpensInOrder'
  BY <1>14 DEF Fails, Leave, tourVars, threadVars, Idle
<1> HIDE DEF OpensInOrder, OneThreadPerPair, TypeOK, RowsOK, Found
<1>15. QED
  BY <1>1, <1>2, <1>3, <1>4, <1>5, <1>6, <1>7, <1>8, <1>9, <1>10, <1>11, <1>12,
     <1>13, <1>14 DEF Next, TourStep, ThreadStep, Party

(* A thread is listed by its newest message: unless sends overlapped or    *)
(* failed, last_message_at is not older than any message it answered for   *)
(* (send_message_worker).                                                  *)
THEOREM ThreadsAreListedByNewest == Spec => []ListedByNewest
<1> DEFINE Inv == TypeOK /\ OneAtWork /\ ThreadsInOrder
<1>1. Init => Inv
  BY IdleIsRequest, ContactAssumption DEF Init, TypeOK, RowsOK, Works, Party, Decisions,
     OneAtWork, Subject, NoSubject, ThreadsInOrder, Touching, Idle
<1>2. Inv /\ [Next]_vars => Inv'
  BY TypeStep, OneAtWorkStep, ThreadsStep
<1>3. Inv => ListedByNewest
  BY DEF ThreadsInOrder, Touching, ListedByNewest, Busy, Subject
<1>4. QED
  BY <1>1, <1>2, <1>3, PTL DEF Spec

(* Two people have one thread about the property, unless requests to open  *)
(* one overlapped or failed (create_chat_thread_worker).                   *)
THEOREM PairsHaveOneThread == Spec => []OneThreadPerPair
<1> DEFINE Inv == TypeOK /\ OneAtWork /\ OpensInOrder
<1>1. Init => Inv
  BY IdleIsRequest, ContactAssumption DEF Init, TypeOK, RowsOK, Works, Party, Decisions,
     OneAtWork, Subject, NoSubject, OpensInOrder, OneThreadPerPair, Idle
<1>2. Inv /\ [Next]_vars => Inv'
  BY TypeStep, OneAtWorkStep, OpensStep
<1>3. Inv => OneThreadPerPair
  BY DEF OpensInOrder, OneThreadPerPair
<1>4. QED
  BY <1>1, <1>2, <1>3, PTL DEF Spec
=============================================================================
