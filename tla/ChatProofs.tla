---------------------------- MODULE ChatProofs ----------------------------
(***************************************************************************)
(* The assistant's side of a thread, for every number of turns, messages   *)
(* and faults.  The shape of each step (what becomes of the turn that      *)
(* takes it) is proved once; each property then has an invariant of its    *)
(* own that follows the turn from place to place.                          *)
(***************************************************************************)
EXTENDS Chat, SequenceTheorems, TLAPS

Typed == turn \in [Turns -> TurnType]
Others(t) == \A s \in Turns \ {t} : turn'[s] = turn[s]

(* All that a turn holds, but for its place.                               *)
Keeps(t) ==
  /\ turn'[t].says = turn[t].says /\ turn'[t].call = turn[t].call
  /\ turn'[t].wrote = turn[t].wrote /\ turn'[t].cached = turn[t].cached
  /\ turn'[t].latest = turn[t].latest /\ turn'[t].seen = turn[t].seen
  /\ turn'[t].read = turn[t].read

LEMMA FreshTyped == Fresh \in TurnType
<1>1. NoCall \in Calls /\ NoText \in Says
  BY DEF NoCall, Calls, Tools, NoText, Says, Pages, NoPage
<1>2. NoRefs \in [Keys -> 0 .. MaxTurns]
  BY ChatAssumption DEF NoRefs, Nobody
<1>3. <<>> \in Seq(Turns \X BOOLEAN)
  OBVIOUS
<1>4. QED
  BY <1>1, <1>2, <1>3 DEF Fresh, TurnType, Places

(* A turn that only changes its place.                                     *)
LEMMA GoShape ==
  ASSUME Typed, NEW t \in Turns, NEW place \in Places, Go(t, place)
  PROVE  Typed' /\ Others(t) /\ turn'[t].at = place /\ Keeps(t)
<1>1. PICK r : r = turn[t]
  OBVIOUS
<1>a. r \in TurnType
  BY <1>1 DEF Typed
<1>b. PICK e : e = [r EXCEPT !.at = place]
  OBVIOUS
<1>2. e \in TurnType
  BY <1>a, <1>b DEF TurnType
<1>3. turn' = [turn EXCEPT ![t] = e]
  BY <1>1, <1>b DEF Go
<1>4. /\ e.at = place /\ e.says = turn[t].says /\ e.call = turn[t].call
      /\ e.wrote = turn[t].wrote /\ e.cached = turn[t].cached
      /\ e.latest = turn[t].latest /\ e.seen = turn[t].seen /\ e.read = turn[t].read
  BY <1>1, <1>a, <1>b DEF TurnType
<1>5. QED
  BY <1>2, <1>3, <1>4 DEF Typed, Others, Keeps

(* A turn that has run its call, or does without one.                      *)
Concludes(t, news, wrote) ==
  /\ turn'[t].at = IF news = {} THEN "reply" ELSE "save"
  /\ turn'[t].wrote = wrote
  /\ wrote => turn'[t].says = turn[t].says /\ turn'[t].call = turn[t].call
  /\ news # {} => turn'[t].cached = turn[t].cached

LEMMA TraceShape ==
  ASSUME NEW r \in TurnType
  PROVE  /\ Trace(r) \in TurnType /\ Trace(r).wrote = r.wrote
         /\ r.wrote => Trace(r).says = r.says /\ Trace(r).call = r.call
<1>1. CASE r.wrote
  <2>1. PICK e : e = [Fresh EXCEPT !.says = r.says, !.call = r.call, !.wrote = TRUE]
    OBVIOUS
  <2>2. e \in TurnType
    BY <2>1, FreshTyped DEF TurnType
  <2>3. e.says = r.says /\ e.call = r.call /\ e.wrote = TRUE
    BY <2>1, FreshTyped DEF TurnType
  <2>4. r.wrote = TRUE
    BY <1>1 DEF TurnType
  <2>5. QED
    BY <1>1, <2>1, <2>2, <2>3, <2>4 DEF Trace
<1>2. CASE ~ r.wrote
  <2>1. Fresh.wrote = FALSE /\ r.wrote = FALSE
    BY <1>2 DEF Fresh, TurnType
  <2>2. QED
    BY <1>2, <2>1, FreshTyped DEF Trace
<1>3. QED
  BY <1>1, <1>2

LEMMA ConcludeShape ==
  ASSUME Typed, NEW t \in Turns, NEW news \in SUBSET Keys, NEW reply \in {"text", "signin"},
         NEW wrote \in BOOLEAN, Conclude(t, news, reply, wrote)
  PROVE  Typed' /\ Others(t) /\ Concludes(t, news, wrote)
<1>a. PICK q : q = turn[t]
  OBVIOUS
<1>b. q \in TurnType
  BY <1>a DEF Typed
<1>1. PICK r : r = [q EXCEPT !.wrote = wrote]
  OBVIOUS
<1>c. r \in TurnType
  BY <1>1, <1>b DEF TurnType
<1>2. r \in TurnType /\ r.wrote = wrote /\ r.says = turn[t].says /\ r.call = turn[t].call
  BY <1>a, <1>b, <1>1, <1>c DEF TurnType
<1>3. PICK b : b = Trace(r)
  OBVIOUS
<1>4. b \in TurnType /\ b.wrote = wrote /\ (wrote => b.says = turn[t].says /\ b.call = turn[t].call)
  BY <1>2, <1>3, TraceShape
<1>5. PICK at \in {"reply", "save"} : at = IF news = {} THEN "reply" ELSE "save"
  OBVIOUS
<1>6. PICK c : c = IF news = {} THEN NoRefs ELSE turn[t].cached
  OBVIOUS
<1>7. c \in [Keys -> 0 .. MaxTurns]
  BY <1>6, ChatAssumption DEF Typed, TurnType, NoRefs, Nobody
<1>8. PICK e : e = [b EXCEPT !.at = at, !.news = news, !.reply = reply, !.cached = c]
  OBVIOUS
<1>9. e \in TurnType
  BY <1>4, <1>7, <1>8, ZenonT(60) DEF TurnType, Places
<1>10. e.at = at /\ e.wrote = b.wrote /\ e.says = b.says /\ e.call = b.call /\ e.cached = c
  BY <1>4, <1>8 DEF TurnType
<1>11. turn' = [turn EXCEPT ![t] = e]
  BY <1>a, <1>1, <1>3, <1>5, <1>6, <1>8 DEF Conclude
<1>12. QED
  BY <1>4, <1>5, <1>6, <1>9, <1>10, <1>11 DEF Typed, Others, Concludes

(* The shapes of the other steps.                                          *)
LEMMA ArriveShape ==
  ASSUME Typed, NEW t \in Turns, NEW m \in Texts, NEW r0 \in Roles,
         transcript \in Seq(Turns \X BOOLEAN), Arrive(t, m, r0)
  PROVE  /\ Typed' /\ Others(t) /\ turn[t].at = "new"
         /\ turn'[t].at = "route" /\ turn'[t].says = m /\ turn'[t].latest = LastOf(transcript)
         /\ turn'[t].call = turn[t].call
         /\ turn'[t].wrote = turn[t].wrote
         /\ turn'[t].cached = turn[t].cached
<1>1. PICK r : r = turn[t]
  OBVIOUS
<1>2. r \in TurnType
  BY <1>1 DEF Typed
<1>a. LastOf(transcript) \in {<<>>} \union (Turns \X BOOLEAN) /\ m \in Says /\ r0 \in {"guest", "renter", "owner"}
  BY ChatAssumption DEF LastOf
<1>3. PICK e : e = [r EXCEPT !.at = "route", !.says = m, !.role = r0, !.latest = LastOf(transcript)]
  OBVIOUS
<1>4. e \in TurnType
  BY <1>2, <1>3, <1>a, ZenonT(60) DEF TurnType, Places
<1>5. /\ e.at = "route" /\ e.says = m /\ e.latest = LastOf(transcript)
      /\ e.call = r.call
      /\ e.wrote = r.wrote
      /\ e.cached = r.cached
  BY <1>2, <1>3, <1>a DEF TurnType
<1>6. turn' = [turn EXCEPT ![t] = e]
  BY <1>1, <1>3 DEF Arrive
<1>7. turn'[t] = e /\ Typed' /\ Others(t)
  BY <1>4, <1>6 DEF Typed, Others
<1>8. QED
  BY <1>1, <1>5, <1>7 DEF Arrive, At

LEMMA NewestTyped ==
  ASSUME NEW S, NEW s \in Seq(S), NEW n \in Nat
  PROVE  Newest(s, n) \in Seq(S)
<1>1. CASE Len(s) <= n
  BY <1>1 DEF Newest
<1>2. CASE Len(s) > n
  <2>1. Len(s) - n + 1 \in 1 .. Len(s) + 1 /\ Len(s) \in Nat
    BY <1>2
  <2>2. \A i \in (Len(s) - n + 1) .. Len(s) : s[i] \in S
    BY <2>1, ElementOfSeq
  <2>3. SubSeq(s, Len(s) - n + 1, Len(s)) \in Seq(S)
    BY <2>1, <2>2, SubSeqProperties
  <2>4. QED
    BY <1>2, <2>1, <2>3 DEF Newest
<1>3. QED
  BY <1>1, <1>2

(* What the model is shown by a turn that could read, or could not.        *)
Shown(t, read) ==
  Newest(Append(IF read THEN Newest(transcript, Limit) ELSE <<>>, Question(t)), Window)

LEMMA ShownTyped ==
  ASSUME transcript \in Seq(Turns \X BOOLEAN), NEW t \in Turns, NEW read \in BOOLEAN
  PROVE  Shown(t, read) \in Seq(Turns \X BOOLEAN)
<1>1. (IF read THEN Newest(transcript, Limit) ELSE <<>>) \in Seq(Turns \X BOOLEAN)
  BY NewestTyped, ChatAssumption
<1>2. Question(t) \in Turns \X BOOLEAN
  BY DEF Question
<1>3. QED
  BY <1>1, <1>2, NewestTyped, AppendProperties, ChatAssumption DEF Shown

Loads(t, read) == turn' = [turn EXCEPT ![t].at = "ask", ![t].read = read, ![t].seen = Shown(t, read)]

LEMMA HistoryLoadShape ==
  ASSUME Typed, NEW t \in Turns, transcript \in Seq(Turns \X BOOLEAN), NEW read \in BOOLEAN,
         Loads(t, read)
  PROVE  /\ Typed' /\ Others(t)
         /\ turn'[t].at = "ask" /\ turn'[t].read = read /\ turn'[t].seen = Shown(t, read)
         /\ turn'[t].says = turn[t].says
         /\ turn'[t].call = turn[t].call
         /\ turn'[t].wrote = turn[t].wrote
         /\ turn'[t].cached = turn[t].cached
         /\ turn'[t].latest = turn[t].latest
<1>1. PICK r : r = turn[t]
  OBVIOUS
<1>2. r \in TurnType
  BY <1>1 DEF Typed
<1>a. Shown(t, read) \in Seq(Turns \X BOOLEAN)
  BY ShownTyped
<1>3. PICK e : e = [r EXCEPT !.at = "ask", !.read = read, !.seen = Shown(t, read)]
  OBVIOUS
<1>4. e \in TurnType
  BY <1>2, <1>3, <1>a, ZenonT(60) DEF TurnType, Places
<1>5. /\ e.at = "ask" /\ e.read = read /\ e.seen = Shown(t, read)
      /\ e.says = r.says
      /\ e.call = r.call
      /\ e.wrote = r.wrote
      /\ e.cached = r.cached
      /\ e.latest = r.latest
  BY <1>2, <1>3, <1>a DEF TurnType
<1>6. turn' = [turn EXCEPT ![t] = e]
  BY <1>1, <1>3 DEF Loads
<1>7. turn'[t] = e /\ Typed' /\ Others(t)
  BY <1>4, <1>6 DEF Typed, Others
<1>8. QED
  BY <1>1, <1>5, <1>7

LEMMA RefsLoadShape ==
  ASSUME Typed, NEW t \in Turns, refs \in [Keys -> 0 .. MaxTurns], RefsLoad(t)
  PROVE  /\ Typed' /\ Others(t)
         /\ turn'[t].at = "agent" /\ turn'[t].cached = refs
         /\ turn'[t].says = turn[t].says
         /\ turn'[t].call = turn[t].call
         /\ turn'[t].wrote = turn[t].wrote
         /\ turn'[t].latest = turn[t].latest
         /\ turn'[t].seen = turn[t].seen
         /\ turn'[t].read = turn[t].read
<1>1. PICK r : r = turn[t]
  OBVIOUS
<1>2. r \in TurnType
  BY <1>1 DEF Typed
<1>3. PICK e : e = [r EXCEPT !.at = "agent", !.cached = refs]
  OBVIOUS
<1>4. e \in TurnType
  BY <1>2, <1>3 DEF TurnType, Places
<1>5. /\ e.at = "agent" /\ e.cached = refs
      /\ e.says = r.says
      /\ e.call = r.call
      /\ e.wrote = r.wrote
      /\ e.latest = r.latest
      /\ e.seen = r.seen
      /\ e.read = r.read
  BY <1>2, <1>3 DEF TurnType
<1>6. turn' = [turn EXCEPT ![t] = e]
  BY <1>1, <1>3 DEF RefsLoad
<1>7. turn'[t] = e /\ Typed' /\ Others(t)
  BY <1>4, <1>6 DEF Typed, Others
<1>8. QED
  BY <1>1, <1>5, <1>7

Takes(t, c) == turn' = [turn EXCEPT ![t].at = "tool", ![t].call = c, ![t].seen = <<>>, ![t].latest = <<>>, ![t].read = FALSE]

LEMMA ToolShape ==
  ASSUME Typed, NEW t \in Turns, NEW c \in Calls,
         Takes(t, c)
  PROVE  /\ Typed' /\ Others(t)
         /\ turn'[t].at = "tool" /\ turn'[t].call = c
         /\ turn'[t].says = turn[t].says
         /\ turn'[t].wrote = turn[t].wrote
         /\ turn'[t].cached = turn[t].cached
<1>1. PICK r : r = turn[t]
  OBVIOUS
<1>2. r \in TurnType
  BY <1>1 DEF Typed
<1>a. <<>> \in Seq(Turns \X BOOLEAN)
  OBVIOUS
<1>3. PICK e : e = [r EXCEPT !.at = "tool", !.call = c, !.seen = <<>>, !.latest = <<>>, !.read = FALSE]
  OBVIOUS
<1>4. e \in TurnType
  BY <1>2, <1>3, <1>a, ZenonT(60) DEF TurnType, Places
<1>5. /\ e.at = "tool" /\ e.call = c
      /\ e.says = r.says
      /\ e.wrote = r.wrote
      /\ e.cached = r.cached
  BY <1>2, <1>3, <1>a DEF TurnType
<1>6. turn' = [turn EXCEPT ![t] = e]
  BY <1>1, <1>3 DEF Takes
<1>7. turn'[t] = e /\ Typed' /\ Others(t)
  BY <1>4, <1>6 DEF Typed, Others
<1>8. QED
  BY <1>1, <1>5, <1>7

Awaits(t, wrote, news) == turn' = [turn EXCEPT ![t].at = "final", ![t].wrote = wrote, ![t].news = news]

LEMMA FinalShape ==
  ASSUME Typed, NEW t \in Turns, NEW wrote \in BOOLEAN, NEW news \in SUBSET Keys,
         Awaits(t, wrote, news)
  PROVE  /\ Typed' /\ Others(t)
         /\ turn'[t].at = "final" /\ turn'[t].wrote = wrote
         /\ turn'[t].says = turn[t].says
         /\ turn'[t].call = turn[t].call
         /\ turn'[t].cached = turn[t].cached
<1>1. PICK r : r = turn[t]
  OBVIOUS
<1>2. r \in TurnType
  BY <1>1 DEF Typed
<1>3. PICK e : e = [r EXCEPT !.at = "final", !.wrote = wrote, !.news = news]
  OBVIOUS
<1>4. e \in TurnType
  BY <1>2, <1>3, ZenonT(60) DEF TurnType, Places
<1>5. /\ e.at = "final" /\ e.wrote = wrote /\ e.news = news
      /\ e.says = r.says
      /\ e.call = r.call
      /\ e.cached = r.cached
  BY <1>2, <1>3 DEF TurnType
<1>6. turn' = [turn EXCEPT ![t] = e]
  BY <1>1, <1>3 DEF Awaits
<1>7. turn'[t] = e /\ Typed' /\ Others(t)
  BY <1>4, <1>6 DEF Typed, Others
<1>8. QED
  BY <1>1, <1>5, <1>7

LEMMA RefsSaveShape ==
  ASSUME Typed, NEW t \in Turns, RefsSave(t)
  PROVE  /\ Typed' /\ Others(t) /\ turn[t].at = "save" /\ turn'[t].at = "reply"
         /\ turn'[t].says = turn[t].says
         /\ turn'[t].call = turn[t].call
         /\ turn'[t].wrote = turn[t].wrote
<1>1. PICK r : r = turn[t]
  OBVIOUS
<1>2. r \in TurnType
  BY <1>1 DEF Typed
<1>a. NoRefs \in [Keys -> 0 .. MaxTurns]
  BY ChatAssumption DEF NoRefs, Nobody
<1>3. PICK e : e = [r EXCEPT !.at = "reply", !.news = {}, !.cached = NoRefs]
  OBVIOUS
<1>4. e \in TurnType
  BY <1>2, <1>3, <1>a DEF TurnType, Places
<1>5. /\ e.at = "reply"
      /\ e.says = r.says
      /\ e.call = r.call
      /\ e.wrote = r.wrote
  BY <1>2, <1>3, <1>a DEF TurnType
<1>6. turn' = [turn EXCEPT ![t] = e]
  BY <1>1, <1>3 DEF RefsSave
<1>7. turn'[t] = e /\ Typed' /\ Others(t)
  BY <1>4, <1>6 DEF Typed, Others
<1>8. QED
  BY <1>1, <1>5, <1>7 DEF RefsSave, At

LEMMA ReplySaveShape ==
  ASSUME Typed, NEW t \in Turns, ReplySave(t)
  PROVE  /\ Typed' /\ Others(t) /\ turn[t].at = "reply" /\ turn'[t].at = "done"
         /\ turn'[t].wrote = turn[t].wrote
         /\ turn[t].wrote => turn'[t].says = turn[t].says /\ turn'[t].call = turn[t].call
<1>1. PICK r : r = turn[t]
  OBVIOUS
<1>2. r \in TurnType
  BY <1>1 DEF Typed
<1>a. PICK answer \in Answers(t) : turn' = [turn EXCEPT ![t] = [Trace(@) EXCEPT !.at = "done", !.answer = answer]]
  BY DEF ReplySave
<1>b. answer \in {"none", "page", "login", "denied", "response"}
  BY <1>a DEF Answers, Gate
<1>c. PICK b : b = Trace(r)
  OBVIOUS
<1>d. b \in TurnType /\ b.wrote = r.wrote /\ (r.wrote => b.says = r.says /\ b.call = r.call)
  BY <1>2, <1>c, TraceShape
<1>3. PICK e : e = [b EXCEPT !.at = "done", !.answer = answer]
  OBVIOUS
<1>4. e \in TurnType
  BY <1>2, <1>3, <1>b, <1>d, ZenonT(60) DEF TurnType, Places
<1>5. /\ e.at = "done" /\ e.wrote = b.wrote /\ e.says = b.says /\ e.call = b.call
  BY <1>2, <1>3, <1>b, <1>d DEF TurnType
<1>6. turn' = [turn EXCEPT ![t] = e]
  BY <1>1, <1>3, <1>a, <1>c, <1>d DEF ReplySave
<1>7. turn'[t] = e /\ Typed' /\ Others(t)
  BY <1>4, <1>6 DEF Typed, Others
<1>8. QED
  BY <1>1, <1>5, <1>7, <1>a, <1>c, <1>d DEF ReplySave, At

(* How a turn ends that fails or is lost.                                  *)
Ends(t, how) ==
  /\ turn'[t].at = how /\ turn'[t].wrote = turn[t].wrote
  /\ turn[t].wrote => turn'[t].says = turn[t].says /\ turn'[t].call = turn[t].call

LEMMA EndedShape ==
  ASSUME NEW r \in TurnType, NEW how \in Places
  PROVE  /\ Ended(r, how) \in TurnType /\ Ended(r, how).at = how /\ Ended(r, how).wrote = r.wrote
         /\ r.wrote => Ended(r, how).says = r.says /\ Ended(r, how).call = r.call
<1>1. PICK b : b = Trace(r)
  OBVIOUS
<1>2. b \in TurnType /\ b.wrote = r.wrote /\ (r.wrote => b.says = r.says /\ b.call = r.call)
  BY <1>1, TraceShape
<1>3. PICK e : e = [b EXCEPT !.at = how]
  OBVIOUS
<1>4. e \in TurnType
  BY <1>2, <1>3 DEF TurnType
<1>5. e.at = how /\ e.wrote = b.wrote /\ e.says = b.says /\ e.call = b.call
  BY <1>2, <1>3 DEF TurnType
<1>6. QED
  BY <1>1, <1>2, <1>3, <1>4, <1>5 DEF Ended

LEMMA FailsShape ==
  ASSUME Typed, NEW t \in Turns, Fails(t)
  PROVE  Typed' /\ Others(t) /\ Ends(t, "failed") /\ turn[t].at \in Raising
<1>1. turn' = [turn EXCEPT ![t] = Ended(turn[t], "failed")]
  BY DEF Fails
<1>2. turn[t] \in TurnType /\ "failed" \in Places
  BY DEF Typed, Places
<1>3. QED
  BY <1>1, <1>2, EndedShape DEF Typed, Others, Ends, Fails

LEMMA RestartShape ==
  ASSUME Typed, Restart
  PROVE  /\ Typed'
         /\ \A t \in Turns : IF t \in Busy THEN Ends(t, "lost") ELSE turn'[t] = turn[t]
<1>1. turn' = [t \in Turns |-> IF t \in Busy THEN Ended(turn[t], "lost") ELSE turn[t]]
  BY DEF Restart
<1>2. \A t \in Turns : turn[t] \in TurnType /\ "lost" \in Places
  BY DEF Typed, Places
<1>3. ASSUME NEW t \in Turns
      PROVE  /\ turn'[t] \in TurnType
             /\ IF t \in Busy THEN Ends(t, "lost") ELSE turn'[t] = turn[t]
  BY <1>1, <1>2, EndedShape DEF Ends
<1>4. QED
  BY <1>1, <1>3 DEF Typed

-----------------------------------------------------------------------------
(* What each action does to the turn that takes it.                        *)

(* A turn without a call, or whose call was refused, has written nothing.  *)
Quiet(t) == turn'[t].wrote = FALSE
Carries(t) == turn'[t].at = "save" => turn'[t].cached = turn[t].cached
Tells(t) == turn[t].wrote => turn'[t].says = turn[t].says /\ turn'[t].call = turn[t].call

LEMMA FindPrototypesActs ==
  ASSUME TypeOK, NEW t \in Turns, FindPrototypes(t)
  PROVE  /\ Typed' /\ Others(t) /\ turn[t].at = "route"
         /\ turn'[t].at \in {"embed", "wait"}
         /\ Keeps(t)
<1>1. PICK place \in Places : Go(t, place) /\ (place \in {"embed", "wait"})
  BY DEF FindPrototypes, At, TypeOK, DataOK, Typed, Places
<1>2. Typed /\ turn[t].at = "route"
  BY DEF FindPrototypes, At, TypeOK, DataOK, Typed
<1>3. QED
  BY <1>1, <1>2, GoShape

LEMMA TakeLockActs ==
  ASSUME TypeOK, NEW t \in Turns, TakeLock(t)
  PROVE  /\ Typed' /\ Others(t) /\ turn[t].at = "wait"
         /\ turn'[t].at = IF prototypes THEN "embed" ELSE "batch"
         /\ Keeps(t)
<1>1. PICK place \in Places : Go(t, place) /\ (place = IF prototypes THEN "embed" ELSE "batch")
  BY DEF TakeLock, At, TypeOK, DataOK, Typed, Places
<1>2. Typed /\ turn[t].at = "wait"
  BY DEF TakeLock, At, TypeOK, DataOK, Typed
<1>3. QED
  BY <1>1, <1>2, GoShape

LEMMA BatchLoadedActs ==
  ASSUME TypeOK, NEW t \in Turns, BatchLoaded(t)
  PROVE  /\ Typed' /\ Others(t) /\ turn[t].at = "batch"
         /\ turn'[t].at = "embed"
         /\ Keeps(t)
<1>1. PICK place \in Places : Go(t, place) /\ (place = "embed")
  BY DEF BatchLoaded, At, TypeOK, DataOK, Typed, Places
<1>2. Typed /\ turn[t].at = "batch"
  BY DEF BatchLoaded, At, TypeOK, DataOK, Typed
<1>3. QED
  BY <1>1, <1>2, GoShape

LEMMA RouteActs ==
  ASSUME TypeOK, NEW t \in Turns, Route(t)
  PROVE  /\ Typed' /\ Others(t) /\ turn[t].at = "embed"
         /\ turn'[t].at = IF turn[t].says.page = NoPage THEN "history" ELSE "ask"
         /\ Keeps(t)
<1>1. PICK place \in Places : Go(t, place) /\ (place = IF turn[t].says.page = NoPage THEN "history" ELSE "ask")
  BY DEF Route, At, TypeOK, DataOK, Typed, Places
<1>2. Typed /\ turn[t].at = "embed"
  BY DEF Route, At, TypeOK, DataOK, Typed
<1>3. QED
  BY <1>1, <1>2, GoShape

LEMMA AskSaveActs ==
  ASSUME TypeOK, NEW t \in Turns, AskSave(t)
  PROVE  /\ Typed' /\ Others(t) /\ turn[t].at = "ask"
         /\ turn'[t].at = IF turn[t].says.page = NoPage THEN "refs" ELSE "reply"
         /\ Keeps(t)
<1>1. PICK place \in Places : Go(t, place) /\ (place = IF turn[t].says.page = NoPage THEN "refs" ELSE "reply")
  BY DEF AskSave, At, TypeOK, DataOK, Typed, Places
<1>2. Typed /\ turn[t].at = "ask"
  BY DEF AskSave, At, TypeOK, DataOK, Typed
<1>3. QED
  BY <1>1, <1>2, GoShape

LEMMA ListenActs ==
  ASSUME TypeOK, NEW t \in Turns, Listen(t)
  PROVE  /\ Typed' /\ Others(t) /\ turn[t].at = "agent"
         /\ turn'[t].at \in {"model", "rank"}
         /\ Keeps(t)
<1>1. PICK place \in Places : Go(t, place) /\ (place \in {"model", "rank"})
  BY DEF Listen, At, TypeOK, DataOK, Typed, Places
<1>2. Typed /\ turn[t].at = "agent"
  BY DEF Listen, At, TypeOK, DataOK, Typed
<1>3. QED
  BY <1>1, <1>2, GoShape

LEMMA RankActs ==
  ASSUME TypeOK, NEW t \in Turns, Rank(t)
  PROVE  /\ Typed' /\ Others(t) /\ turn[t].at = "rank"
         /\ turn'[t].at \in {"fast", "model"}
         /\ Keeps(t)
<1>1. PICK place \in Places : Go(t, place) /\ (place \in {"fast", "model"})
  BY DEF Rank, At, TypeOK, DataOK, Typed, Places
<1>2. Typed /\ turn[t].at = "rank"
  BY DEF Rank, At, TypeOK, DataOK, Typed
<1>3. QED
  BY <1>1, <1>2, GoShape

LEMMA HistoryLoadActs ==
  ASSUME TypeOK, NEW t \in Turns, HistoryLoad(t)
  PROVE  /\ Typed' /\ Others(t) /\ turn[t].at = "history"
         /\ turn'[t].at = "ask"
         /\ turn'[t].seen = Shown(t, turn'[t].read) /\ turn'[t].read \in BOOLEAN
         /\ turn'[t].says = turn[t].says /\ turn'[t].call = turn[t].call
         /\ turn'[t].wrote = turn[t].wrote /\ turn'[t].cached = turn[t].cached
         /\ turn'[t].latest = turn[t].latest
<1>1. PICK read \in BOOLEAN : Loads(t, read)
  BY DEF HistoryLoad, Loads, Shown
<1>2. Typed /\ turn[t].at = "history" /\ transcript \in Seq(Turns \X BOOLEAN)
  BY DEF HistoryLoad, At, TypeOK, DataOK, Typed
<1>3. QED
  BY <1>1, <1>2, HistoryLoadShape

LEMMA FastSearchActs ==
  ASSUME TypeOK, NEW t \in Turns, FastSearch(t)
  PROVE  /\ Typed' /\ Others(t) /\ turn[t].at = "fast"
         /\ turn'[t].at \in {"reply", "save"} /\ Quiet(t) /\ Carries(t)
<1>1. PICK news \in SUBSET Keys : Conclude(t, news, "text", FALSE)
  BY DEF FastSearch, Keys
<1>2. Typed /\ turn[t].at = "fast"
  BY DEF FastSearch, At, TypeOK, DataOK, Typed
<1>3. QED
  BY <1>1, <1>2, ConcludeShape DEF Concludes, Quiet, Carries

LEMMA ModelTalksActs ==
  ASSUME TypeOK, NEW t \in Turns, ModelTalks(t)
  PROVE  /\ Typed' /\ Others(t) /\ turn[t].at = "model"
         /\ turn'[t].at \in {"reply", "save"} /\ Quiet(t) /\ Carries(t)
<1>1. PICK news \in SUBSET Keys : Conclude(t, news, "text", FALSE)
  BY DEF ModelTalks
<1>2. Typed /\ turn[t].at = "model"
  BY DEF ModelTalks, At, TypeOK, DataOK, Typed
<1>3. QED
  BY <1>1, <1>2, ConcludeShape DEF Concludes, Quiet, Carries

LEMMA ModelCallsActs ==
  ASSUME TypeOK, NEW t \in Turns, NEW c \in Calls, NEW recovered \in BOOLEAN, ModelCalls(t, c, recovered)
  PROVE  /\ Typed' /\ Others(t) /\ turn[t].at = "model"
         /\ \/ turn'[t].at \in {"reply", "save"} /\ Quiet(t) /\ Carries(t)
            \/ /\ turn'[t].at = "tool" /\ ~ Missing(t, turn'[t].call) /\ turn'[t].call.tool = c.tool
               /\ turn'[t].says = turn[t].says /\ turn'[t].wrote = turn[t].wrote
               /\ turn'[t].cached = turn[t].cached
<1>1. Typed /\ turn[t].at = "model"
  BY DEF ModelCalls, At, TypeOK, DataOK, Typed
<1>2. PICK args : args = IF recovered THEN c ELSE Cleaned(t, c)
  OBVIOUS
<1>3. args \in Calls /\ args.tool = c.tool
  BY <1>2 DEF Cleaned, Calls
<1>4. CASE Missing(t, args)
  <2>1. PICK news \in SUBSET Keys : Conclude(t, news, "text", FALSE)
    BY <1>2, <1>4 DEF ModelCalls, Keys
  <2>2. QED
    BY <1>1, <2>1, ConcludeShape DEF Concludes, Quiet, Carries
<1>5. CASE ~ Missing(t, args)
  <2>1. Takes(t, args)
    BY <1>2, <1>5 DEF ModelCalls, Takes
  <2>2. QED
    BY <1>1, <1>3, <1>5, <2>1, ToolShape
<1>6. QED
  BY <1>4, <1>5

LEMMA RefsLoadActs ==
  ASSUME TypeOK, NEW t \in Turns, RefsLoad(t)
  PROVE  /\ Typed' /\ Others(t) /\ turn[t].at = "refs"
         /\ turn'[t].at = "agent" /\ turn'[t].cached = refs
         /\ turn'[t].says = turn[t].says
         /\ turn'[t].call = turn[t].call
         /\ turn'[t].wrote = turn[t].wrote
         /\ turn'[t].latest = turn[t].latest
         /\ turn'[t].seen = turn[t].seen
         /\ turn'[t].read = turn[t].read
<1>1. Typed /\ turn[t].at = "refs" /\ refs \in [Keys -> 0 .. MaxTurns]
  BY DEF RefsLoad, At, TypeOK, DataOK, Typed
<1>2. QED
  BY <1>1, RefsLoadShape

LEMMA ToolRunActs ==
  ASSUME TypeOK, NEW t \in Turns, ToolRun(t)
  PROVE  /\ Typed' /\ Others(t) /\ turn[t].at = "tool"
         /\ LET c == turn[t].call IN
            \E ok \in BOOLEAN :
              IF c.tool \in WRITE_TOOLS
              THEN /\ turn'[t].at = IF ok /\ Found(c) # {} THEN "save" ELSE "reply"
                   /\ turn'[t].wrote = (ok /\ Effective(c)) /\ Carries(t)
                   /\ turn'[t].wrote => turn'[t].says = turn[t].says /\ turn'[t].call = c
              ELSE /\ turn'[t].at = "final" /\ turn'[t].wrote = (ok /\ Effective(c))
                   /\ turn'[t].says = turn[t].says /\ turn'[t].call = c /\ turn'[t].cached = turn[t].cached
<1>1. Typed /\ turn[t].at = "tool" /\ turn[t].call \in Calls
  BY DEF ToolRun, At, TypeOK, DataOK, Typed, TurnType
<1>2. PICK c : c = turn[t].call
  OBVIOUS
<1>3. PICK ok \in BOOLEAN :
        LET news == IF ok THEN Found(c) ELSE {} IN
        IF c.tool \in WRITE_TOOLS THEN Conclude(t, news, "text", ok /\ Effective(c))
        ELSE Awaits(t, ok /\ Effective(c), news)
  BY <1>2 DEF ToolRun, Awaits
<1>4. PICK news : news = IF ok THEN Found(c) ELSE {}
  OBVIOUS
<1>5. PICK wrote \in BOOLEAN : wrote = (ok /\ Effective(c))
  OBVIOUS
<1>6. news \in SUBSET Keys
  BY <1>4 DEF Found, Keys
<1>7. CASE c.tool \in WRITE_TOOLS
  <2>1. Conclude(t, news, "text", wrote)
    BY <1>3, <1>4, <1>5, <1>7
  <2>2. QED
    BY <1>1, <1>2, <1>4, <1>5, <1>6, <1>7, <2>1, ConcludeShape DEF Concludes, Carries
<1>8. CASE c.tool \notin WRITE_TOOLS
  <2>1. Awaits(t, wrote, news)
    BY <1>3, <1>4, <1>5, <1>8
  <2>2. QED
    BY <1>1, <1>2, <1>4, <1>5, <1>6, <1>8, <2>1, FinalShape
<1>9. QED
  BY <1>7, <1>8

LEMMA ToolRefusesActs ==
  ASSUME TypeOK, NEW t \in Turns, ToolRefuses(t)
  PROVE  /\ Typed' /\ Others(t) /\ turn[t].at = "tool"
         /\ \/ turn'[t].at \in {"reply", "save"} /\ Quiet(t) /\ Carries(t)
            \/ turn'[t].at = "final" /\ Keeps(t) /\ turn[t].call.tool \notin WRITE_TOOLS
<1>1. Typed /\ turn[t].at = "tool"
  BY DEF ToolRefuses, At, TypeOK, DataOK, Typed
<1>2. CASE turn[t].call.tool \in Guarded
  BY <1>1, <1>2, ConcludeShape DEF ToolRefuses, Concludes, Quiet, Carries
<1>3. CASE turn[t].call.tool \in WRITE_TOOLS \ Guarded
  BY <1>1, <1>3, ConcludeShape DEF ToolRefuses, Concludes, Quiet, Carries
<1>4. CASE turn[t].call.tool \notin WRITE_TOOLS \union Guarded
  BY <1>1, <1>4, GoShape DEF ToolRefuses, Places
<1>5. QED
  BY <1>2, <1>3, <1>4

LEMMA FinalCallActs ==
  ASSUME TypeOK, NEW t \in Turns, FinalCall(t)
  PROVE  /\ Typed' /\ Others(t) /\ turn[t].at = "final"
         /\ turn'[t].at \in {"reply", "save"} /\ turn'[t].wrote = turn[t].wrote /\ Carries(t) /\ Tells(t)
<1>1. /\ Typed /\ turn[t].at = "final"
      /\ turn[t].news \in SUBSET Keys /\ turn[t].wrote \in BOOLEAN
  BY DEF FinalCall, At, TypeOK, DataOK, Typed, TurnType
<1>2. PICK news \in SUBSET Keys, wrote \in BOOLEAN : news = turn[t].news /\ wrote = turn[t].wrote
  BY <1>1
<1>3. Conclude(t, news, "text", wrote)
  BY <1>2 DEF FinalCall
<1>4. QED
  BY <1>1, <1>2, <1>3, ConcludeShape DEF Concludes, Carries, Tells

-----------------------------------------------------------------------------
(* A step keeps the types and the bookkeeping of the lock.                 *)
LEMMA TypeStep ==
  ASSUME TypeOK, [Next]_vars PROVE TypeOK'
<1>1. CASE UNCHANGED vars
  BY <1>1 DEF vars, store, memory, router, TypeOK, DataOK, LockOK, At
<1>2. ASSUME NEW t \in Turns, NEW m \in Texts, NEW r0 \in Roles, Arrive(t, m,
            r0)
      PROVE  TypeOK'
  <2>1. Typed' /\ \A s \in Turns : s # t => turn'[s] = turn[s]
    BY <1>2, ArriveShape DEF Others, TypeOK, DataOK, Typed
  <2>2. /\ UNCHANGED <<lock, prototypes, batches>>
        /\ UNCHANGED <<thread, transcript>>
        /\ UNCHANGED <<refs, saved, excused>>
        /\ mixed' = IF Busy = {} THEN mixed ELSE mixed \union Busy \union {t}
        /\ shared' = shared /\ toolVectors' \in BOOLEAN /\ faults' \in 0 .. MaxFaults
    BY <1>2, ChatAssumption DEF Arrive, Typed, TypeOK, DataOK, store, memory, router
  <2>3. turn[t].at # "batch" /\ turn'[t].at # "batch"
    BY <1>2, ArriveShape DEF TypeOK, DataOK, Typed
  <2>4. LockOK'
    BY <2>1, <2>2, <2>3, ChatAssumption DEF TypeOK, DataOK, LockOK, At, Nobody, Turns, Typed
  <2>6. DataOK'
    BY <2>1, <2>2, ChatAssumption DEF TypeOK, DataOK, Typed, Busy
  <2>7. QED
    BY <2>4, <2>6 DEF TypeOK
<1>3. ASSUME NEW t \in Turns, FindPrototypes(t)
      PROVE  TypeOK'
  <2>1. Typed' /\ \A s \in Turns : s # t => turn'[s] = turn[s]
    BY <1>3, FindPrototypesActs DEF Others, TypeOK, DataOK, Typed
  <2>2. /\ UNCHANGED <<lock, prototypes, batches>>
        /\ UNCHANGED <<thread, transcript>>
        /\ UNCHANGED <<refs, saved, excused>>
        /\ mixed' = mixed
        /\ shared' = shared /\ toolVectors' \in BOOLEAN /\ faults' \in 0 .. MaxFaults
    BY <1>3, ChatAssumption DEF FindPrototypes, Typed, TypeOK, DataOK, store, memory, router
  <2>3. turn[t].at # "batch" /\ turn'[t].at # "batch"
    BY <1>3, FindPrototypesActs DEF TypeOK, DataOK, Typed, Keeps
  <2>4. LockOK'
    BY <2>1, <2>2, <2>3, ChatAssumption DEF TypeOK, DataOK, LockOK, At, Nobody, Turns, Typed
  <2>6. DataOK'
    BY <2>1, <2>2, ChatAssumption DEF TypeOK, DataOK, Typed
  <2>7. QED
    BY <2>4, <2>6 DEF TypeOK
<1>4. ASSUME NEW t \in Turns, TakeLock(t)
      PROVE  TypeOK'
  <2>1. Typed' /\ \A s \in Turns : s # t => turn'[s] = turn[s]
    BY <1>4, TakeLockActs DEF Others, TypeOK, DataOK, Typed
  <2>2. /\ lock = Nobody /\ lock' = (IF prototypes THEN Nobody ELSE t) /\ UNCHANGED <<prototypes, batches>>
        /\ UNCHANGED <<thread, transcript>>
        /\ UNCHANGED <<refs, saved, excused>>
        /\ mixed' = mixed
        /\ shared' = shared /\ toolVectors' \in BOOLEAN /\ faults' \in 0 .. MaxFaults
    BY <1>4, ChatAssumption DEF TakeLock, Typed, TypeOK, DataOK, store, memory, router
  <2>3. turn[t].at # "batch" /\ turn'[t].at = IF prototypes THEN "embed" ELSE "batch"
    BY <1>4, TakeLockActs DEF TypeOK, DataOK, Typed, Keeps
  <2>4. LockOK'
    BY <2>1, <2>2, <2>3, ChatAssumption DEF TypeOK, DataOK, LockOK, At, Nobody, Turns, Typed
  <2>6. DataOK'
    BY <2>1, <2>2, ChatAssumption DEF TypeOK, DataOK, Typed, Nobody, Turns
  <2>7. QED
    BY <2>4, <2>6 DEF TypeOK
<1>5. ASSUME NEW t \in Turns, BatchLoaded(t)
      PROVE  TypeOK'
  <2>1. Typed' /\ \A s \in Turns : s # t => turn'[s] = turn[s]
    BY <1>5, BatchLoadedActs DEF Others, TypeOK, DataOK, Typed
  <2>2. /\ lock' = Nobody /\ prototypes' = TRUE /\ batches' = batches + 1
        /\ UNCHANGED <<thread, transcript>>
        /\ UNCHANGED <<refs, saved, excused>>
        /\ mixed' = mixed
        /\ shared' = shared /\ toolVectors' \in BOOLEAN /\ faults' \in 0 .. MaxFaults
    BY <1>5, ChatAssumption DEF BatchLoaded, Typed, TypeOK, DataOK, store, memory, router
  <2>3. turn[t].at = "batch" /\ turn'[t].at # "batch"
    BY <1>5, BatchLoadedActs DEF TypeOK, DataOK, Typed, Keeps
  <2>4. LockOK'
    BY <2>1, <2>2, <2>3, ChatAssumption DEF TypeOK, DataOK, LockOK, At, Nobody, Turns, Typed
  <2>6. DataOK'
    BY <2>1, <2>2, ChatAssumption DEF TypeOK, DataOK, Typed, Nobody, Turns
  <2>7. QED
    BY <2>4, <2>6 DEF TypeOK
<1>6. ASSUME NEW t \in Turns, Route(t)
      PROVE  TypeOK'
  <2>1. Typed' /\ \A s \in Turns : s # t => turn'[s] = turn[s]
    BY <1>6, RouteActs DEF Others, TypeOK, DataOK, Typed
  <2>2. /\ UNCHANGED <<lock, prototypes, batches>>
        /\ UNCHANGED <<thread, transcript>>
        /\ UNCHANGED <<refs, saved, excused>>
        /\ mixed' = mixed
        /\ shared' = shared /\ toolVectors' \in BOOLEAN /\ faults' \in 0 .. MaxFaults
    BY <1>6, ChatAssumption DEF Route, Typed, TypeOK, DataOK, store, memory, router
  <2>3. turn[t].at # "batch" /\ turn'[t].at # "batch"
    BY <1>6, RouteActs DEF TypeOK, DataOK, Typed, Keeps
  <2>4. LockOK'
    BY <2>1, <2>2, <2>3, ChatAssumption DEF TypeOK, DataOK, LockOK, At, Nobody, Turns, Typed
  <2>6. DataOK'
    BY <2>1, <2>2, ChatAssumption DEF TypeOK, DataOK, Typed
  <2>7. QED
    BY <2>4, <2>6 DEF TypeOK
<1>7. ASSUME NEW t \in Turns, HistoryLoad(t)
      PROVE  TypeOK'
  <2>1. Typed' /\ \A s \in Turns : s # t => turn'[s] = turn[s]
    BY <1>7, HistoryLoadActs DEF Others, TypeOK, DataOK, Typed
  <2>2. /\ UNCHANGED <<lock, prototypes, batches>>
        /\ UNCHANGED <<thread, transcript>>
        /\ UNCHANGED <<refs, saved, excused>>
        /\ mixed' = mixed
        /\ shared' = shared /\ toolVectors' \in BOOLEAN /\ faults' \in 0 .. MaxFaults
    BY <1>7, ChatAssumption DEF HistoryLoad, Works, Faulty, TypeOK, DataOK, store, memory, router
  <2>3. turn[t].at # "batch" /\ turn'[t].at # "batch"
    BY <1>7, HistoryLoadActs DEF TypeOK, DataOK, Typed
  <2>4. LockOK'
    BY <2>1, <2>2, <2>3, ChatAssumption DEF TypeOK, DataOK, LockOK, At, Nobody, Turns, Typed
  <2>6. DataOK'
    BY <2>1, <2>2, ChatAssumption DEF TypeOK, DataOK, Typed
  <2>7. QED
    BY <2>4, <2>6 DEF TypeOK
<1>8. ASSUME NEW t \in Turns, AskSave(t)
      PROVE  TypeOK'
  <2>1. Typed' /\ \A s \in Turns : s # t => turn'[s] = turn[s]
    BY <1>8, AskSaveActs DEF Others, TypeOK, DataOK, Typed
  <2>2. /\ UNCHANGED <<lock, prototypes, batches>>
        /\ (thread' = TRUE /\ transcript' = Append(transcript, Question(t))) \/ (thread' \in {thread, TRUE} /\ transcript' = transcript)
        /\ UNCHANGED <<refs, saved, excused>>
        /\ mixed' = mixed
        /\ shared' = shared /\ toolVectors' \in BOOLEAN /\ faults' \in 0 .. MaxFaults
    <3>1. UNCHANGED <<lock, prototypes, batches>>
      BY <1>8 DEF AskSave, At, store, memory, router
    <3>2. (thread' = TRUE /\ transcript' = Append(transcript, Question(t))) \/ (thread' \in {thread, TRUE} /\ transcript' = transcript)
      BY <1>8 DEF AskSave, At, store, memory, router
    <3>3. UNCHANGED <<refs, saved, excused>>
      BY <1>8 DEF AskSave, At, store, memory, router
    <3>4. mixed' = mixed
      BY <1>8 DEF AskSave, At, store, memory, router
    <3>25. Works \/ Faulty
      BY <1>8 DEF AskSave
    <3>15. faults' \in 0 .. MaxFaults
      BY <3>25, ChatAssumption DEF Works, Faulty, TypeOK, DataOK
    <3>5. shared' = shared /\ toolVectors' \in BOOLEAN /\ faults' \in 0 .. MaxFaults
      BY <1>8, <3>15 DEF AskSave, Works, Faulty, TypeOK, DataOK
    <3>6. QED
      BY <3>1, <3>2, <3>3, <3>4, <3>5
  <2>3. turn[t].at # "batch" /\ turn'[t].at # "batch"
    BY <1>8, AskSaveActs DEF TypeOK, DataOK, Typed, Keeps
  <2>4. LockOK'
    BY <2>1, <2>2, <2>3, ChatAssumption DEF TypeOK, DataOK, LockOK, At, Nobody, Turns, Typed
  <2>5. /\ transcript' \in Seq(Turns \X BOOLEAN)
        /\ transcript' # <<>> => thread'
        /\ thread' \in BOOLEAN
    <3>1. /\ Question(t) \in Turns \X BOOLEAN /\ transcript \in Seq(Turns \X BOOLEAN)
          /\ thread \in BOOLEAN /\ (transcript # <<>> => thread)
      BY DEF Question, TypeOK, DataOK
    <3>2. transcript' \in Seq(Turns \X BOOLEAN)
      <4>1. Append(transcript, Question(t)) \in Seq(Turns \X BOOLEAN)
        BY <3>1, AppendProperties
      <4>2. QED
        BY <2>2, <3>1, <4>1
    <3>3. thread' \in BOOLEAN
      BY <2>2, <3>1
    <3>4. transcript' # <<>> => thread'
      BY <2>2, <3>1
    <3>5. QED
      BY <3>2, <3>3, <3>4
  <2>6. DataOK'
    BY <2>1, <2>2, <2>5, ChatAssumption DEF TypeOK, DataOK, Typed
  <2>7. QED
    BY <2>4, <2>6 DEF TypeOK
<1>9. ASSUME NEW t \in Turns, RefsLoad(t)
      PROVE  TypeOK'
  <2>1. Typed' /\ \A s \in Turns : s # t => turn'[s] = turn[s]
    BY <1>9, RefsLoadActs DEF Others, TypeOK, DataOK, Typed
  <2>2. /\ UNCHANGED <<lock, prototypes, batches>>
        /\ UNCHANGED <<thread, transcript>>
        /\ UNCHANGED <<refs, saved, excused>>
        /\ mixed' = mixed
        /\ shared' = shared /\ toolVectors' \in BOOLEAN /\ faults' \in 0 .. MaxFaults
    BY <1>9, ChatAssumption DEF RefsLoad, Typed, TypeOK, DataOK, store, memory, router
  <2>3. turn[t].at # "batch" /\ turn'[t].at # "batch"
    BY <1>9, RefsLoadActs DEF TypeOK, DataOK, Typed
  <2>4. LockOK'
    BY <2>1, <2>2, <2>3, ChatAssumption DEF TypeOK, DataOK, LockOK, At, Nobody, Turns, Typed
  <2>6. DataOK'
    BY <2>1, <2>2, ChatAssumption DEF TypeOK, DataOK, Typed
  <2>7. QED
    BY <2>4, <2>6 DEF TypeOK
<1>10. ASSUME NEW t \in Turns, Listen(t)
      PROVE  TypeOK'
  <2>1. Typed' /\ \A s \in Turns : s # t => turn'[s] = turn[s]
    BY <1>10, ListenActs DEF Others, TypeOK, DataOK, Typed
  <2>2. /\ UNCHANGED <<lock, prototypes, batches>>
        /\ UNCHANGED <<thread, transcript>>
        /\ UNCHANGED <<refs, saved, excused>>
        /\ mixed' = mixed
        /\ shared' = shared /\ toolVectors' \in BOOLEAN /\ faults' \in 0 .. MaxFaults
    BY <1>10, ChatAssumption DEF Listen, Typed, TypeOK, DataOK, store, memory, router
  <2>3. turn[t].at # "batch" /\ turn'[t].at # "batch"
    BY <1>10, ListenActs DEF TypeOK, DataOK, Typed, Keeps
  <2>4. LockOK'
    BY <2>1, <2>2, <2>3, ChatAssumption DEF TypeOK, DataOK, LockOK, At, Nobody, Turns, Typed
  <2>6. DataOK'
    BY <2>1, <2>2, ChatAssumption DEF TypeOK, DataOK, Typed
  <2>7. QED
    BY <2>4, <2>6 DEF TypeOK
<1>11. ASSUME NEW t \in Turns, Rank(t)
      PROVE  TypeOK'
  <2>1. Typed' /\ \A s \in Turns : s # t => turn'[s] = turn[s]
    BY <1>11, RankActs DEF Others, TypeOK, DataOK, Typed
  <2>2. /\ UNCHANGED <<lock, prototypes, batches>>
        /\ UNCHANGED <<thread, transcript>>
        /\ UNCHANGED <<refs, saved, excused>>
        /\ mixed' = mixed
        /\ shared' = shared /\ toolVectors' \in BOOLEAN /\ faults' \in 0 .. MaxFaults
    BY <1>11, ChatAssumption DEF Rank, Typed, TypeOK, DataOK, store, memory, router
  <2>3. turn[t].at # "batch" /\ turn'[t].at # "batch"
    BY <1>11, RankActs DEF TypeOK, DataOK, Typed, Keeps
  <2>4. LockOK'
    BY <2>1, <2>2, <2>3, ChatAssumption DEF TypeOK, DataOK, LockOK, At, Nobody, Turns, Typed
  <2>6. DataOK'
    BY <2>1, <2>2, ChatAssumption DEF TypeOK, DataOK, Typed
  <2>7. QED
    BY <2>4, <2>6 DEF TypeOK
<1>12. ASSUME NEW t \in Turns, FastSearch(t)
      PROVE  TypeOK'
  <2>1. Typed' /\ \A s \in Turns : s # t => turn'[s] = turn[s]
    BY <1>12, FastSearchActs DEF Others, TypeOK, DataOK, Typed
  <2>2. /\ UNCHANGED <<lock, prototypes, batches>>
        /\ UNCHANGED <<thread, transcript>>
        /\ UNCHANGED <<refs, saved, excused>>
        /\ mixed' = mixed
        /\ shared' = shared /\ toolVectors' \in BOOLEAN /\ faults' \in 0 .. MaxFaults
    BY <1>12, ChatAssumption DEF FastSearch, Typed, TypeOK, DataOK, store, memory, router
  <2>3. turn[t].at # "batch" /\ turn'[t].at # "batch"
    BY <1>12, FastSearchActs DEF TypeOK, DataOK, Typed, Quiet, Carries
  <2>4. LockOK'
    BY <2>1, <2>2, <2>3, ChatAssumption DEF TypeOK, DataOK, LockOK, At, Nobody, Turns, Typed
  <2>6. DataOK'
    BY <2>1, <2>2, ChatAssumption DEF TypeOK, DataOK, Typed
  <2>7. QED
    BY <2>4, <2>6 DEF TypeOK
<1>13. ASSUME NEW t \in Turns, ModelTalks(t)
      PROVE  TypeOK'
  <2>1. Typed' /\ \A s \in Turns : s # t => turn'[s] = turn[s]
    BY <1>13, ModelTalksActs DEF Others, TypeOK, DataOK, Typed
  <2>2. /\ UNCHANGED <<lock, prototypes, batches>>
        /\ UNCHANGED <<thread, transcript>>
        /\ UNCHANGED <<refs, saved, excused>>
        /\ mixed' = mixed
        /\ shared' = shared /\ toolVectors' \in BOOLEAN /\ faults' \in 0 .. MaxFaults
    BY <1>13, ChatAssumption DEF ModelTalks, Typed, TypeOK, DataOK, store, memory, router
  <2>3. turn[t].at # "batch" /\ turn'[t].at # "batch"
    BY <1>13, ModelTalksActs DEF TypeOK, DataOK, Typed, Quiet, Carries
  <2>4. LockOK'
    BY <2>1, <2>2, <2>3, ChatAssumption DEF TypeOK, DataOK, LockOK, At, Nobody, Turns, Typed
  <2>6. DataOK'
    BY <2>1, <2>2, ChatAssumption DEF TypeOK, DataOK, Typed
  <2>7. QED
    BY <2>4, <2>6 DEF TypeOK
<1>14. ASSUME NEW t \in Turns, NEW c \in Calls, NEW recovered \in BOOLEAN,
            ModelCalls(t, c, recovered)
      PROVE  TypeOK'
  <2>1. Typed' /\ \A s \in Turns : s # t => turn'[s] = turn[s]
    BY <1>14, ModelCallsActs DEF Others, TypeOK, DataOK, Typed
  <2>2. /\ UNCHANGED <<lock, prototypes, batches>>
        /\ UNCHANGED <<thread, transcript>>
        /\ UNCHANGED <<refs, saved, excused>>
        /\ mixed' = mixed
        /\ shared' = shared /\ toolVectors' \in BOOLEAN /\ faults' \in 0 .. MaxFaults
    BY <1>14, ChatAssumption DEF ModelCalls, Typed, TypeOK, DataOK, store, memory, router
  <2>3. turn[t].at # "batch" /\ turn'[t].at # "batch"
    BY <1>14, ModelCallsActs DEF TypeOK, DataOK, Typed, Quiet, Carries
  <2>4. LockOK'
    BY <2>1, <2>2, <2>3, ChatAssumption DEF TypeOK, DataOK, LockOK, At, Nobody, Turns, Typed
  <2>6. DataOK'
    BY <2>1, <2>2, ChatAssumption DEF TypeOK, DataOK, Typed
  <2>7. QED
    BY <2>4, <2>6 DEF TypeOK
<1>15. ASSUME NEW t \in Turns, ToolRun(t)
      PROVE  TypeOK'
  <2>1. Typed' /\ \A s \in Turns : s # t => turn'[s] = turn[s]
    BY <1>15, ToolRunActs DEF Others, TypeOK, DataOK, Typed
  <2>2. /\ UNCHANGED <<lock, prototypes, batches>>
        /\ UNCHANGED <<thread, transcript>>
        /\ UNCHANGED <<refs, saved, excused>>
        /\ mixed' = mixed
        /\ shared' = shared /\ toolVectors' \in BOOLEAN /\ faults' \in 0 .. MaxFaults
    BY <1>15, ChatAssumption DEF ToolRun, Typed, TypeOK, DataOK, store, memory, router
  <2>3. turn[t].at # "batch" /\ turn'[t].at # "batch"
    BY <1>15, ToolRunActs DEF TypeOK, DataOK, Typed, Carries
  <2>4. LockOK'
    BY <2>1, <2>2, <2>3, ChatAssumption DEF TypeOK, DataOK, LockOK, At, Nobody, Turns, Typed
  <2>6. DataOK'
    BY <2>1, <2>2, ChatAssumption DEF TypeOK, DataOK, Typed
  <2>7. QED
    BY <2>4, <2>6 DEF TypeOK
<1>16. ASSUME NEW t \in Turns, ToolRefuses(t)
      PROVE  TypeOK'
  <2>1. Typed' /\ \A s \in Turns : s # t => turn'[s] = turn[s]
    BY <1>16, ToolRefusesActs DEF Others, TypeOK, DataOK, Typed
  <2>2. /\ UNCHANGED <<lock, prototypes, batches>>
        /\ UNCHANGED <<thread, transcript>>
        /\ UNCHANGED <<refs, saved, excused>>
        /\ mixed' = mixed
        /\ shared' = shared /\ toolVectors' \in BOOLEAN /\ faults' \in 0 .. MaxFaults
    BY <1>16, ChatAssumption DEF ToolRefuses, Typed, TypeOK, DataOK, store, memory, router
  <2>3. turn[t].at # "batch" /\ turn'[t].at # "batch"
    BY <1>16, ToolRefusesActs DEF TypeOK, DataOK, Typed, Quiet, Carries, Keeps
  <2>4. LockOK'
    BY <2>1, <2>2, <2>3, ChatAssumption DEF TypeOK, DataOK, LockOK, At, Nobody, Turns, Typed
  <2>6. DataOK'
    BY <2>1, <2>2, ChatAssumption DEF TypeOK, DataOK, Typed
  <2>7. QED
    BY <2>4, <2>6 DEF TypeOK
<1>17. ASSUME NEW t \in Turns, FinalCall(t)
      PROVE  TypeOK'
  <2>1. Typed' /\ \A s \in Turns : s # t => turn'[s] = turn[s]
    BY <1>17, FinalCallActs DEF Others, TypeOK, DataOK, Typed
  <2>2. /\ UNCHANGED <<lock, prototypes, batches>>
        /\ UNCHANGED <<thread, transcript>>
        /\ UNCHANGED <<refs, saved, excused>>
        /\ mixed' = mixed
        /\ shared' = shared /\ toolVectors' \in BOOLEAN /\ faults' \in 0 .. MaxFaults
    BY <1>17, ChatAssumption DEF FinalCall, Typed, TypeOK, DataOK, store, memory, router
  <2>3. turn[t].at # "batch" /\ turn'[t].at # "batch"
    BY <1>17, FinalCallActs DEF TypeOK, DataOK, Typed, Carries, Tells
  <2>4. LockOK'
    BY <2>1, <2>2, <2>3, ChatAssumption DEF TypeOK, DataOK, LockOK, At, Nobody, Turns, Typed
  <2>6. DataOK'
    BY <2>1, <2>2, ChatAssumption DEF TypeOK, DataOK, Typed
  <2>7. QED
    BY <2>4, <2>6 DEF TypeOK
<1>18. ASSUME NEW t \in Turns, RefsSave(t)
      PROVE  TypeOK'
  <2>1. Typed' /\ \A s \in Turns : s # t => turn'[s] = turn[s]
    BY <1>18, RefsSaveShape DEF Others, TypeOK, DataOK, Typed
  <2>2. /\ UNCHANGED <<lock, prototypes, batches>>
        /\ UNCHANGED <<thread, transcript>>
        /\ /\ refs' = [k \in Keys |-> IF k \in turn[t].news THEN t ELSE turn[t].cached[k]]
           /\ saved' = [k \in Keys |-> IF k \in turn[t].news THEN t ELSE saved[k]]
           /\ excused' = (IF t \in mixed THEN excused \union Keys ELSE excused) \ turn[t].news
        /\ mixed' = mixed
        /\ shared' = shared /\ toolVectors' \in BOOLEAN /\ faults' \in 0 .. MaxFaults
    BY <1>18, ChatAssumption DEF RefsSave, Typed, TypeOK, DataOK, store, memory, router
  <2>3. turn[t].at # "batch" /\ turn'[t].at # "batch"
    BY <1>18, RefsSaveShape DEF TypeOK, DataOK, Typed
  <2>4. LockOK'
    BY <2>1, <2>2, <2>3, ChatAssumption DEF TypeOK, DataOK, LockOK, At, Nobody, Turns, Typed
  <2>5. turn[t].cached \in [Keys -> 0 .. MaxTurns]
    BY DEF TypeOK, DataOK, TurnType
  <2>6. DataOK'
    BY <2>1, <2>2, <2>5, ChatAssumption DEF TypeOK, DataOK, Typed, Turns
  <2>7. QED
    BY <2>4, <2>6 DEF TypeOK
<1>19. ASSUME NEW t \in Turns, ReplySave(t)
      PROVE  TypeOK'
  <2>1. Typed' /\ \A s \in Turns : s # t => turn'[s] = turn[s]
    BY <1>19, ReplySaveShape DEF Others, TypeOK, DataOK, Typed
  <2>2. /\ UNCHANGED <<lock, prototypes, batches>>
        /\ thread' = thread /\ (transcript' = transcript \/ (thread /\ transcript' = Append(transcript, Answer(t))))
        /\ UNCHANGED <<refs, saved, excused>>
        /\ mixed' = mixed
        /\ shared' = shared /\ toolVectors' \in BOOLEAN /\ faults' \in 0 .. MaxFaults
    BY <1>19, ChatAssumption DEF ReplySave, Works, Faulty, TypeOK, DataOK, store, memory, router
  <2>3. turn[t].at # "batch" /\ turn'[t].at # "batch"
    BY <1>19, ReplySaveShape DEF TypeOK, DataOK, Typed
  <2>4. LockOK'
    BY <2>1, <2>2, <2>3, ChatAssumption DEF TypeOK, DataOK, LockOK, At, Nobody, Turns, Typed
  <2>5. /\ transcript' \in Seq(Turns \X BOOLEAN)
        /\ transcript' # <<>> => thread'
        /\ thread' \in BOOLEAN
    <3>1. /\ Answer(t) \in Turns \X BOOLEAN /\ transcript \in Seq(Turns \X BOOLEAN)
          /\ thread \in BOOLEAN /\ (transcript # <<>> => thread)
      BY DEF Answer, TypeOK, DataOK
    <3>2. transcript' \in Seq(Turns \X BOOLEAN)
      <4>1. Append(transcript, Answer(t)) \in Seq(Turns \X BOOLEAN)
        BY <3>1, AppendProperties
      <4>2. QED
        BY <2>2, <3>1, <4>1
    <3>3. thread' \in BOOLEAN
      BY <2>2, <3>1
    <3>4. transcript' # <<>> => thread'
      BY <2>2, <3>1
    <3>5. QED
      BY <3>2, <3>3, <3>4
  <2>6. DataOK'
    BY <2>1, <2>2, <2>5, ChatAssumption DEF TypeOK, DataOK, Typed
  <2>7. QED
    BY <2>4, <2>6 DEF TypeOK
<1>20. ASSUME NEW t \in Turns, Fails(t)
      PROVE  TypeOK'
  <2>1. Typed' /\ \A s \in Turns : s # t => turn'[s] = turn[s]
    BY <1>20, FailsShape DEF Others, TypeOK, DataOK, Typed
  <2>2. /\ lock' = (IF lock = t THEN Nobody ELSE lock) /\ UNCHANGED <<prototypes, batches>>
        /\ UNCHANGED <<thread, transcript>>
        /\ UNCHANGED <<refs, saved, excused>>
        /\ mixed' = mixed
        /\ shared' = shared /\ toolVectors' \in BOOLEAN /\ faults' \in 0 .. MaxFaults
    BY <1>20, ChatAssumption DEF Fails, Faulty, TypeOK, DataOK, store, memory, router
  <2>3. turn'[t].at # "batch"
    BY <1>20, FailsShape DEF TypeOK, DataOK, Typed, Ends
  <2>4. LockOK'
    BY <2>1, <2>2, <2>3, ChatAssumption DEF TypeOK, DataOK, LockOK, At, Nobody, Turns, Typed
  <2>6. DataOK'
    BY <2>1, <2>2, ChatAssumption DEF TypeOK, DataOK, Typed, Nobody, Turns
  <2>7. QED
    BY <2>4, <2>6 DEF TypeOK
<1>21. ASSUME Forget
      PROVE  TypeOK'
  <2>1. Typed' /\ turn' = turn
    BY <1>21 DEF Forget, TypeOK, DataOK, Typed
  <2>2. /\ UNCHANGED <<lock, prototypes, batches>>
        /\ UNCHANGED <<thread, transcript>>
        /\ refs' = NoRefs /\ excused' = Keys /\ saved' = saved
        /\ mixed' = mixed
        /\ shared' = shared /\ toolVectors' \in BOOLEAN /\ faults' \in 0 .. MaxFaults
    BY <1>21, ChatAssumption DEF Forget, Faulty, TypeOK, DataOK, store, memory, router
  <2>3. TRUE
    OBVIOUS
  <2>4. LockOK'
    BY <2>1, <2>2, <2>3, ChatAssumption DEF TypeOK, DataOK, LockOK, At, Nobody, Turns
  <2>5. NoRefs \in [Keys -> 0 .. MaxTurns]
    BY ChatAssumption DEF NoRefs, Nobody
  <2>6. DataOK'
    BY <2>1, <2>2, <2>5, ChatAssumption DEF TypeOK, DataOK, Typed
  <2>7. QED
    BY <2>4, <2>6 DEF TypeOK
<1>22. ASSUME Restart
      PROVE  TypeOK'
  <2>1. Typed' /\ \A s \in Turns : IF s \in Busy THEN Ends(s, "lost") ELSE turn'[s] = turn[s]
    BY <1>22, RestartShape DEF TypeOK, DataOK, Typed
  <2>2. /\ lock' = Nobody /\ prototypes' = FALSE /\ batches' = 0
        /\ UNCHANGED <<thread, transcript>>
        /\ saved' = saved /\ ((refs' = refs /\ excused' = excused) \/ (refs' = NoRefs /\ excused' = Keys))
        /\ mixed' = mixed
        /\ shared' = shared /\ toolVectors' \in BOOLEAN /\ faults' \in 0 .. MaxFaults
    <3>1. lock' = Nobody /\ prototypes' = FALSE /\ batches' = 0
      BY <1>22 DEF Restart, At, store, memory, router
    <3>2. UNCHANGED <<thread, transcript>>
      BY <1>22 DEF Restart, At, store, memory, router
    <3>3. saved' = saved /\ ((refs' = refs /\ excused' = excused) \/ (refs' = NoRefs /\ excused' = Keys))
      BY <1>22 DEF Restart, At, store, memory, router
    <3>4. mixed' = mixed
      BY <1>22 DEF Restart, At, store, memory, router
    <3>25. Faulty
      BY <1>22 DEF Restart
    <3>15. faults' \in 0 .. MaxFaults
      BY <3>25, ChatAssumption DEF Faulty, TypeOK, DataOK
    <3>5. shared' = shared /\ toolVectors' \in BOOLEAN /\ faults' \in 0 .. MaxFaults
      BY <1>22, <3>15 DEF Restart, Faulty, TypeOK, DataOK
    <3>6. QED
      BY <3>1, <3>2, <3>3, <3>4, <3>5
  <2>3. \A s \in Turns : turn'[s].at # "batch"
    BY <2>1 DEF Ends, Busy, Over
  <2>4. LockOK'
    BY <2>1, <2>2, <2>3, ChatAssumption DEF TypeOK, DataOK, LockOK, At, Nobody, Turns, Typed
  <2>5. NoRefs \in [Keys -> 0 .. MaxTurns]
    BY ChatAssumption DEF NoRefs, Nobody
  <2>8. refs' \in [Keys -> 0 .. MaxTurns] /\ excused' \subseteq Keys
    BY <2>2, <2>5 DEF TypeOK, DataOK
  <2>9. lock' \in 0 .. MaxTurns /\ batches' \in Nat /\ prototypes' \in BOOLEAN
    <3>1. lock' = 0 /\ batches' = 0 /\ prototypes' = FALSE
      BY <2>2 DEF Nobody
    <3>2. prototypes' \in BOOLEAN
      BY <3>1, Zenon
    <3>3. lock' \in 0 .. MaxTurns /\ batches' \in Nat
      BY <3>1, ChatAssumption
    <3>4. QED
      BY <3>2, <3>3
  <2>10. turn' \in [Turns -> TurnType]
    BY <2>1 DEF Typed
  <2>6. DataOK'
    BY <2>2, <2>8, <2>9, <2>10, ChatAssumption DEF TypeOK, DataOK
  <2>7. QED
    BY <2>4, <2>6 DEF TypeOK
<1>23. QED
  BY <1>1, <1>2, <1>3, <1>4, <1>5, <1>6, <1>7, <1>8, <1>9, <1>10, <1>11, <1>12,
     <1>13, <1>14, <1>15, <1>16, <1>17, <1>18, <1>19, <1>20, <1>21, <1>22 DEF
     Next, Step

LEMMA TypeInit == Init => TypeOK
<1> SUFFICES ASSUME Init PROVE TypeOK
  OBVIOUS
<1>1. NoRefs \in [Keys -> 0 .. MaxTurns] /\ <<>> \in Seq(Turns \X BOOLEAN)
  BY ChatAssumption DEF NoRefs, Nobody
<1>2. turn \in [Turns -> TurnType] /\ \A t \in Turns : turn[t].at = "new"
  BY FreshTyped DEF Init, Fresh
<1>3. DataOK
  <2>1. thread \in BOOLEAN /\ shared \in BOOLEAN /\ prototypes \in BOOLEAN /\ toolVectors \in BOOLEAN
    BY Zenon DEF Init
  <2>2. /\ transcript \in Seq(Turns \X BOOLEAN) /\ (transcript # <<>> => thread)
        /\ refs \in [Keys -> 0 .. MaxTurns] /\ saved \in [Keys -> 0 .. MaxTurns]
    BY <1>1 DEF Init
  <2>3. /\ lock \in 0 .. MaxTurns /\ faults \in 0 .. MaxFaults
        /\ mixed \subseteq Turns /\ excused \subseteq Keys /\ batches \in Nat
    BY ChatAssumption DEF Init, Nobody
  <2>4. QED
    BY <1>2, <2>1, <2>2, <2>3 DEF DataOK
<1>4. LockOK
  BY <1>2 DEF Init, LockOK, At, Nobody, Turns
<1>5. QED
  BY <1>3, <1>4 DEF TypeOK

(* Turns, transcript and references stay in their sets in every behaviour, *)
(* and the lock is held by the one request whose batch is under way.       *)
THEOREM TypeCorrect == Spec => []TypeOK
<1>1. Init => TypeOK
  BY TypeInit
<1>2. TypeOK /\ [Next]_vars => TypeOK'
  BY TypeStep
<1>3. QED
  BY <1>1, <1>2, PTL DEF Spec

-----------------------------------------------------------------------------
(* The prototypes.                                                         *)

Once == batches = IF prototypes THEN 1 ELSE 0

(* A batch is only begun while there are no prototypes.                    *)
LEMMA OnceStep ==
  ASSUME TypeOK, Once, [Next]_vars PROVE Once'
<1>1. CASE UNCHANGED vars
  BY <1>1 DEF vars, store, memory, router, Once
<1>2. ASSUME NEW t \in Turns, NEW m \in Texts, NEW r0 \in Roles, Arrive(t, m,
            r0)
      PROVE  Once'
  <2>1. /\ Typed' /\ \A s \in Turns : s # t => turn'[s] = turn[s]
        /\ turn[t] \in TurnType
    BY <1>2, ArriveShape DEF Others, TypeOK, DataOK, Typed
  <2>2. /\ UNCHANGED <<lock, prototypes, batches>>
    BY <1>2, ChatAssumption DEF Arrive, Typed, TypeOK, DataOK, store, memory, router
  <2>3. QED
    BY <1>2, ArriveShape, <2>1, <2>2 DEF Once, TypeOK, DataOK, LockOK, At, Turns, Nobody
<1>3. ASSUME NEW t \in Turns, FindPrototypes(t)
      PROVE  Once'
  <2>1. /\ Typed' /\ \A s \in Turns : s # t => turn'[s] = turn[s]
        /\ turn[t] \in TurnType
    BY <1>3, FindPrototypesActs DEF Others, TypeOK, DataOK, Typed
  <2>2. /\ UNCHANGED <<lock, prototypes, batches>>
    BY <1>3, ChatAssumption DEF FindPrototypes, Typed, TypeOK, DataOK, store, memory, router
  <2>3. QED
    BY <1>3, FindPrototypesActs, <2>1, <2>2 DEF Once, TypeOK, DataOK, LockOK, At, Turns, Nobody, Keeps
<1>4. ASSUME NEW t \in Turns, TakeLock(t)
      PROVE  Once'
  <2>1. /\ Typed' /\ \A s \in Turns : s # t => turn'[s] = turn[s]
        /\ turn[t] \in TurnType
    BY <1>4, TakeLockActs DEF Others, TypeOK, DataOK, Typed
  <2>2. /\ lock = Nobody /\ lock' = (IF prototypes THEN Nobody ELSE t) /\ UNCHANGED <<prototypes, batches>>
    BY <1>4, ChatAssumption DEF TakeLock, Typed, TypeOK, DataOK, store, memory, router
  <2>3. QED
    BY <1>4, TakeLockActs, <2>1, <2>2 DEF Once, TypeOK, DataOK, LockOK, At, Turns, Nobody, Keeps
<1>5. ASSUME NEW t \in Turns, BatchLoaded(t)
      PROVE  Once'
  <2>1. /\ Typed' /\ \A s \in Turns : s # t => turn'[s] = turn[s]
        /\ turn[t] \in TurnType
    BY <1>5, BatchLoadedActs DEF Others, TypeOK, DataOK, Typed
  <2>2. /\ lock' = Nobody /\ prototypes' = TRUE /\ batches' = batches + 1
    BY <1>5, ChatAssumption DEF BatchLoaded, Typed, TypeOK, DataOK, store, memory, router
  <2>3. QED
    BY <1>5, BatchLoadedActs, <2>1, <2>2 DEF Once, TypeOK, DataOK, LockOK, At, Turns, Nobody, Keeps
<1>6. ASSUME NEW t \in Turns, Route(t)
      PROVE  Once'
  <2>1. /\ Typed' /\ \A s \in Turns : s # t => turn'[s] = turn[s]
        /\ turn[t] \in TurnType
    BY <1>6, RouteActs DEF Others, TypeOK, DataOK, Typed
  <2>2. /\ UNCHANGED <<lock, prototypes, batches>>
    BY <1>6, ChatAssumption DEF Route, Typed, TypeOK, DataOK, store, memory, router
  <2>3. QED
    BY <1>6, RouteActs, <2>1, <2>2 DEF Once, TypeOK, DataOK, LockOK, At, Turns, Nobody, Keeps
<1>7. ASSUME NEW t \in Turns, HistoryLoad(t)
      PROVE  Once'
  <2>1. /\ Typed' /\ \A s \in Turns : s # t => turn'[s] = turn[s]
        /\ turn[t] \in TurnType
    BY <1>7, HistoryLoadActs DEF Others, TypeOK, DataOK, Typed
  <2>2. /\ UNCHANGED <<lock, prototypes, batches>>
    BY <1>7, ChatAssumption DEF HistoryLoad, Works, Faulty, TypeOK, DataOK, store, memory, router
  <2>3. QED
    BY <1>7, HistoryLoadActs, <2>1, <2>2 DEF Once, TypeOK, DataOK, LockOK, At, Turns, Nobody
<1>8. ASSUME NEW t \in Turns, AskSave(t)
      PROVE  Once'
  <2>1. /\ Typed' /\ \A s \in Turns : s # t => turn'[s] = turn[s]
        /\ turn[t] \in TurnType
    BY <1>8, AskSaveActs DEF Others, TypeOK, DataOK, Typed
  <2>2. /\ UNCHANGED <<lock, prototypes, batches>>
    BY <1>8, ChatAssumption DEF AskSave, Works, Faulty, TypeOK, DataOK, store, memory, router
  <2>3. QED
    BY <1>8, AskSaveActs, <2>1, <2>2 DEF Once, TypeOK, DataOK, LockOK, At, Turns, Nobody, Keeps
<1>9. ASSUME NEW t \in Turns, RefsLoad(t)
      PROVE  Once'
  <2>1. /\ Typed' /\ \A s \in Turns : s # t => turn'[s] = turn[s]
        /\ turn[t] \in TurnType
    BY <1>9, RefsLoadActs DEF Others, TypeOK, DataOK, Typed
  <2>2. /\ UNCHANGED <<lock, prototypes, batches>>
    BY <1>9, ChatAssumption DEF RefsLoad, Typed, TypeOK, DataOK, store, memory, router
  <2>3. QED
    BY <1>9, RefsLoadActs, <2>1, <2>2 DEF Once, TypeOK, DataOK, LockOK, At, Turns, Nobody
<1>10. ASSUME NEW t \in Turns, Listen(t)
      PROVE  Once'
  <2>1. /\ Typed' /\ \A s \in Turns : s # t => turn'[s] = turn[s]
        /\ turn[t] \in TurnType
    BY <1>10, ListenActs DEF Others, TypeOK, DataOK, Typed
  <2>2. /\ UNCHANGED <<lock, prototypes, batches>>
    BY <1>10, ChatAssumption DEF Listen, Typed, TypeOK, DataOK, store, memory, router
  <2>3. QED
    BY <1>10, ListenActs, <2>1, <2>2 DEF Once, TypeOK, DataOK, LockOK, At, Turns, Nobody, Keeps
<1>11. ASSUME NEW t \in Turns, Rank(t)
      PROVE  Once'
  <2>1. /\ Typed' /\ \A s \in Turns : s # t => turn'[s] = turn[s]
        /\ turn[t] \in TurnType
    BY <1>11, RankActs DEF Others, TypeOK, DataOK, Typed
  <2>2. /\ UNCHANGED <<lock, prototypes, batches>>
    BY <1>11, ChatAssumption DEF Rank, Typed, TypeOK, DataOK, store, memory, router
  <2>3. QED
    BY <1>11, RankActs, <2>1, <2>2 DEF Once, TypeOK, DataOK, LockOK, At, Turns, Nobody, Keeps
<1>12. ASSUME NEW t \in Turns, FastSearch(t)
      PROVE  Once'
  <2>1. /\ Typed' /\ \A s \in Turns : s # t => turn'[s] = turn[s]
        /\ turn[t] \in TurnType
    BY <1>12, FastSearchActs DEF Others, TypeOK, DataOK, Typed
  <2>2. /\ UNCHANGED <<lock, prototypes, batches>>
    BY <1>12, ChatAssumption DEF FastSearch, Typed, TypeOK, DataOK, store, memory, router
  <2>3. QED
    BY <1>12, FastSearchActs, <2>1, <2>2 DEF Once, TypeOK, DataOK, LockOK, At, Turns, Nobody, Quiet, Carries
<1>13. ASSUME NEW t \in Turns, ModelTalks(t)
      PROVE  Once'
  <2>1. /\ Typed' /\ \A s \in Turns : s # t => turn'[s] = turn[s]
        /\ turn[t] \in TurnType
    BY <1>13, ModelTalksActs DEF Others, TypeOK, DataOK, Typed
  <2>2. /\ UNCHANGED <<lock, prototypes, batches>>
    BY <1>13, ChatAssumption DEF ModelTalks, Typed, TypeOK, DataOK, store, memory, router
  <2>3. QED
    BY <1>13, ModelTalksActs, <2>1, <2>2 DEF Once, TypeOK, DataOK, LockOK, At, Turns, Nobody, Quiet, Carries
<1>14. ASSUME NEW t \in Turns, NEW c \in Calls, NEW recovered \in BOOLEAN,
            ModelCalls(t, c, recovered)
      PROVE  Once'
  <2>1. /\ Typed' /\ \A s \in Turns : s # t => turn'[s] = turn[s]
        /\ turn[t] \in TurnType
    BY <1>14, ModelCallsActs DEF Others, TypeOK, DataOK, Typed
  <2>2. /\ UNCHANGED <<lock, prototypes, batches>>
    BY <1>14, ChatAssumption DEF ModelCalls, Typed, TypeOK, DataOK, store, memory, router
  <2>3. QED
    BY <1>14, ModelCallsActs, <2>1, <2>2 DEF Once, TypeOK, DataOK, LockOK, At, Turns, Nobody, Quiet, Carries
<1>15. ASSUME NEW t \in Turns, ToolRun(t)
      PROVE  Once'
  <2>1. /\ Typed' /\ \A s \in Turns : s # t => turn'[s] = turn[s]
        /\ turn[t] \in TurnType
    BY <1>15, ToolRunActs DEF Others, TypeOK, DataOK, Typed
  <2>2. /\ UNCHANGED <<lock, prototypes, batches>>
    BY <1>15, ChatAssumption DEF ToolRun, Typed, TypeOK, DataOK, store, memory, router
  <2>3. QED
    BY <1>15, ToolRunActs, <2>1, <2>2 DEF Once, TypeOK, DataOK, LockOK, At, Turns, Nobody, Carries
<1>16. ASSUME NEW t \in Turns, ToolRefuses(t)
      PROVE  Once'
  <2>1. /\ Typed' /\ \A s \in Turns : s # t => turn'[s] = turn[s]
        /\ turn[t] \in TurnType
    BY <1>16, ToolRefusesActs DEF Others, TypeOK, DataOK, Typed
  <2>2. /\ UNCHANGED <<lock, prototypes, batches>>
    BY <1>16, ChatAssumption DEF ToolRefuses, Typed, TypeOK, DataOK, store, memory, router
  <2>3. QED
    BY <1>16, ToolRefusesActs, <2>1, <2>2 DEF Once, TypeOK, DataOK, LockOK, At, Turns, Nobody, Quiet, Carries, Keeps
<1>17. ASSUME NEW t \in Turns, FinalCall(t)
      PROVE  Once'
  <2>1. /\ Typed' /\ \A s \in Turns : s # t => turn'[s] = turn[s]
        /\ turn[t] \in TurnType
    BY <1>17, FinalCallActs DEF Others, TypeOK, DataOK, Typed
  <2>2. /\ UNCHANGED <<lock, prototypes, batches>>
    BY <1>17, ChatAssumption DEF FinalCall, Typed, TypeOK, DataOK, store, memory, router
  <2>3. QED
    BY <1>17, FinalCallActs, <2>1, <2>2 DEF Once, TypeOK, DataOK, LockOK, At, Turns, Nobody, Carries, Tells
<1>18. ASSUME NEW t \in Turns, RefsSave(t)
      PROVE  Once'
  <2>1. /\ Typed' /\ \A s \in Turns : s # t => turn'[s] = turn[s]
        /\ turn[t] \in TurnType
    BY <1>18, RefsSaveShape DEF Others, TypeOK, DataOK, Typed
  <2>2. /\ UNCHANGED <<lock, prototypes, batches>>
    BY <1>18, ChatAssumption DEF RefsSave, Typed, TypeOK, DataOK, store, memory, router
  <2>3. QED
    BY <1>18, RefsSaveShape, <2>1, <2>2 DEF Once, TypeOK, DataOK, LockOK, At, Turns, Nobody
<1>19. ASSUME NEW t \in Turns, ReplySave(t)
      PROVE  Once'
  <2>1. /\ Typed' /\ \A s \in Turns : s # t => turn'[s] = turn[s]
        /\ turn[t] \in TurnType
    BY <1>19, ReplySaveShape DEF Others, TypeOK, DataOK, Typed
  <2>2. /\ UNCHANGED <<lock, prototypes, batches>>
    BY <1>19, ChatAssumption DEF ReplySave, Works, Faulty, TypeOK, DataOK, store, memory, router
  <2>3. QED
    BY <1>19, ReplySaveShape, <2>1, <2>2 DEF Once, TypeOK, DataOK, LockOK, At, Turns, Nobody
<1>20. ASSUME NEW t \in Turns, Fails(t)
      PROVE  Once'
  <2>1. /\ Typed' /\ \A s \in Turns : s # t => turn'[s] = turn[s]
        /\ turn[t] \in TurnType
    BY <1>20, FailsShape DEF Others, TypeOK, DataOK, Typed
  <2>2. /\ lock' = (IF lock = t THEN Nobody ELSE lock) /\ UNCHANGED <<prototypes, batches>>
    BY <1>20, ChatAssumption DEF Fails, Faulty, TypeOK, DataOK, store, memory, router
  <2>3. QED
    BY <1>20, FailsShape, <2>1, <2>2 DEF Once, TypeOK, DataOK, LockOK, At, Turns, Nobody, Ends
<1>21. ASSUME Forget
      PROVE  Once'
  <2>1. turn' = turn
    BY <1>21 DEF Forget
  <2>2. /\ UNCHANGED <<lock, prototypes, batches>>
    BY <1>21, ChatAssumption DEF Forget, Faulty, TypeOK, DataOK, store, memory, router
  <2>3. QED
    BY <2>1, <2>2 DEF Once, TypeOK, DataOK, LockOK, At, Turns, Nobody
<1>22. ASSUME Restart
      PROVE  Once'
  <2>1. Typed' /\ \A s \in Turns : IF s \in Busy THEN Ends(s, "lost") ELSE turn'[s] = turn[s]
    BY <1>22, RestartShape DEF TypeOK, DataOK, Typed
  <2>2. /\ lock' = Nobody /\ prototypes' = FALSE /\ batches' = 0
    BY <1>22, ChatAssumption DEF Restart, Faulty, TypeOK, DataOK, store, memory, router
  <2>3. QED
    BY <2>1, <2>2 DEF Once, TypeOK, DataOK, LockOK, At, Turns, Nobody, Ends, Busy, Over
<1>23. QED
  BY <1>1, <1>2, <1>3, <1>4, <1>5, <1>6, <1>7, <1>8, <1>9, <1>10, <1>11, <1>12,
     <1>13, <1>14, <1>15, <1>16, <1>17, <1>18, <1>19, <1>20, <1>21, <1>22 DEF
     Next, Step

(* However many first requests arrive together, the prototype embeddings   *)
(* are loaded once in the life of the process (_prototype_lock).           *)
THEOREM PrototypesLoadedOnce == Spec => []PrototypesOnce
<1>1. Init => Once
  BY DEF Init, Once
<1>2. TypeOK /\ Once /\ [Next]_vars => Once'
  BY OnceStep
<1>3. TypeOK /\ Once => PrototypesOnce
  BY DEF Once, PrototypesOnce
<1>4. QED
  BY <1>1, <1>2, <1>3, TypeCorrect, PTL DEF Spec

-----------------------------------------------------------------------------
(* What a turn has written.                                                *)

(* The call a turn is about to make names no date but the user's; once it  *)
(* has written, it holds its message and its call until it ends.           *)
Wrote(r) ==
  /\ r.at = "tool" => (r.call.date => r.says.dated) /\ (r.call.tool = "apply" => r.call.date)
  /\ r.wrote => r.at \in {"final", "save", "reply", "done", "failed", "lost"}
  /\ r.wrote /\ r.call.tool \in Dated => r.says.dated
  /\ r.wrote /\ r.call.tool \in WRITE_TOOLS =>
       /\ r.at # "final"
       /\ r.at = "save" => r.call.tool = "pay"
       /\ r.at = "failed" => shared /\ r.call.tool = "pay"

Written == \A t \in Turns : Wrote(turn[t])

(* A step writes only with a date the user named, and then tells it.       *)
LEMMA WrittenStep ==
  ASSUME TypeOK, Written, [Next]_vars PROVE Written'
<1>1. CASE UNCHANGED vars
  BY <1>1 DEF vars, store, memory, router, Written, Wrote
<1>2. ASSUME NEW t \in Turns, NEW m \in Texts, NEW r0 \in Roles, Arrive(t, m,
            r0)
      PROVE  Written'
  <2>1. \A s \in Turns : s # t => turn'[s] = turn[s]
    BY <1>2, ArriveShape DEF Others, TypeOK, DataOK, Typed
  <2>2. shared' = shared
    BY <1>2 DEF Arrive, store, memory, router
  <2>3. Wrote(turn[t])
    BY DEF Written
  <2>4. Wrote(turn[t])'
    BY <1>2, ArriveShape, <2>2, <2>3 DEF Wrote, WRITE_TOOLS, Dated, TypeOK, DataOK, Typed
  <2>5. ASSUME NEW s \in Turns, s # t PROVE Wrote(turn[s])'
    BY <2>1, <2>2, <2>5 DEF Written, Wrote
  <2>6. QED
    BY <2>4, <2>5 DEF Written
<1>3. ASSUME NEW t \in Turns, FindPrototypes(t)
      PROVE  Written'
  <2>1. \A s \in Turns : s # t => turn'[s] = turn[s]
    BY <1>3, FindPrototypesActs DEF Others, TypeOK, DataOK, Typed
  <2>2. shared' = shared
    BY <1>3 DEF FindPrototypes, store, memory, router
  <2>3. Wrote(turn[t])
    BY DEF Written
  <2>4. Wrote(turn[t])'
    BY <1>3, FindPrototypesActs, <2>2, <2>3 DEF Wrote, WRITE_TOOLS, Dated, TypeOK, DataOK, Typed, Keeps
  <2>5. ASSUME NEW s \in Turns, s # t PROVE Wrote(turn[s])'
    BY <2>1, <2>2, <2>5 DEF Written, Wrote
  <2>6. QED
    BY <2>4, <2>5 DEF Written
<1>4. ASSUME NEW t \in Turns, TakeLock(t)
      PROVE  Written'
  <2>1. \A s \in Turns : s # t => turn'[s] = turn[s]
    BY <1>4, TakeLockActs DEF Others, TypeOK, DataOK, Typed
  <2>2. shared' = shared
    BY <1>4 DEF TakeLock, store, memory, router
  <2>3. Wrote(turn[t])
    BY DEF Written
  <2>4. Wrote(turn[t])'
    BY <1>4, TakeLockActs, <2>2, <2>3 DEF Wrote, WRITE_TOOLS, Dated, TypeOK, DataOK, Typed, Keeps
  <2>5. ASSUME NEW s \in Turns, s # t PROVE Wrote(turn[s])'
    BY <2>1, <2>2, <2>5 DEF Written, Wrote
  <2>6. QED
    BY <2>4, <2>5 DEF Written
<1>5. ASSUME NEW t \in Turns, BatchLoaded(t)
      PROVE  Written'
  <2>1. \A s \in Turns : s # t => turn'[s] = turn[s]
    BY <1>5, BatchLoadedActs DEF Others, TypeOK, DataOK, Typed
  <2>2. shared' = shared
    BY <1>5 DEF BatchLoaded, store, memory, router
  <2>3. Wrote(turn[t])
    BY DEF Written
  <2>4. Wrote(turn[t])'
    BY <1>5, BatchLoadedActs, <2>2, <2>3 DEF Wrote, WRITE_TOOLS, Dated, TypeOK, DataOK, Typed, Keeps
  <2>5. ASSUME NEW s \in Turns, s # t PROVE Wrote(turn[s])'
    BY <2>1, <2>2, <2>5 DEF Written, Wrote
  <2>6. QED
    BY <2>4, <2>5 DEF Written
<1>6. ASSUME NEW t \in Turns, Route(t)
      PROVE  Written'
  <2>1. \A s \in Turns : s # t => turn'[s] = turn[s]
    BY <1>6, RouteActs DEF Others, TypeOK, DataOK, Typed
  <2>2. shared' = shared
    BY <1>6 DEF Route, store, memory, router
  <2>3. Wrote(turn[t])
    BY DEF Written
  <2>4. Wrote(turn[t])'
    BY <1>6, RouteActs, <2>2, <2>3 DEF Wrote, WRITE_TOOLS, Dated, TypeOK, DataOK, Typed, Keeps
  <2>5. ASSUME NEW s \in Turns, s # t PROVE Wrote(turn[s])'
    BY <2>1, <2>2, <2>5 DEF Written, Wrote
  <2>6. QED
    BY <2>4, <2>5 DEF Written
<1>7. ASSUME NEW t \in Turns, HistoryLoad(t)
      PROVE  Written'
  <2>1. \A s \in Turns : s # t => turn'[s] = turn[s]
    BY <1>7, HistoryLoadActs DEF Others, TypeOK, DataOK, Typed
  <2>2. shared' = shared
    BY <1>7 DEF HistoryLoad, store, memory, router
  <2>3. Wrote(turn[t])
    BY DEF Written
  <2>4. Wrote(turn[t])'
    BY <1>7, HistoryLoadActs, <2>2, <2>3 DEF Wrote, WRITE_TOOLS, Dated, TypeOK, DataOK, Typed
  <2>5. ASSUME NEW s \in Turns, s # t PROVE Wrote(turn[s])'
    BY <2>1, <2>2, <2>5 DEF Written, Wrote
  <2>6. QED
    BY <2>4, <2>5 DEF Written
<1>8. ASSUME NEW t \in Turns, AskSave(t)
      PROVE  Written'
  <2>1. \A s \in Turns : s # t => turn'[s] = turn[s]
    BY <1>8, AskSaveActs DEF Others, TypeOK, DataOK, Typed
  <2>2. shared' = shared
    BY <1>8 DEF AskSave, store, memory, router
  <2>3. Wrote(turn[t])
    BY DEF Written
  <2>4. Wrote(turn[t])'
    BY <1>8, AskSaveActs, <2>2, <2>3 DEF Wrote, WRITE_TOOLS, Dated, TypeOK, DataOK, Typed, Keeps
  <2>5. ASSUME NEW s \in Turns, s # t PROVE Wrote(turn[s])'
    BY <2>1, <2>2, <2>5 DEF Written, Wrote
  <2>6. QED
    BY <2>4, <2>5 DEF Written
<1>9. ASSUME NEW t \in Turns, RefsLoad(t)
      PROVE  Written'
  <2>1. \A s \in Turns : s # t => turn'[s] = turn[s]
    BY <1>9, RefsLoadActs DEF Others, TypeOK, DataOK, Typed
  <2>2. shared' = shared
    BY <1>9 DEF RefsLoad, store, memory, router
  <2>3. Wrote(turn[t])
    BY DEF Written
  <2>4. Wrote(turn[t])'
    BY <1>9, RefsLoadActs, <2>2, <2>3 DEF Wrote, WRITE_TOOLS, Dated, TypeOK, DataOK, Typed
  <2>5. ASSUME NEW s \in Turns, s # t PROVE Wrote(turn[s])'
    BY <2>1, <2>2, <2>5 DEF Written, Wrote
  <2>6. QED
    BY <2>4, <2>5 DEF Written
<1>10. ASSUME NEW t \in Turns, Listen(t)
      PROVE  Written'
  <2>1. \A s \in Turns : s # t => turn'[s] = turn[s]
    BY <1>10, ListenActs DEF Others, TypeOK, DataOK, Typed
  <2>2. shared' = shared
    BY <1>10 DEF Listen, store, memory, router
  <2>3. Wrote(turn[t])
    BY DEF Written
  <2>4. Wrote(turn[t])'
    BY <1>10, ListenActs, <2>2, <2>3 DEF Wrote, WRITE_TOOLS, Dated, TypeOK, DataOK, Typed, Keeps
  <2>5. ASSUME NEW s \in Turns, s # t PROVE Wrote(turn[s])'
    BY <2>1, <2>2, <2>5 DEF Written, Wrote
  <2>6. QED
    BY <2>4, <2>5 DEF Written
<1>11. ASSUME NEW t \in Turns, Rank(t)
      PROVE  Written'
  <2>1. \A s \in Turns : s # t => turn'[s] = turn[s]
    BY <1>11, RankActs DEF Others, TypeOK, DataOK, Typed
  <2>2. shared' = shared
    BY <1>11 DEF Rank, store, memory, router
  <2>3. Wrote(turn[t])
    BY DEF Written
  <2>4. Wrote(turn[t])'
    BY <1>11, RankActs, <2>2, <2>3 DEF Wrote, WRITE_TOOLS, Dated, TypeOK, DataOK, Typed, Keeps
  <2>5. ASSUME NEW s \in Turns, s # t PROVE Wrote(turn[s])'
    BY <2>1, <2>2, <2>5 DEF Written, Wrote
  <2>6. QED
    BY <2>4, <2>5 DEF Written
<1>12. ASSUME NEW t \in Turns, FastSearch(t)
      PROVE  Written'
  <2>1. \A s \in Turns : s # t => turn'[s] = turn[s]
    BY <1>12, FastSearchActs DEF Others, TypeOK, DataOK, Typed
  <2>2. shared' = shared
    BY <1>12 DEF FastSearch, store, memory, router
  <2>3. Wrote(turn[t])
    BY DEF Written
  <2>4. Wrote(turn[t])'
    BY <1>12, FastSearchActs, <2>2, <2>3 DEF Wrote, WRITE_TOOLS, Dated, TypeOK, DataOK, Typed, Quiet, Carries
  <2>5. ASSUME NEW s \in Turns, s # t PROVE Wrote(turn[s])'
    BY <2>1, <2>2, <2>5 DEF Written, Wrote
  <2>6. QED
    BY <2>4, <2>5 DEF Written
<1>13. ASSUME NEW t \in Turns, ModelTalks(t)
      PROVE  Written'
  <2>1. \A s \in Turns : s # t => turn'[s] = turn[s]
    BY <1>13, ModelTalksActs DEF Others, TypeOK, DataOK, Typed
  <2>2. shared' = shared
    BY <1>13 DEF ModelTalks, store, memory, router
  <2>3. Wrote(turn[t])
    BY DEF Written
  <2>4. Wrote(turn[t])'
    BY <1>13, ModelTalksActs, <2>2, <2>3 DEF Wrote, WRITE_TOOLS, Dated, TypeOK, DataOK, Typed, Quiet, Carries
  <2>5. ASSUME NEW s \in Turns, s # t PROVE Wrote(turn[s])'
    BY <2>1, <2>2, <2>5 DEF Written, Wrote
  <2>6. QED
    BY <2>4, <2>5 DEF Written
<1>14. ASSUME NEW t \in Turns, NEW c \in Calls, NEW recovered \in BOOLEAN,
            ModelCalls(t, c, recovered)
      PROVE  Written'
  <2>1. \A s \in Turns : s # t => turn'[s] = turn[s]
    BY <1>14, ModelCallsActs DEF Others, TypeOK, DataOK, Typed
  <2>2. shared' = shared
    BY <1>14 DEF ModelCalls, store, memory, router
  <2>3. Wrote(turn[t])
    BY DEF Written
  <2>4. Wrote(turn[t])'
    BY <1>14, ModelCallsActs, <2>2, <2>3, ZenonT(60) DEF Missing, Grounded, Wrote, WRITE_TOOLS, Dated, TypeOK, DataOK, Typed, Quiet, Carries
  <2>5. ASSUME NEW s \in Turns, s # t PROVE Wrote(turn[s])'
    BY <2>1, <2>2, <2>5 DEF Written, Wrote
  <2>6. QED
    BY <2>4, <2>5 DEF Written
<1>15. ASSUME NEW t \in Turns, ToolRun(t)
      PROVE  Written'
  <2>1. \A s \in Turns : s # t => turn'[s] = turn[s]
    BY <1>15, ToolRunActs DEF Others, TypeOK, DataOK, Typed
  <2>2. shared' = shared
    BY <1>15 DEF ToolRun, store, memory, router
  <2>3. Wrote(turn[t])
    BY DEF Written
  <2>4. Wrote(turn[t])'
    <3>1. PICK c \in Calls : c = turn[t].call /\ turn[t].at = "tool"
      BY <1>15 DEF ToolRun, At, TypeOK, DataOK, TurnType
    <3>2. (c.date => turn[t].says.dated) /\ (c.tool = "apply" => c.date)
      BY <2>3, <3>1 DEF Wrote
    <3>3. CASE c.tool \in WRITE_TOOLS
      <4>1. PICK ok \in BOOLEAN :
              /\ turn'[t].at = IF ok /\ Found(c) # {} THEN "save" ELSE "reply"
              /\ turn'[t].wrote = (ok /\ Effective(c))
              /\ turn'[t].wrote => turn'[t].says = turn[t].says /\ turn'[t].call = c
        BY <1>15, <3>1, <3>3, ToolRunActs
      <4>2. turn'[t].at \in {"save", "reply"}
        BY <4>1
      <4>3. ASSUME turn'[t].wrote
            PROVE  /\ turn'[t].call = c /\ turn'[t].says = turn[t].says
                   /\ ok /\ Effective(c)
        BY <4>1, <4>3
      <4>4. ASSUME turn'[t].wrote, c.tool \in Dated PROVE turn[t].says.dated
        BY <3>2, <4>3, <4>4 DEF Effective, Dated
      <4>5. ASSUME turn'[t].wrote, c.tool # "pay" PROVE turn'[t].at # "save"
        <5>1. c.tool = "book" /\ c.date
          BY <3>3, <4>3, <4>5 DEF WRITE_TOOLS, Effective
        <5>2. Found(c) = {}
          BY <5>1 DEF Found
        <5>3. QED
          BY <4>1, <5>2
      <4>6. QED
        BY <4>2, <4>3, <4>4, <4>5 DEF Wrote
    <3>4. CASE c.tool \notin WRITE_TOOLS
      <4>1. PICK ok \in BOOLEAN :
              /\ turn'[t].at = "final" /\ turn'[t].wrote = (ok /\ Effective(c))
              /\ turn'[t].says = turn[t].says /\ turn'[t].call = c
        BY <1>15, <3>1, <3>4, ToolRunActs
      <4>2. ASSUME turn'[t].wrote, c.tool \in Dated PROVE turn[t].says.dated
        <5>1. Effective(c)
          BY <4>1, <4>2
        <5>2. QED
          BY <3>2, <4>2, <5>1 DEF Effective, Dated
      <4>3. QED
        BY <3>4, <4>1, <4>2 DEF Wrote
    <3>5. QED
      BY <3>3, <3>4
  <2>5. ASSUME NEW s \in Turns, s # t PROVE Wrote(turn[s])'
    BY <2>1, <2>2, <2>5 DEF Written, Wrote
  <2>6. QED
    BY <2>4, <2>5 DEF Written
<1>16. ASSUME NEW t \in Turns, ToolRefuses(t)
      PROVE  Written'
  <2>1. \A s \in Turns : s # t => turn'[s] = turn[s]
    BY <1>16, ToolRefusesActs DEF Others, TypeOK, DataOK, Typed
  <2>2. shared' = shared
    BY <1>16 DEF ToolRefuses, store, memory, router
  <2>3. Wrote(turn[t])
    BY DEF Written
  <2>4. Wrote(turn[t])'
    BY <1>16, ToolRefusesActs, <2>2, <2>3 DEF Wrote, WRITE_TOOLS, Dated, TypeOK, DataOK, Typed, Quiet, Carries, Keeps
  <2>5. ASSUME NEW s \in Turns, s # t PROVE Wrote(turn[s])'
    BY <2>1, <2>2, <2>5 DEF Written, Wrote
  <2>6. QED
    BY <2>4, <2>5 DEF Written
<1>17. ASSUME NEW t \in Turns, FinalCall(t)
      PROVE  Written'
  <2>1. \A s \in Turns : s # t => turn'[s] = turn[s]
    BY <1>17, FinalCallActs DEF Others, TypeOK, DataOK, Typed
  <2>2. shared' = shared
    BY <1>17 DEF FinalCall, store, memory, router
  <2>3. Wrote(turn[t])
    BY DEF Written
  <2>4. Wrote(turn[t])'
    BY <1>17, FinalCallActs, <2>2, <2>3 DEF Wrote, WRITE_TOOLS, Dated, TypeOK, DataOK, Typed, Carries, Tells
  <2>5. ASSUME NEW s \in Turns, s # t PROVE Wrote(turn[s])'
    BY <2>1, <2>2, <2>5 DEF Written, Wrote
  <2>6. QED
    BY <2>4, <2>5 DEF Written
<1>18. ASSUME NEW t \in Turns, RefsSave(t)
      PROVE  Written'
  <2>1. \A s \in Turns : s # t => turn'[s] = turn[s]
    BY <1>18, RefsSaveShape DEF Others, TypeOK, DataOK, Typed
  <2>2. shared' = shared
    BY <1>18 DEF RefsSave, store, memory, router
  <2>3. Wrote(turn[t])
    BY DEF Written
  <2>4. Wrote(turn[t])'
    BY <1>18, RefsSaveShape, <2>2, <2>3 DEF Wrote, WRITE_TOOLS, Dated, TypeOK, DataOK, Typed
  <2>5. ASSUME NEW s \in Turns, s # t PROVE Wrote(turn[s])'
    BY <2>1, <2>2, <2>5 DEF Written, Wrote
  <2>6. QED
    BY <2>4, <2>5 DEF Written
<1>19. ASSUME NEW t \in Turns, ReplySave(t)
      PROVE  Written'
  <2>1. \A s \in Turns : s # t => turn'[s] = turn[s]
    BY <1>19, ReplySaveShape DEF Others, TypeOK, DataOK, Typed
  <2>2. shared' = shared
    BY <1>19 DEF ReplySave, store, memory, router
  <2>3. Wrote(turn[t])
    BY DEF Written
  <2>4. Wrote(turn[t])'
    BY <1>19, ReplySaveShape, <2>2, <2>3 DEF Wrote, WRITE_TOOLS, Dated, TypeOK, DataOK, Typed
  <2>5. ASSUME NEW s \in Turns, s # t PROVE Wrote(turn[s])'
    BY <2>1, <2>2, <2>5 DEF Written, Wrote
  <2>6. QED
    BY <2>4, <2>5 DEF Written
<1>20. ASSUME NEW t \in Turns, Fails(t)
      PROVE  Written'
  <2>1. \A s \in Turns : s # t => turn'[s] = turn[s]
    BY <1>20, FailsShape DEF Others, TypeOK, DataOK, Typed
  <2>2. shared' = shared
    BY <1>20 DEF Fails, store, memory, router
  <2>3. Wrote(turn[t])
    BY DEF Written
  <2>4. Wrote(turn[t])'
    BY <1>20, FailsShape, <2>2, <2>3 DEF Raising, Wrote, WRITE_TOOLS, Dated, TypeOK, DataOK, Typed, Ends
  <2>5. ASSUME NEW s \in Turns, s # t PROVE Wrote(turn[s])'
    BY <2>1, <2>2, <2>5 DEF Written, Wrote
  <2>6. QED
    BY <2>4, <2>5 DEF Written
<1>21. ASSUME Forget
      PROVE  Written'
  BY <1>21 DEF Forget, Written, Wrote
<1>22. ASSUME Restart
      PROVE  Written'
  <2>1. \A s \in Turns : IF s \in Busy THEN Ends(s, "lost") ELSE turn'[s] = turn[s]
    BY <1>22, RestartShape DEF TypeOK, DataOK, Typed
  <2>2. shared' = shared
    BY <1>22 DEF Restart
  <2>3. QED
    BY <2>1, <2>2 DEF Written, Wrote, Ends
<1>23. QED
  BY <1>1, <1>2, <1>3, <1>4, <1>5, <1>6, <1>7, <1>8, <1>9, <1>10, <1>11, <1>12,
     <1>13, <1>14, <1>15, <1>16, <1>17, <1>18, <1>19, <1>20, <1>21, <1>22 DEF
     Next, Step

(* Nothing with a date in it is written unless the newest message of the   *)
(* user names some date, on the path that recovers a rejected call too.    *)
THEOREM DatesAreTheUsers == Spec => []DateIsGrounded
<1>1. Init => Written
  BY DEF Init, Fresh, Written, Wrote
<1>2. TypeOK /\ Written /\ [Next]_vars => Written'
  BY WrittenStep
<1>3. TypeOK /\ Written => DateIsGrounded
  BY DEF Written, Wrote, DateIsGrounded
<1>4. QED
  BY <1>1, <1>2, <1>3, TypeCorrect, PTL DEF Spec

(* A write tool that ran is answered with a response, in its text or its   *)
(* data: the request can only fail where Redis refuses the ids of a        *)
(* payment.                                                                *)
THEOREM WritesAreTold == Spec => []WriteIsAnswered
<1>1. Init => Written
  BY DEF Init, Fresh, Written, Wrote
<1>2. TypeOK /\ Written /\ [Next]_vars => Written'
  BY WrittenStep
<1>3. TypeOK /\ Written => WriteIsAnswered
  BY DEF Written, Wrote, WriteIsAnswered, At
<1>4. QED
  BY <1>1, <1>2, <1>3, TypeCorrect, PTL DEF Spec

-----------------------------------------------------------------------------
(* What is remembered of a thread.                                         *)

Remembering == {"agent", "rank", "fast", "model", "tool", "final", "save"}

(* Of two requests under way, each has met another; one that met no other  *)
(* still holds what was last saved of every key whose loss is not excused. *)
Alone == \A s, t \in Busy : s # t => t \in mixed
Carried ==
  \A t \in Turns \ mixed :
    turn[t].at \in Remembering => \A k \in Keys \ excused : turn[t].cached[k] = saved[k]
Remembered == Alone /\ Carried /\ RefsKept

(* A turn that met no other puts back what it took.                        *)
LEMMA RememberedStep ==
  ASSUME TypeOK, Remembered, [Next]_vars PROVE Remembered'
<1>1. CASE UNCHANGED vars
  BY <1>1 DEF vars, store, memory, router, Remembered, Alone, Carried, RefsKept, Busy
<1>2. ASSUME NEW t \in Turns, NEW m \in Texts, NEW r0 \in Roles, Arrive(t, m,
            r0)
      PROVE  Remembered'
  <2>1. \A s \in Turns : s # t => turn'[s] = turn[s]
    BY <1>2, ArriveShape DEF Others, TypeOK, DataOK, Typed
  <2>2. /\ UNCHANGED <<refs, saved, excused>>
        /\ mixed' = IF Busy = {} THEN mixed ELSE mixed \union Busy \union {t}
    BY <1>2, ChatAssumption DEF Arrive, Typed, TypeOK, DataOK, store, memory, router
  <2>3. Busy' = Busy \union {t} /\ t \notin Busy /\ mixed \subseteq mixed' /\ turn'[t].at \notin Remembering
    BY <1>2, <2>1, <2>2, ArriveShape DEF Busy, Over, Remembering, TypeOK, DataOK, Typed
  <2>4. Alone'
    BY <2>2, <2>3 DEF Remembered, Alone
  <2>5. Carried' /\ RefsKept'
    BY <2>1, <2>2, <2>3 DEF Remembered, Carried, RefsKept
  <2>7. QED
    BY <2>4, <2>5 DEF Remembered
<1>3. ASSUME NEW t \in Turns, FindPrototypes(t)
      PROVE  Remembered'
  <2>1. \A s \in Turns : s # t => turn'[s] = turn[s]
    BY <1>3, FindPrototypesActs DEF Others, TypeOK, DataOK, Typed
  <2>2. /\ UNCHANGED <<refs, saved, excused>>
        /\ mixed' = mixed
    BY <1>3, ChatAssumption DEF FindPrototypes, Typed, TypeOK, DataOK, store, memory, router
  <2>3. t \in Busy /\ Busy' \subseteq Busy
    BY <1>3, <2>1, FindPrototypesActs DEF Busy, Over, Raising, TypeOK, DataOK, Typed, Keeps
  <2>4. Alone'
    BY <2>2, <2>3 DEF Remembered, Alone
  <2>6. turn'[t].at \in Remembering => turn[t].at \in Remembering /\ turn'[t].cached = turn[t].cached
    BY <1>3, FindPrototypesActs DEF Remembering, WRITE_TOOLS, TypeOK, DataOK, Typed, Keeps
  <2>5. Carried' /\ RefsKept'
    BY <2>1, <2>2, <2>6 DEF Remembered, Carried, RefsKept
  <2>7. QED
    BY <2>4, <2>5 DEF Remembered
<1>4. ASSUME NEW t \in Turns, TakeLock(t)
      PROVE  Remembered'
  <2>1. \A s \in Turns : s # t => turn'[s] = turn[s]
    BY <1>4, TakeLockActs DEF Others, TypeOK, DataOK, Typed
  <2>2. /\ UNCHANGED <<refs, saved, excused>>
        /\ mixed' = mixed
    BY <1>4, ChatAssumption DEF TakeLock, Typed, TypeOK, DataOK, store, memory, router
  <2>3. t \in Busy /\ Busy' \subseteq Busy
    BY <1>4, <2>1, TakeLockActs DEF Busy, Over, Raising, TypeOK, DataOK, Typed, Keeps
  <2>4. Alone'
    BY <2>2, <2>3 DEF Remembered, Alone
  <2>6. turn'[t].at \in Remembering => turn[t].at \in Remembering /\ turn'[t].cached = turn[t].cached
    BY <1>4, TakeLockActs DEF Remembering, WRITE_TOOLS, TypeOK, DataOK, Typed, Keeps
  <2>5. Carried' /\ RefsKept'
    BY <2>1, <2>2, <2>6 DEF Remembered, Carried, RefsKept
  <2>7. QED
    BY <2>4, <2>5 DEF Remembered
<1>5. ASSUME NEW t \in Turns, BatchLoaded(t)
      PROVE  Remembered'
  <2>1. \A s \in Turns : s # t => turn'[s] = turn[s]
    BY <1>5, BatchLoadedActs DEF Others, TypeOK, DataOK, Typed
  <2>2. /\ UNCHANGED <<refs, saved, excused>>
        /\ mixed' = mixed
    BY <1>5, ChatAssumption DEF BatchLoaded, Typed, TypeOK, DataOK, store, memory, router
  <2>3. t \in Busy /\ Busy' \subseteq Busy
    BY <1>5, <2>1, BatchLoadedActs DEF Busy, Over, Raising, TypeOK, DataOK, Typed, Keeps
  <2>4. Alone'
    BY <2>2, <2>3 DEF Remembered, Alone
  <2>6. turn'[t].at \in Remembering => turn[t].at \in Remembering /\ turn'[t].cached = turn[t].cached
    BY <1>5, BatchLoadedActs DEF Remembering, WRITE_TOOLS, TypeOK, DataOK, Typed, Keeps
  <2>5. Carried' /\ RefsKept'
    BY <2>1, <2>2, <2>6 DEF Remembered, Carried, RefsKept
  <2>7. QED
    BY <2>4, <2>5 DEF Remembered
<1>6. ASSUME NEW t \in Turns, Route(t)
      PROVE  Remembered'
  <2>1. \A s \in Turns : s # t => turn'[s] = turn[s]
    BY <1>6, RouteActs DEF Others, TypeOK, DataOK, Typed
  <2>2. /\ UNCHANGED <<refs, saved, excused>>
        /\ mixed' = mixed
    BY <1>6, ChatAssumption DEF Route, Typed, TypeOK, DataOK, store, memory, router
  <2>3. t \in Busy /\ Busy' \subseteq Busy
    BY <1>6, <2>1, RouteActs DEF Busy, Over, Raising, TypeOK, DataOK, Typed, Keeps
  <2>4. Alone'
    BY <2>2, <2>3 DEF Remembered, Alone
  <2>6. turn'[t].at \in Remembering => turn[t].at \in Remembering /\ turn'[t].cached = turn[t].cached
    BY <1>6, RouteActs DEF Remembering, WRITE_TOOLS, TypeOK, DataOK, Typed, Keeps
  <2>5. Carried' /\ RefsKept'
    BY <2>1, <2>2, <2>6 DEF Remembered, Carried, RefsKept
  <2>7. QED
    BY <2>4, <2>5 DEF Remembered
<1>7. ASSUME NEW t \in Turns, HistoryLoad(t)
      PROVE  Remembered'
  <2>1. \A s \in Turns : s # t => turn'[s] = turn[s]
    BY <1>7, HistoryLoadActs DEF Others, TypeOK, DataOK, Typed
  <2>2. /\ UNCHANGED <<refs, saved, excused>>
        /\ mixed' = mixed
    BY <1>7, ChatAssumption DEF HistoryLoad, Works, Faulty, TypeOK, DataOK, store, memory, router
  <2>3. t \in Busy /\ Busy' \subseteq Busy
    BY <1>7, <2>1, HistoryLoadActs DEF Busy, Over, Raising, TypeOK, DataOK, Typed
  <2>4. Alone'
    BY <2>2, <2>3 DEF Remembered, Alone
  <2>6. turn'[t].at \in Remembering => turn[t].at \in Remembering /\ turn'[t].cached = turn[t].cached
    BY <1>7, HistoryLoadActs DEF Remembering, WRITE_TOOLS, TypeOK, DataOK, Typed
  <2>5. Carried' /\ RefsKept'
    BY <2>1, <2>2, <2>6 DEF Remembered, Carried, RefsKept
  <2>7. QED
    BY <2>4, <2>5 DEF Remembered
<1>8. ASSUME NEW t \in Turns, AskSave(t)
      PROVE  Remembered'
  <2>1. \A s \in Turns : s # t => turn'[s] = turn[s]
    BY <1>8, AskSaveActs DEF Others, TypeOK, DataOK, Typed
  <2>2. /\ UNCHANGED <<refs, saved, excused>>
        /\ mixed' = mixed
    <3>1. UNCHANGED <<refs, saved, excused>>
      BY <1>8 DEF AskSave, At, store, memory, router
    <3>2. mixed' = mixed
      BY <1>8 DEF AskSave, At, store, memory, router
    <3>3. QED
      BY <3>1, <3>2
  <2>3. t \in Busy /\ Busy' \subseteq Busy
    BY <1>8, <2>1, AskSaveActs DEF Busy, Over, Raising, TypeOK, DataOK, Typed, Keeps
  <2>4. Alone'
    BY <2>2, <2>3 DEF Remembered, Alone
  <2>6. turn'[t].at \in Remembering => turn[t].at \in Remembering /\ turn'[t].cached = turn[t].cached
    BY <1>8, AskSaveActs DEF Remembering, WRITE_TOOLS, TypeOK, DataOK, Typed, Keeps
  <2>5. Carried' /\ RefsKept'
    BY <2>1, <2>2, <2>6 DEF Remembered, Carried, RefsKept
  <2>7. QED
    BY <2>4, <2>5 DEF Remembered
<1>9. ASSUME NEW t \in Turns, RefsLoad(t)
      PROVE  Remembered'
  <2>1. \A s \in Turns : s # t => turn'[s] = turn[s]
    BY <1>9, RefsLoadActs DEF Others, TypeOK, DataOK, Typed
  <2>2. /\ UNCHANGED <<refs, saved, excused>>
        /\ mixed' = mixed
    BY <1>9, ChatAssumption DEF RefsLoad, Typed, TypeOK, DataOK, store, memory, router
  <2>3. t \in Busy /\ Busy' \subseteq Busy
    BY <1>9, <2>1, RefsLoadActs DEF Busy, Over, Raising, TypeOK, DataOK, Typed
  <2>4. Alone'
    BY <2>2, <2>3 DEF Remembered, Alone
  <2>5. Carried' /\ RefsKept'
    BY <1>9, <2>1, <2>2, RefsLoadActs DEF Remembered, Carried, RefsKept, TypeOK, DataOK, Typed
  <2>7. QED
    BY <2>4, <2>5 DEF Remembered
<1>10. ASSUME NEW t \in Turns, Listen(t)
      PROVE  Remembered'
  <2>1. \A s \in Turns : s # t => turn'[s] = turn[s]
    BY <1>10, ListenActs DEF Others, TypeOK, DataOK, Typed
  <2>2. /\ UNCHANGED <<refs, saved, excused>>
        /\ mixed' = mixed
    BY <1>10, ChatAssumption DEF Listen, Typed, TypeOK, DataOK, store, memory, router
  <2>3. t \in Busy /\ Busy' \subseteq Busy
    BY <1>10, <2>1, ListenActs DEF Busy, Over, Raising, TypeOK, DataOK, Typed, Keeps
  <2>4. Alone'
    BY <2>2, <2>3 DEF Remembered, Alone
  <2>6. turn'[t].at \in Remembering => turn[t].at \in Remembering /\ turn'[t].cached = turn[t].cached
    BY <1>10, ListenActs DEF Remembering, WRITE_TOOLS, TypeOK, DataOK, Typed, Keeps
  <2>5. Carried' /\ RefsKept'
    BY <2>1, <2>2, <2>6 DEF Remembered, Carried, RefsKept
  <2>7. QED
    BY <2>4, <2>5 DEF Remembered
<1>11. ASSUME NEW t \in Turns, Rank(t)
      PROVE  Remembered'
  <2>1. \A s \in Turns : s # t => turn'[s] = turn[s]
    BY <1>11, RankActs DEF Others, TypeOK, DataOK, Typed
  <2>2. /\ UNCHANGED <<refs, saved, excused>>
        /\ mixed' = mixed
    BY <1>11, ChatAssumption DEF Rank, Typed, TypeOK, DataOK, store, memory, router
  <2>3. t \in Busy /\ Busy' \subseteq Busy
    BY <1>11, <2>1, RankActs DEF Busy, Over, Raising, TypeOK, DataOK, Typed, Keeps
  <2>4. Alone'
    BY <2>2, <2>3 DEF Remembered, Alone
  <2>6. turn'[t].at \in Remembering => turn[t].at \in Remembering /\ turn'[t].cached = turn[t].cached
    BY <1>11, RankActs DEF Remembering, WRITE_TOOLS, TypeOK, DataOK, Typed, Keeps
  <2>5. Carried' /\ RefsKept'
    BY <2>1, <2>2, <2>6 DEF Remembered, Carried, RefsKept
  <2>7. QED
    BY <2>4, <2>5 DEF Remembered
<1>12. ASSUME NEW t \in Turns, FastSearch(t)
      PROVE  Remembered'
  <2>1. \A s \in Turns : s # t => turn'[s] = turn[s]
    BY <1>12, FastSearchActs DEF Others, TypeOK, DataOK, Typed
  <2>2. /\ UNCHANGED <<refs, saved, excused>>
        /\ mixed' = mixed
    BY <1>12, ChatAssumption DEF FastSearch, Typed, TypeOK, DataOK, store, memory, router
  <2>3. t \in Busy /\ Busy' \subseteq Busy
    BY <1>12, <2>1, FastSearchActs DEF Busy, Over, Raising, TypeOK, DataOK, Typed, Quiet, Carries
  <2>4. Alone'
    BY <2>2, <2>3 DEF Remembered, Alone
  <2>6. turn'[t].at \in Remembering => turn[t].at \in Remembering /\ turn'[t].cached = turn[t].cached
    BY <1>12, FastSearchActs DEF Remembering, WRITE_TOOLS, TypeOK, DataOK, Typed, Quiet, Carries
  <2>5. Carried' /\ RefsKept'
    BY <2>1, <2>2, <2>6 DEF Remembered, Carried, RefsKept
  <2>7. QED
    BY <2>4, <2>5 DEF Remembered
<1>13. ASSUME NEW t \in Turns, ModelTalks(t)
      PROVE  Remembered'
  <2>1. \A s \in Turns : s # t => turn'[s] = turn[s]
    BY <1>13, ModelTalksActs DEF Others, TypeOK, DataOK, Typed
  <2>2. /\ UNCHANGED <<refs, saved, excused>>
        /\ mixed' = mixed
    BY <1>13, ChatAssumption DEF ModelTalks, Typed, TypeOK, DataOK, store, memory, router
  <2>3. t \in Busy /\ Busy' \subseteq Busy
    BY <1>13, <2>1, ModelTalksActs DEF Busy, Over, Raising, TypeOK, DataOK, Typed, Quiet, Carries
  <2>4. Alone'
    BY <2>2, <2>3 DEF Remembered, Alone
  <2>6. turn'[t].at \in Remembering => turn[t].at \in Remembering /\ turn'[t].cached = turn[t].cached
    BY <1>13, ModelTalksActs DEF Remembering, WRITE_TOOLS, TypeOK, DataOK, Typed, Quiet, Carries
  <2>5. Carried' /\ RefsKept'
    BY <2>1, <2>2, <2>6 DEF Remembered, Carried, RefsKept
  <2>7. QED
    BY <2>4, <2>5 DEF Remembered
<1>14. ASSUME NEW t \in Turns, NEW c \in Calls, NEW recovered \in BOOLEAN,
            ModelCalls(t, c, recovered)
      PROVE  Remembered'
  <2>1. \A s \in Turns : s # t => turn'[s] = turn[s]
    BY <1>14, ModelCallsActs DEF Others, TypeOK, DataOK, Typed
  <2>2. /\ UNCHANGED <<refs, saved, excused>>
        /\ mixed' = mixed
    BY <1>14, ChatAssumption DEF ModelCalls, Typed, TypeOK, DataOK, store, memory, router
  <2>3. t \in Busy /\ Busy' \subseteq Busy
    <3>1. turn[t].at = "model"
      BY <1>14, ModelCallsActs
    <3>2. QED
      BY <2>1, <3>1 DEF Busy, Over
  <2>4. Alone'
    BY <2>2, <2>3 DEF Remembered, Alone
  <2>6. turn'[t].at \in Remembering => turn[t].at \in Remembering /\ turn'[t].cached = turn[t].cached
    BY <1>14, ModelCallsActs DEF Remembering, WRITE_TOOLS, TypeOK, DataOK, Typed, Quiet, Carries
  <2>5. Carried' /\ RefsKept'
    BY <2>1, <2>2, <2>6 DEF Remembered, Carried, RefsKept
  <2>7. QED
    BY <2>4, <2>5 DEF Remembered
<1>15. ASSUME NEW t \in Turns, ToolRun(t)
      PROVE  Remembered'
  <2>1. \A s \in Turns : s # t => turn'[s] = turn[s]
    BY <1>15, ToolRunActs DEF Others, TypeOK, DataOK, Typed
  <2>2. /\ UNCHANGED <<refs, saved, excused>>
        /\ mixed' = mixed
    BY <1>15, ChatAssumption DEF ToolRun, Typed, TypeOK, DataOK, store, memory, router
  <2>3. t \in Busy /\ Busy' \subseteq Busy
    BY <1>15, <2>1, ToolRunActs DEF Busy, Over, Raising, TypeOK, DataOK, Typed, Carries
  <2>4. Alone'
    BY <2>2, <2>3 DEF Remembered, Alone
  <2>6. turn'[t].at \in Remembering => turn[t].at \in Remembering /\ turn'[t].cached = turn[t].cached
    BY <1>15, ToolRunActs DEF Remembering, WRITE_TOOLS, TypeOK, DataOK, Typed, Carries
  <2>5. Carried' /\ RefsKept'
    BY <2>1, <2>2, <2>6 DEF Remembered, Carried, RefsKept
  <2>7. QED
    BY <2>4, <2>5 DEF Remembered
<1>16. ASSUME NEW t \in Turns, ToolRefuses(t)
      PROVE  Remembered'
  <2>1. \A s \in Turns : s # t => turn'[s] = turn[s]
    BY <1>16, ToolRefusesActs DEF Others, TypeOK, DataOK, Typed
  <2>2. /\ UNCHANGED <<refs, saved, excused>>
        /\ mixed' = mixed
    BY <1>16, ChatAssumption DEF ToolRefuses, Typed, TypeOK, DataOK, store, memory, router
  <2>3. t \in Busy /\ Busy' \subseteq Busy
    BY <1>16, <2>1, ToolRefusesActs DEF Busy, Over, Raising, TypeOK, DataOK, Typed, Quiet, Carries, Keeps
  <2>4. Alone'
    BY <2>2, <2>3 DEF Remembered, Alone
  <2>6. turn'[t].at \in Remembering => turn[t].at \in Remembering /\ turn'[t].cached = turn[t].cached
    BY <1>16, ToolRefusesActs DEF Remembering, WRITE_TOOLS, TypeOK, DataOK, Typed, Quiet, Carries, Keeps
  <2>5. Carried' /\ RefsKept'
    BY <2>1, <2>2, <2>6 DEF Remembered, Carried, RefsKept
  <2>7. QED
    BY <2>4, <2>5 DEF Remembered
<1>17. ASSUME NEW t \in Turns, FinalCall(t)
      PROVE  Remembered'
  <2>1. \A s \in Turns : s # t => turn'[s] = turn[s]
    BY <1>17, FinalCallActs DEF Others, TypeOK, DataOK, Typed
  <2>2. /\ UNCHANGED <<refs, saved, excused>>
        /\ mixed' = mixed
    BY <1>17, ChatAssumption DEF FinalCall, Typed, TypeOK, DataOK, store, memory, router
  <2>3. t \in Busy /\ Busy' \subseteq Busy
    BY <1>17, <2>1, FinalCallActs DEF Busy, Over, Raising, TypeOK, DataOK, Typed, Carries, Tells
  <2>4. Alone'
    BY <2>2, <2>3 DEF Remembered, Alone
  <2>6. turn'[t].at \in Remembering => turn[t].at \in Remembering /\ turn'[t].cached = turn[t].cached
    BY <1>17, FinalCallActs DEF Remembering, WRITE_TOOLS, TypeOK, DataOK, Typed, Carries, Tells
  <2>5. Carried' /\ RefsKept'
    BY <2>1, <2>2, <2>6 DEF Remembered, Carried, RefsKept
  <2>7. QED
    BY <2>4, <2>5 DEF Remembered
<1>18. ASSUME NEW t \in Turns, RefsSave(t)
      PROVE  Remembered'
  <2>1. \A s \in Turns : s # t => turn'[s] = turn[s]
    BY <1>18, RefsSaveShape DEF Others, TypeOK, DataOK, Typed
  <2>2. /\ /\ refs' = [k \in Keys |-> IF k \in turn[t].news THEN t ELSE turn[t].cached[k]]
           /\ saved' = [k \in Keys |-> IF k \in turn[t].news THEN t ELSE saved[k]]
           /\ excused' = (IF t \in mixed THEN excused \union Keys ELSE excused) \ turn[t].news
        /\ mixed' = mixed
    BY <1>18, ChatAssumption DEF RefsSave, Typed, TypeOK, DataOK, store, memory, router
  <2>3. t \in Busy /\ Busy' \subseteq Busy
    BY <1>18, <2>1, RefsSaveShape DEF Busy, Over, Raising, TypeOK, DataOK, Typed
  <2>4. Alone'
    BY <2>2, <2>3 DEF Remembered, Alone
  <2>5. turn[t].at = "save" /\ turn'[t].at = "reply"
    BY <1>18, RefsSaveShape DEF TypeOK, DataOK, Typed
  <2>6. RefsKept'
    <3>1. CASE t \in mixed
      BY <2>2, <3>1 DEF RefsKept
    <3>2. CASE t \notin mixed
      <4>1. \A k \in Keys \ excused : turn[t].cached[k] = saved[k]
        BY <2>5, <3>2 DEF Remembered, Carried, Remembering
      <4>2. QED
        BY <2>2, <3>2, <4>1 DEF RefsKept
    <3>3. QED
      BY <3>1, <3>2
  <2>7. Carried'
    <3>1. SUFFICES ASSUME NEW s \in Turns \ mixed, turn'[s].at \in Remembering, NEW k \in Keys \ excused'
                   PROVE  turn'[s].cached[k] = saved'[k]
      BY <2>2 DEF Carried
    <3>2. s # t
      BY <2>5, <3>1 DEF Remembering
    <3>3. turn'[s] = turn[s] /\ s \in Busy
      BY <2>1, <3>1, <3>2 DEF Busy, Over, Remembering
    <3>4. FALSE
      BY <2>3, <3>1, <3>2, <3>3 DEF Remembered, Alone
    <3>5. QED
      BY <3>4
  <2>8. QED
    BY <2>4, <2>6, <2>7 DEF Remembered
<1>19. ASSUME NEW t \in Turns, ReplySave(t)
      PROVE  Remembered'
  <2>1. \A s \in Turns : s # t => turn'[s] = turn[s]
    BY <1>19, ReplySaveShape DEF Others, TypeOK, DataOK, Typed
  <2>2. /\ UNCHANGED <<refs, saved, excused>>
        /\ mixed' = mixed
    BY <1>19, ChatAssumption DEF ReplySave, Works, Faulty, TypeOK, DataOK, store, memory, router
  <2>3. t \in Busy /\ Busy' \subseteq Busy
    BY <1>19, <2>1, ReplySaveShape DEF Busy, Over, Raising, TypeOK, DataOK, Typed
  <2>4. Alone'
    BY <2>2, <2>3 DEF Remembered, Alone
  <2>6. turn'[t].at \in Remembering => turn[t].at \in Remembering /\ turn'[t].cached = turn[t].cached
    BY <1>19, ReplySaveShape DEF Remembering, WRITE_TOOLS, TypeOK, DataOK, Typed
  <2>5. Carried' /\ RefsKept'
    BY <2>1, <2>2, <2>6 DEF Remembered, Carried, RefsKept
  <2>7. QED
    BY <2>4, <2>5 DEF Remembered
<1>20. ASSUME NEW t \in Turns, Fails(t)
      PROVE  Remembered'
  <2>1. \A s \in Turns : s # t => turn'[s] = turn[s]
    BY <1>20, FailsShape DEF Others, TypeOK, DataOK, Typed
  <2>2. /\ UNCHANGED <<refs, saved, excused>>
        /\ mixed' = mixed
    BY <1>20, ChatAssumption DEF Fails, Faulty, TypeOK, DataOK, store, memory, router
  <2>3. t \in Busy /\ Busy' \subseteq Busy
    BY <1>20, <2>1, FailsShape DEF Busy, Over, Raising, TypeOK, DataOK, Typed, Ends
  <2>4. Alone'
    BY <2>2, <2>3 DEF Remembered, Alone
  <2>6. turn'[t].at \in Remembering => turn[t].at \in Remembering /\ turn'[t].cached = turn[t].cached
    BY <1>20, FailsShape DEF Remembering, WRITE_TOOLS, TypeOK, DataOK, Typed, Ends
  <2>5. Carried' /\ RefsKept'
    BY <2>1, <2>2, <2>6 DEF Remembered, Carried, RefsKept
  <2>7. QED
    BY <2>4, <2>5 DEF Remembered
<1>21. ASSUME Forget
      PROVE  Remembered'
  <2>1. turn' = turn /\ mixed' = mixed /\ excused' = Keys
    BY <1>21 DEF Forget
  <2>2. Alone'
    BY <2>1 DEF Remembered, Alone, Busy
  <2>3. Carried' /\ RefsKept'
    BY <2>1 DEF Carried, RefsKept
  <2>4. QED
    BY <2>2, <2>3 DEF Remembered
<1>22. ASSUME Restart
      PROVE  Remembered'
  <2>1. \A s \in Turns : IF s \in Busy THEN Ends(s, "lost") ELSE turn'[s] = turn[s]
    BY <1>22, RestartShape DEF TypeOK, DataOK, Typed
  <2>2. /\ saved' = saved /\ ((refs' = refs /\ excused' = excused) \/ (refs' = NoRefs /\ excused' = Keys))
        /\ mixed' = mixed
    <3>1. saved' = saved /\ ((refs' = refs /\ excused' = excused) \/ (refs' = NoRefs /\ excused' = Keys))
      BY <1>22 DEF Restart, At, store, memory, router
    <3>2. mixed' = mixed
      BY <1>22 DEF Restart, At, store, memory, router
    <3>3. QED
      BY <3>1, <3>2
  <2>3. Busy' = {} /\ \A s \in Turns : turn'[s].at \notin Remembering
    BY <2>1 DEF Busy, Ends, Over, Remembering
  <2>4. Alone' /\ Carried'
    BY <2>3 DEF Alone, Carried
  <2>5. RefsKept'
    BY <2>2 DEF Remembered, RefsKept
  <2>6. QED
    BY <2>4, <2>5 DEF Remembered
<1>23. QED
  BY <1>1, <1>2, <1>3, <1>4, <1>5, <1>6, <1>7, <1>8, <1>9, <1>10, <1>11, <1>12,
     <1>13, <1>14, <1>15, <1>16, <1>17, <1>18, <1>19, <1>20, <1>21, <1>22 DEF
     Next, Step

(* A turn that finds other ids keeps those the thread already had; only the *)
(* loss of the cache, or turns that overlap, excuse their loss.            *)
THEOREM ReferencesAreKept == Spec => []RefsKept
<1>1. Init => Remembered
  BY DEF Init, Fresh, Busy, Over, Remembered, Alone, Carried, RefsKept, Remembering
<1>2. TypeOK /\ Remembered /\ [Next]_vars => Remembered'
  BY RememberedStep
<1>3. TypeOK /\ Remembered => RefsKept
  BY DEF Remembered
<1>4. QED
  BY <1>1, <1>2, <1>3, TypeCorrect, PTL DEF Spec

-----------------------------------------------------------------------------
(* What the model is shown.                                                *)

LEMMA NewestLast ==
  ASSUME NEW S, NEW s \in Seq(S), NEW n \in Nat, n > 0, s # <<>>
  PROVE  /\ Newest(s, n) \in Seq(S) /\ Len(Newest(s, n)) > 0
         /\ Newest(s, n)[Len(Newest(s, n))] = s[Len(s)]
<1>1. Len(s) > 0 /\ Len(s) \in Nat
  BY EmptySeq
<1>2. CASE Len(s) <= n
  BY <1>1, <1>2, NewestTyped DEF Newest
<1>3. CASE Len(s) > n
  <2>1. PICK m \in Int : m = Len(s) - n + 1
    BY <1>1
  <2>2. m \in 1 .. Len(s) /\ m <= Len(s) + 1 /\ Len(s) - m + 1 = n
    BY <1>1, <1>3, <2>1
  <2>3. \A i \in m .. Len(s) : s[i] \in S
    BY <2>2, ElementOfSeq
  <2>4. /\ Len(SubSeq(s, m, Len(s))) = Len(s) - m + 1
        /\ \A i \in 1 .. Len(s) - m + 1 : SubSeq(s, m, Len(s))[i] = s[m + i - 1]
    BY <1>1, <2>2, <2>3, SubSeqProperties
  <2>5. Newest(s, n) = SubSeq(s, m, Len(s))
    BY <1>3, <2>1 DEF Newest
  <2>6. n \in 1 .. Len(s) - m + 1 /\ m + n - 1 = Len(s)
    BY <2>1, <2>2
  <2>7. QED
    BY <2>2, <2>4, <2>5, <2>6, NewestTyped
<1>4. QED
  BY <1>1, <1>2, <1>3

LEMMA NewestTwo ==
  ASSUME NEW S, NEW s \in Seq(S), NEW n \in Nat, n > 1, Len(s) > 1
  PROVE  /\ Len(Newest(s, n)) > 1
         /\ Newest(s, n)[Len(Newest(s, n)) - 1] = s[Len(s) - 1]
<1>1. Len(s) \in Nat
  OBVIOUS
<1>2. CASE Len(s) <= n
  BY <1>1, <1>2 DEF Newest
<1>3. CASE Len(s) > n
  <2>1. PICK m \in Int : m = Len(s) - n + 1
    BY <1>1
  <2>2. m \in 1 .. Len(s) /\ m <= Len(s) + 1 /\ Len(s) - m + 1 = n
    BY <1>1, <1>3, <2>1
  <2>3. \A i \in m .. Len(s) : s[i] \in S
    BY <2>2, ElementOfSeq
  <2>4. /\ Len(SubSeq(s, m, Len(s))) = Len(s) - m + 1
        /\ \A i \in 1 .. Len(s) - m + 1 : SubSeq(s, m, Len(s))[i] = s[m + i - 1]
    BY <1>1, <2>2, <2>3, SubSeqProperties
  <2>5. Newest(s, n) = SubSeq(s, m, Len(s))
    BY <1>3, <2>1 DEF Newest
  <2>6. n - 1 \in 1 .. Len(s) - m + 1 /\ m + (n - 1) - 1 = Len(s) - 1
    BY <2>1, <2>2
  <2>7. QED
    BY <2>2, <2>4, <2>5, <2>6
<1>4. QED
  BY <1>1, <1>2, <1>3

(* What is shown ends with the question, and before it the newest message. *)
Shows(t, s, read, latest) ==
  /\ Len(s) > 0 /\ s[Len(s)] = Question(t)
  /\ read /\ latest # <<>> => Len(s) > 1 /\ s[Len(s) - 1] = latest

LEMMA ShownLatest ==
  ASSUME Window > 1, transcript \in Seq(Turns \X BOOLEAN), NEW t \in Turns, NEW read \in BOOLEAN
  PROVE  Shows(t, Shown(t, read), read, LastOf(transcript))
<1>0. (IF read THEN Newest(transcript, Limit) ELSE <<>>) \in Seq(Turns \X BOOLEAN)
  BY NewestTyped, ChatAssumption
<1>1. PICK h \in Seq(Turns \X BOOLEAN) : h = IF read THEN Newest(transcript, Limit) ELSE <<>>
  BY <1>0
<1>2. Question(t) \in Turns \X BOOLEAN
  BY DEF Question
<1>3. PICK a : a = Append(h, Question(t))
  OBVIOUS
<1>4. /\ a \in Seq(Turns \X BOOLEAN) /\ Len(a) = Len(h) + 1 /\ Len(h) \in Nat
      /\ a[Len(a)] = Question(t) /\ \A i \in 1 .. Len(h) : a[i] = h[i]
  BY <1>2, <1>3, AppendProperties
<1>5. a # <<>> /\ Window \in Nat /\ Limit \in Nat /\ Limit > 0
  BY <1>4, ChatAssumption
<1>6. Shown(t, read) = Newest(a, Window)
  BY <1>1, <1>3 DEF Shown
<1>7. Len(Shown(t, read)) > 0 /\ Shown(t, read)[Len(Shown(t, read))] = Question(t)
  BY <1>4, <1>5, <1>6, NewestLast
<1>8. ASSUME read, LastOf(transcript) # <<>>
      PROVE  /\ Len(Shown(t, read)) > 1
             /\ Shown(t, read)[Len(Shown(t, read)) - 1] = LastOf(transcript)
  <2>1. transcript # <<>> /\ LastOf(transcript) = transcript[Len(transcript)]
    BY <1>8 DEF LastOf
  <2>2. Len(h) > 0 /\ h[Len(h)] = LastOf(transcript)
    BY <1>1, <1>5, <1>8, <2>1, NewestLast
  <2>3. Len(a) > 1 /\ a[Len(a) - 1] = LastOf(transcript)
    <3>1. Len(h) \in 1 .. Len(h) /\ Len(a) - 1 = Len(h) /\ Len(a) > 1
      BY <1>4, <2>2
    <3>2. a[Len(h)] = h[Len(h)]
      BY <1>4, <3>1
    <3>3. QED
      BY <2>2, <3>1, <3>2
  <2>4. QED
    BY <1>4, <1>5, <1>6, <2>3, NewestTwo
<1>9. QED
  BY <1>7, <1>8 DEF Shows

Asking == {"route", "wait", "batch", "embed", "history"}
Answering == {"ask", "refs", "agent", "rank", "fast", "model"}

(* Until it reads the thread, a turn that met no other may still take the  *)
(* newest message to be the one it began with.                             *)
Seen(t, r) ==
  /\ t \notin mixed /\ r.at \in Asking => r.latest = LastOf(transcript)
  /\ r.at \in Answering /\ r.says.page = NoPage =>
       /\ Len(r.seen) > 0 /\ r.seen[Len(r.seen)] = Question(t)
       /\ t \notin mixed => Shows(t, r.seen, r.read, r.latest)
SeenByAll == \A t \in Turns : Seen(t, turn[t])

(* A turn reads the thread as it was when it began, or meets another.      *)
LEMMA SeenStep ==
  ASSUME Window > 1, TypeOK, Remembered, SeenByAll, [Next]_vars PROVE SeenByAll'
<1>1. CASE UNCHANGED vars
  BY <1>1 DEF vars, store, memory, router, SeenByAll, Seen, Shows, Question
<1>2. ASSUME NEW t \in Turns, NEW m \in Texts, NEW r0 \in Roles, Arrive(t, m,
            r0)
      PROVE  SeenByAll'
  <2>1. \A s \in Turns : s # t => turn'[s] = turn[s]
    BY <1>2, ArriveShape DEF Others, TypeOK, DataOK, Typed
  <2>2. /\ UNCHANGED <<thread, transcript>>
        /\ mixed' = IF Busy = {} THEN mixed ELSE mixed \union Busy \union {t}
    BY <1>2, ChatAssumption DEF Arrive, Typed, TypeOK, DataOK, store, memory, router
  <2>3. Seen(t, turn[t])
    BY DEF SeenByAll
  <2>4. Seen(t, turn[t])'
    BY <1>2, <2>2, ArriveShape DEF Seen, Asking, Answering, TypeOK, DataOK, Typed
  <2>8. mixed \subseteq mixed'
    BY <2>2
  <2>5. ASSUME NEW s \in Turns, s # t PROVE Seen(s, turn[s])'
    BY <2>1, <2>2, <2>5, <2>8 DEF SeenByAll, Seen, Shows, Question
  <2>9. QED
    BY <2>4, <2>5 DEF SeenByAll
<1>3. ASSUME NEW t \in Turns, FindPrototypes(t)
      PROVE  SeenByAll'
  <2>1. \A s \in Turns : s # t => turn'[s] = turn[s]
    BY <1>3, FindPrototypesActs DEF Others, TypeOK, DataOK, Typed
  <2>2. /\ UNCHANGED <<thread, transcript>>
        /\ mixed' = mixed
    BY <1>3, ChatAssumption DEF FindPrototypes, Typed, TypeOK, DataOK, store, memory, router
  <2>3. Seen(t, turn[t])
    BY DEF SeenByAll
  <2>4. Seen(t, turn[t])'
    BY <1>3, <2>2, <2>3, FindPrototypesActs DEF Seen, Asking, Answering, Shows, Question, TypeOK, DataOK, Typed, Keeps
  <2>5. ASSUME NEW s \in Turns, s # t PROVE Seen(s, turn[s])'
    BY <2>1, <2>2, <2>5 DEF SeenByAll, Seen, Shows, Question
  <2>9. QED
    BY <2>4, <2>5 DEF SeenByAll
<1>4. ASSUME NEW t \in Turns, TakeLock(t)
      PROVE  SeenByAll'
  <2>1. \A s \in Turns : s # t => turn'[s] = turn[s]
    BY <1>4, TakeLockActs DEF Others, TypeOK, DataOK, Typed
  <2>2. /\ UNCHANGED <<thread, transcript>>
        /\ mixed' = mixed
    BY <1>4, ChatAssumption DEF TakeLock, Typed, TypeOK, DataOK, store, memory, router
  <2>3. Seen(t, turn[t])
    BY DEF SeenByAll
  <2>4. Seen(t, turn[t])'
    BY <1>4, <2>2, <2>3, TakeLockActs DEF Seen, Asking, Answering, Shows, Question, TypeOK, DataOK, Typed, Keeps
  <2>5. ASSUME NEW s \in Turns, s # t PROVE Seen(s, turn[s])'
    BY <2>1, <2>2, <2>5 DEF SeenByAll, Seen, Shows, Question
  <2>9. QED
    BY <2>4, <2>5 DEF SeenByAll
<1>5. ASSUME NEW t \in Turns, BatchLoaded(t)
      PROVE  SeenByAll'
  <2>1. \A s \in Turns : s # t => turn'[s] = turn[s]
    BY <1>5, BatchLoadedActs DEF Others, TypeOK, DataOK, Typed
  <2>2. /\ UNCHANGED <<thread, transcript>>
        /\ mixed' = mixed
    BY <1>5, ChatAssumption DEF BatchLoaded, Typed, TypeOK, DataOK, store, memory, router
  <2>3. Seen(t, turn[t])
    BY DEF SeenByAll
  <2>4. Seen(t, turn[t])'
    BY <1>5, <2>2, <2>3, BatchLoadedActs DEF Seen, Asking, Answering, Shows, Question, TypeOK, DataOK, Typed, Keeps
  <2>5. ASSUME NEW s \in Turns, s # t PROVE Seen(s, turn[s])'
    BY <2>1, <2>2, <2>5 DEF SeenByAll, Seen, Shows, Question
  <2>9. QED
    BY <2>4, <2>5 DEF SeenByAll
<1>6. ASSUME NEW t \in Turns, Route(t)
      PROVE  SeenByAll'
  <2>1. \A s \in Turns : s # t => turn'[s] = turn[s]
    BY <1>6, RouteActs DEF Others, TypeOK, DataOK, Typed
  <2>2. /\ UNCHANGED <<thread, transcript>>
        /\ mixed' = mixed
    BY <1>6, ChatAssumption DEF Route, Typed, TypeOK, DataOK, store, memory, router
  <2>3. Seen(t, turn[t])
    BY DEF SeenByAll
  <2>4. Seen(t, turn[t])'
    BY <1>6, <2>2, <2>3, RouteActs DEF Seen, Asking, Answering, Shows, Question, TypeOK, DataOK, Typed, Keeps
  <2>5. ASSUME NEW s \in Turns, s # t PROVE Seen(s, turn[s])'
    BY <2>1, <2>2, <2>5 DEF SeenByAll, Seen, Shows, Question
  <2>9. QED
    BY <2>4, <2>5 DEF SeenByAll
<1>7. ASSUME NEW t \in Turns, HistoryLoad(t)
      PROVE  SeenByAll'
  <2>1. \A s \in Turns : s # t => turn'[s] = turn[s]
    BY <1>7, HistoryLoadActs DEF Others, TypeOK, DataOK, Typed
  <2>2. /\ UNCHANGED <<thread, transcript>>
        /\ mixed' = mixed
    BY <1>7, ChatAssumption DEF HistoryLoad, Works, Faulty, TypeOK, DataOK, store, memory, router
  <2>3. Seen(t, turn[t])
    BY DEF SeenByAll
  <2>6. /\ turn[t].at = "history" /\ turn'[t].at = "ask" /\ turn'[t].latest = turn[t].latest
        /\ turn'[t].seen = Shown(t, turn'[t].read) /\ turn'[t].read \in BOOLEAN
    BY <1>7, HistoryLoadActs
  <2>7. Shows(t, turn'[t].seen, turn'[t].read, LastOf(transcript))
    BY <2>6, ShownLatest DEF TypeOK, DataOK
  <2>4. Seen(t, turn[t])'
    BY <2>2, <2>3, <2>6, <2>7 DEF Seen, Asking, Answering, Shows, Question
  <2>5. ASSUME NEW s \in Turns, s # t PROVE Seen(s, turn[s])'
    BY <2>1, <2>2, <2>5 DEF SeenByAll, Seen, Shows, Question
  <2>9. QED
    BY <2>4, <2>5 DEF SeenByAll
<1>8. ASSUME NEW t \in Turns, AskSave(t)
      PROVE  SeenByAll'
  <2>1. \A s \in Turns : s # t => turn'[s] = turn[s]
    BY <1>8, AskSaveActs DEF Others, TypeOK, DataOK, Typed
  <2>2. /\ (thread' = TRUE /\ transcript' = Append(transcript, Question(t))) \/ (thread' \in {thread, TRUE} /\ transcript' = transcript)
        /\ mixed' = mixed
    <3>1. (thread' = TRUE /\ transcript' = Append(transcript, Question(t))) \/ (thread' \in {thread, TRUE} /\ transcript' = transcript)
      BY <1>8 DEF AskSave, At, store, memory, router
    <3>2. mixed' = mixed
      BY <1>8 DEF AskSave, At, store, memory, router
    <3>3. QED
      BY <3>1, <3>2
  <2>3. Seen(t, turn[t])
    BY DEF SeenByAll
  <2>4. Seen(t, turn[t])'
    BY <1>8, <2>2, <2>3, AskSaveActs DEF Seen, Asking, Answering, Shows, Question, TypeOK, DataOK, Typed, Keeps
  <2>5. ASSUME NEW s \in Turns, s # t PROVE Seen(s, turn[s])'
    <3>1. t \in Busy
      BY <1>8, AskSaveActs DEF Busy, Over, TypeOK, DataOK, Typed
    <3>2. turn'[s] = turn[s] /\ mixed' = mixed
      BY <2>1, <2>2, <2>5
    <3>3. ASSUME s \notin mixed PROVE turn[s].at \notin Asking
      BY <2>5, <3>1, <3>3 DEF Remembered, Alone, Busy, Over, Asking
    <3>4. QED
      BY <2>5, <3>2, <3>3 DEF SeenByAll, Seen, Shows, Question
  <2>9. QED
    BY <2>4, <2>5 DEF SeenByAll
<1>9. ASSUME NEW t \in Turns, RefsLoad(t)
      PROVE  SeenByAll'
  <2>1. \A s \in Turns : s # t => turn'[s] = turn[s]
    BY <1>9, RefsLoadActs DEF Others, TypeOK, DataOK, Typed
  <2>2. /\ UNCHANGED <<thread, transcript>>
        /\ mixed' = mixed
    BY <1>9, ChatAssumption DEF RefsLoad, Typed, TypeOK, DataOK, store, memory, router
  <2>3. Seen(t, turn[t])
    BY DEF SeenByAll
  <2>4. Seen(t, turn[t])'
    BY <1>9, <2>2, <2>3, RefsLoadActs DEF Seen, Asking, Answering, Shows, Question, TypeOK, DataOK, Typed
  <2>5. ASSUME NEW s \in Turns, s # t PROVE Seen(s, turn[s])'
    BY <2>1, <2>2, <2>5 DEF SeenByAll, Seen, Shows, Question
  <2>9. QED
    BY <2>4, <2>5 DEF SeenByAll
<1>10. ASSUME NEW t \in Turns, Listen(t)
      PROVE  SeenByAll'
  <2>1. \A s \in Turns : s # t => turn'[s] = turn[s]
    BY <1>10, ListenActs DEF Others, TypeOK, DataOK, Typed
  <2>2. /\ UNCHANGED <<thread, transcript>>
        /\ mixed' = mixed
    BY <1>10, ChatAssumption DEF Listen, Typed, TypeOK, DataOK, store, memory, router
  <2>3. Seen(t, turn[t])
    BY DEF SeenByAll
  <2>4. Seen(t, turn[t])'
    BY <1>10, <2>2, <2>3, ListenActs DEF Seen, Asking, Answering, Shows, Question, TypeOK, DataOK, Typed, Keeps
  <2>5. ASSUME NEW s \in Turns, s # t PROVE Seen(s, turn[s])'
    BY <2>1, <2>2, <2>5 DEF SeenByAll, Seen, Shows, Question
  <2>9. QED
    BY <2>4, <2>5 DEF SeenByAll
<1>11. ASSUME NEW t \in Turns, Rank(t)
      PROVE  SeenByAll'
  <2>1. \A s \in Turns : s # t => turn'[s] = turn[s]
    BY <1>11, RankActs DEF Others, TypeOK, DataOK, Typed
  <2>2. /\ UNCHANGED <<thread, transcript>>
        /\ mixed' = mixed
    BY <1>11, ChatAssumption DEF Rank, Typed, TypeOK, DataOK, store, memory, router
  <2>3. Seen(t, turn[t])
    BY DEF SeenByAll
  <2>4. Seen(t, turn[t])'
    BY <1>11, <2>2, <2>3, RankActs DEF Seen, Asking, Answering, Shows, Question, TypeOK, DataOK, Typed, Keeps
  <2>5. ASSUME NEW s \in Turns, s # t PROVE Seen(s, turn[s])'
    BY <2>1, <2>2, <2>5 DEF SeenByAll, Seen, Shows, Question
  <2>9. QED
    BY <2>4, <2>5 DEF SeenByAll
<1>12. ASSUME NEW t \in Turns, FastSearch(t)
      PROVE  SeenByAll'
  <2>1. \A s \in Turns : s # t => turn'[s] = turn[s]
    BY <1>12, FastSearchActs DEF Others, TypeOK, DataOK, Typed
  <2>2. /\ UNCHANGED <<thread, transcript>>
        /\ mixed' = mixed
    BY <1>12, ChatAssumption DEF FastSearch, Typed, TypeOK, DataOK, store, memory, router
  <2>3. Seen(t, turn[t])
    BY DEF SeenByAll
  <2>4. Seen(t, turn[t])'
    BY <1>12, <2>2, <2>3, FastSearchActs DEF Seen, Asking, Answering, Shows, Question, TypeOK, DataOK, Typed, Quiet, Carries
  <2>5. ASSUME NEW s \in Turns, s # t PROVE Seen(s, turn[s])'
    BY <2>1, <2>2, <2>5 DEF SeenByAll, Seen, Shows, Question
  <2>9. QED
    BY <2>4, <2>5 DEF SeenByAll
<1>13. ASSUME NEW t \in Turns, ModelTalks(t)
      PROVE  SeenByAll'
  <2>1. \A s \in Turns : s # t => turn'[s] = turn[s]
    BY <1>13, ModelTalksActs DEF Others, TypeOK, DataOK, Typed
  <2>2. /\ UNCHANGED <<thread, transcript>>
        /\ mixed' = mixed
    BY <1>13, ChatAssumption DEF ModelTalks, Typed, TypeOK, DataOK, store, memory, router
  <2>3. Seen(t, turn[t])
    BY DEF SeenByAll
  <2>4. Seen(t, turn[t])'
    BY <1>13, <2>2, <2>3, ModelTalksActs DEF Seen, Asking, Answering, Shows, Question, TypeOK, DataOK, Typed, Quiet, Carries
  <2>5. ASSUME NEW s \in Turns, s # t PROVE Seen(s, turn[s])'
    BY <2>1, <2>2, <2>5 DEF SeenByAll, Seen, Shows, Question
  <2>9. QED
    BY <2>4, <2>5 DEF SeenByAll
<1>14. ASSUME NEW t \in Turns, NEW c \in Calls, NEW recovered \in BOOLEAN,
            ModelCalls(t, c, recovered)
      PROVE  SeenByAll'
  <2>1. \A s \in Turns : s # t => turn'[s] = turn[s]
    BY <1>14, ModelCallsActs DEF Others, TypeOK, DataOK, Typed
  <2>2. /\ UNCHANGED <<thread, transcript>>
        /\ mixed' = mixed
    BY <1>14, ChatAssumption DEF ModelCalls, Typed, TypeOK, DataOK, store, memory, router
  <2>3. Seen(t, turn[t])
    BY DEF SeenByAll
  <2>6. turn'[t].at \in {"reply", "save", "tool"}
    BY <1>14, ModelCallsActs
  <2>4. Seen(t, turn[t])'
    BY <2>6 DEF Seen, Asking, Answering
  <2>5. ASSUME NEW s \in Turns, s # t PROVE Seen(s, turn[s])'
    BY <2>1, <2>2, <2>5 DEF SeenByAll, Seen, Shows, Question
  <2>9. QED
    BY <2>4, <2>5 DEF SeenByAll
<1>15. ASSUME NEW t \in Turns, ToolRun(t)
      PROVE  SeenByAll'
  <2>1. \A s \in Turns : s # t => turn'[s] = turn[s]
    BY <1>15, ToolRunActs DEF Others, TypeOK, DataOK, Typed
  <2>2. /\ UNCHANGED <<thread, transcript>>
        /\ mixed' = mixed
    BY <1>15, ChatAssumption DEF ToolRun, Typed, TypeOK, DataOK, store, memory, router
  <2>3. Seen(t, turn[t])
    BY DEF SeenByAll
  <2>4. Seen(t, turn[t])'
    BY <1>15, <2>2, <2>3, ToolRunActs DEF Seen, Asking, Answering, Shows, Question, WRITE_TOOLS, TypeOK, DataOK, Typed, Carries
  <2>5. ASSUME NEW s \in Turns, s # t PROVE Seen(s, turn[s])'
    BY <2>1, <2>2, <2>5 DEF SeenByAll, Seen, Shows, Question
  <2>9. QED
    BY <2>4, <2>5 DEF SeenByAll
<1>16. ASSUME NEW t \in Turns, ToolRefuses(t)
      PROVE  SeenByAll'
  <2>1. \A s \in Turns : s # t => turn'[s] = turn[s]
    BY <1>16, ToolRefusesActs DEF Others, TypeOK, DataOK, Typed
  <2>2. /\ UNCHANGED <<thread, transcript>>
        /\ mixed' = mixed
    BY <1>16, ChatAssumption DEF ToolRefuses, Typed, TypeOK, DataOK, store, memory, router
  <2>3. Seen(t, turn[t])
    BY DEF SeenByAll
  <2>4. Seen(t, turn[t])'
    BY <1>16, <2>2, <2>3, ToolRefusesActs DEF Seen, Asking, Answering, Shows, Question, WRITE_TOOLS, TypeOK, DataOK, Typed, Quiet, Carries, Keeps
  <2>5. ASSUME NEW s \in Turns, s # t PROVE Seen(s, turn[s])'
    BY <2>1, <2>2, <2>5 DEF SeenByAll, Seen, Shows, Question
  <2>9. QED
    BY <2>4, <2>5 DEF SeenByAll
<1>17. ASSUME NEW t \in Turns, FinalCall(t)
      PROVE  SeenByAll'
  <2>1. \A s \in Turns : s # t => turn'[s] = turn[s]
    BY <1>17, FinalCallActs DEF Others, TypeOK, DataOK, Typed
  <2>2. /\ UNCHANGED <<thread, transcript>>
        /\ mixed' = mixed
    BY <1>17, ChatAssumption DEF FinalCall, Typed, TypeOK, DataOK, store, memory, router
  <2>3. Seen(t, turn[t])
    BY DEF SeenByAll
  <2>4. Seen(t, turn[t])'
    BY <1>17, <2>2, <2>3, FinalCallActs DEF Seen, Asking, Answering, Shows, Question, TypeOK, DataOK, Typed, Carries, Tells
  <2>5. ASSUME NEW s \in Turns, s # t PROVE Seen(s, turn[s])'
    BY <2>1, <2>2, <2>5 DEF SeenByAll, Seen, Shows, Question
  <2>9. QED
    BY <2>4, <2>5 DEF SeenByAll
<1>18. ASSUME NEW t \in Turns, RefsSave(t)
      PROVE  SeenByAll'
  <2>1. \A s \in Turns : s # t => turn'[s] = turn[s]
    BY <1>18, RefsSaveShape DEF Others, TypeOK, DataOK, Typed
  <2>2. /\ UNCHANGED <<thread, transcript>>
        /\ mixed' = mixed
    BY <1>18, ChatAssumption DEF RefsSave, Typed, TypeOK, DataOK, store, memory, router
  <2>3. Seen(t, turn[t])
    BY DEF SeenByAll
  <2>4. Seen(t, turn[t])'
    BY <1>18, <2>2, <2>3, RefsSaveShape DEF Seen, Asking, Answering, Shows, Question, TypeOK, DataOK, Typed
  <2>5. ASSUME NEW s \in Turns, s # t PROVE Seen(s, turn[s])'
    BY <2>1, <2>2, <2>5 DEF SeenByAll, Seen, Shows, Question
  <2>9. QED
    BY <2>4, <2>5 DEF SeenByAll
<1>19. ASSUME NEW t \in Turns, ReplySave(t)
      PROVE  SeenByAll'
  <2>1. \A s \in Turns : s # t => turn'[s] = turn[s]
    BY <1>19, ReplySaveShape DEF Others, TypeOK, DataOK, Typed
  <2>2. /\ thread' = thread /\ (transcript' = transcript \/ (thread /\ transcript' = Append(transcript, Answer(t))))
        /\ mixed' = mixed
    BY <1>19, ChatAssumption DEF ReplySave, Works, Faulty, TypeOK, DataOK, store, memory, router
  <2>3. Seen(t, turn[t])
    BY DEF SeenByAll
  <2>4. Seen(t, turn[t])'
    BY <1>19, <2>2, <2>3, ReplySaveShape DEF Seen, Asking, Answering, Shows, Question, TypeOK, DataOK, Typed
  <2>5. ASSUME NEW s \in Turns, s # t PROVE Seen(s, turn[s])'
    <3>1. t \in Busy
      BY <1>19, ReplySaveShape DEF Busy, Over, TypeOK, DataOK, Typed
    <3>2. turn'[s] = turn[s] /\ mixed' = mixed
      BY <2>1, <2>2, <2>5
    <3>3. ASSUME s \notin mixed PROVE turn[s].at \notin Asking
      BY <2>5, <3>1, <3>3 DEF Remembered, Alone, Busy, Over, Asking
    <3>4. QED
      BY <2>5, <3>2, <3>3 DEF SeenByAll, Seen, Shows, Question
  <2>9. QED
    BY <2>4, <2>5 DEF SeenByAll
<1>20. ASSUME NEW t \in Turns, Fails(t)
      PROVE  SeenByAll'
  <2>1. \A s \in Turns : s # t => turn'[s] = turn[s]
    BY <1>20, FailsShape DEF Others, TypeOK, DataOK, Typed
  <2>2. /\ UNCHANGED <<thread, transcript>>
        /\ mixed' = mixed
    BY <1>20, ChatAssumption DEF Fails, Faulty, TypeOK, DataOK, store, memory, router
  <2>3. Seen(t, turn[t])
    BY DEF SeenByAll
  <2>4. Seen(t, turn[t])'
    BY <1>20, <2>2, <2>3, FailsShape DEF Seen, Asking, Answering, Shows, Question, TypeOK, DataOK, Typed, Ends
  <2>5. ASSUME NEW s \in Turns, s # t PROVE Seen(s, turn[s])'
    BY <2>1, <2>2, <2>5 DEF SeenByAll, Seen, Shows, Question
  <2>9. QED
    BY <2>4, <2>5 DEF SeenByAll
<1>21. ASSUME Forget
      PROVE  SeenByAll'
  BY <1>21 DEF Forget, store, SeenByAll, Seen, Asking, Answering, Shows, Question
<1>22. ASSUME Restart
      PROVE  SeenByAll'
  <2>1. \A s \in Turns : IF s \in Busy THEN Ends(s, "lost") ELSE turn'[s] = turn[s]
    BY <1>22, RestartShape DEF TypeOK, DataOK, Typed
  <2>2. \A s \in Turns : turn'[s].at \notin Asking \union Answering
    BY <2>1 DEF Ends, Busy, Over, Asking, Answering
  <2>3. QED
    BY <2>2 DEF SeenByAll, Seen
<1>23. QED
  BY <1>1, <1>2, <1>3, <1>4, <1>5, <1>6, <1>7, <1>8, <1>9, <1>10, <1>11, <1>12,
     <1>13, <1>14, <1>15, <1>16, <1>17, <1>18, <1>19, <1>20, <1>21, <1>22 DEF
     Next, Step

LEMMA AlwaysRemembered == Spec => []Remembered
<1>1. Init => Remembered
  BY DEF Init, Fresh, Busy, Over, Remembered, Alone, Carried, RefsKept, Remembering
<1>2. TypeOK /\ Remembered /\ [Next]_vars => Remembered'
  BY RememberedStep
<1>3. QED
  BY <1>1, <1>2, TypeCorrect, PTL DEF Spec

(* Where the window has room for two messages, the model is shown the      *)
(* message it is to answer and, in a turn that met no other and could read *)
(* its thread, the newest message before it.                               *)
THEOREM TheLatestIsSeen ==
  ASSUME Window > 1
  PROVE  Spec => []SeesTheLatest
<1>1. Init => SeenByAll
  BY DEF Init, Fresh, SeenByAll, Seen, Asking, Answering
<1>2. TypeOK /\ Remembered /\ SeenByAll /\ [Next]_vars => SeenByAll'
  BY SeenStep
<1>3. SeenByAll => SeesTheLatest
  BY DEF SeenByAll, SeesTheLatest, Seen, Shows, Answering
<1>4. QED
  BY <1>1, <1>2, <1>3, TypeCorrect, AlwaysRemembered, PTL DEF Spec

-----------------------------------------------------------------------------
(* How far a turn is from its end.                                         *)
Forward(t) == turn'[t] = turn[t] \/ Distance(turn'[t].at) < Distance(turn[t].at)

(* A step that moves one turn to a place nearer to the end.                *)
LEMMA OneForward ==
  ASSUME NEW t \in Turns, Others(t), Distance(turn'[t].at) < Distance(turn[t].at)
  PROVE  \A s \in Turns : Forward(s)
  BY DEF Others, Forward

(* Every step takes the turns it changes nearer to their end.              *)
LEMMA ForwardStep ==
  ASSUME TypeOK, [Next]_vars PROVE \A s \in Turns : Forward(s)
<1>a. Typed /\ transcript \in Seq(Turns \X BOOLEAN)
  BY DEF TypeOK, DataOK, Typed
<1>1. CASE UNCHANGED turn
  BY <1>1 DEF Forward
<1>2. ASSUME NEW t \in Turns, NEW m \in Texts, NEW r0 \in Roles, Arrive(t, m, r0)
      PROVE  \A s \in Turns : Forward(s)
  <2>1. Others(t) /\ turn[t].at = "new" /\ turn'[t].at = "route"
    BY <1>2, <1>a, ArriveShape
  <2>2. QED
    BY <2>1, OneForward DEF Distance
<1>3. ASSUME NEW t \in Turns, FindPrototypes(t)
      PROVE  \A s \in Turns : Forward(s)
  BY <1>3, FindPrototypesActs, OneForward DEF Distance
<1>4. ASSUME NEW t \in Turns, TakeLock(t)
      PROVE  \A s \in Turns : Forward(s)
  BY <1>4, TakeLockActs, OneForward DEF Distance
<1>5. ASSUME NEW t \in Turns, BatchLoaded(t)
      PROVE  \A s \in Turns : Forward(s)
  BY <1>5, BatchLoadedActs, OneForward DEF Distance
<1>6. ASSUME NEW t \in Turns, Route(t)
      PROVE  \A s \in Turns : Forward(s)
  BY <1>6, RouteActs, OneForward DEF Distance
<1>7. ASSUME NEW t \in Turns, HistoryLoad(t)
      PROVE  \A s \in Turns : Forward(s)
  BY <1>7, HistoryLoadActs, OneForward DEF Distance
<1>8. ASSUME NEW t \in Turns, AskSave(t)
      PROVE  \A s \in Turns : Forward(s)
  BY <1>8, AskSaveActs, OneForward DEF Distance
<1>9. ASSUME NEW t \in Turns, RefsLoad(t)
      PROVE  \A s \in Turns : Forward(s)
  BY <1>9, RefsLoadActs, OneForward DEF Distance
<1>10. ASSUME NEW t \in Turns, Listen(t)
       PROVE  \A s \in Turns : Forward(s)
  BY <1>10, ListenActs, OneForward DEF Distance
<1>11. ASSUME NEW t \in Turns, Rank(t)
       PROVE  \A s \in Turns : Forward(s)
  BY <1>11, RankActs, OneForward DEF Distance
<1>12. ASSUME NEW t \in Turns, FastSearch(t)
       PROVE  \A s \in Turns : Forward(s)
  BY <1>12, FastSearchActs, OneForward DEF Distance
<1>13. ASSUME NEW t \in Turns, ModelTalks(t)
       PROVE  \A s \in Turns : Forward(s)
  BY <1>13, ModelTalksActs, OneForward DEF Distance
<1>14. ASSUME NEW t \in Turns, NEW c \in Calls, NEW recovered \in BOOLEAN,
            ModelCalls(t, c, recovered)
       PROVE  \A s \in Turns : Forward(s)
  BY <1>14, ModelCallsActs, OneForward DEF Distance
<1>15. ASSUME NEW t \in Turns, ToolRun(t)
       PROVE  \A s \in Turns : Forward(s)
  BY <1>15, ToolRunActs, OneForward DEF Distance
<1>16. ASSUME NEW t \in Turns, ToolRefuses(t)
       PROVE  \A s \in Turns : Forward(s)
  BY <1>16, ToolRefusesActs, OneForward DEF Distance
<1>17. ASSUME NEW t \in Turns, FinalCall(t)
       PROVE  \A s \in Turns : Forward(s)
  BY <1>17, FinalCallActs, OneForward DEF Distance
<1>18. ASSUME NEW t \in Turns, RefsSave(t)
       PROVE  \A s \in Turns : Forward(s)
  <2>1. Others(t) /\ turn[t].at = "save" /\ turn'[t].at = "reply"
    BY <1>18, <1>a, RefsSaveShape
  <2>2. QED
    BY <2>1, OneForward DEF Distance
<1>19. ASSUME NEW t \in Turns, ReplySave(t)
       PROVE  \A s \in Turns : Forward(s)
  <2>1. Others(t) /\ turn[t].at = "reply" /\ turn'[t].at = "done"
    BY <1>19, <1>a, ReplySaveShape
  <2>2. QED
    BY <2>1, OneForward DEF Distance
<1>20. ASSUME NEW t \in Turns, Fails(t)
       PROVE  \A s \in Turns : Forward(s)
  <2>1. Others(t) /\ turn[t].at \in Raising /\ turn'[t].at = "failed"
    BY <1>20, <1>a, FailsShape DEF Ends
  <2>2. QED
    BY <2>1, OneForward DEF Distance, Raising
<1>21. CASE Restart
  <2>1. \A s \in Turns : IF s \in Busy THEN Ends(s, "lost") ELSE turn'[s] = turn[s]
    BY <1>21, <1>a, RestartShape
  <2>2. \A s \in Busy : Distance(turn[s].at) > 0
    BY DEF Busy, Over, Distance, TypeOK, DataOK, TurnType, Places
  <2>3. QED
    BY <2>1, <2>2 DEF Forward, Ends, Distance
<1>22. QED
  BY <1>1, <1>2, <1>3, <1>4, <1>5, <1>6, <1>7, <1>8, <1>9, <1>10, <1>11, <1>12,
     <1>13, <1>14, <1>15, <1>16, <1>17, <1>18, <1>19, <1>20, <1>21
     DEF Next, Step, Forget, vars

(* No turn ever goes back or stays while it acts, whatever runs beside it: *)
(* it is at most fifteen calls from its end when it arrives.               *)
THEOREM TurnsOnlyGoForward == Spec => TurnsGoForward
<1>1. TypeOK /\ [Next]_vars => \A t \in Turns : Forward(t)
  BY ForwardStep
<1>2. QED
  BY <1>1, TypeCorrect, PTL DEF Spec, TurnsGoForward, Forward
=============================================================================
