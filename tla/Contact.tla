------------------------------ MODULE Contact ------------------------------
(***************************************************************************)
(* How renters and the landlord of a property meet: tours                  *)
(* (app/tools/tour_ops.py and its routes) and chat threads between users   *)
(* (app/tools/chat_ops.py), under the role that get_optional_user_context  *)
(* (app/core/dependecies.py) gives a request.                              *)
(*                                                                         *)
(* One property, of Landlord; others may own other ones. A request that    *)
(* has read what it needs writes in later steps, and may fail before any   *)
(* of them. The notifications of both files change nothing: that of        *)
(* book_tour lacks the type its table wants, the others name columns the   *)
(* table does not have. The database refuses them and the workers go on.   *)
(***************************************************************************)
EXTENDS Integers, FiniteSets

CONSTANTS
  Users, Landlord, Nobody,
  StoredRoles,      \* what profiles.role of somebody with properties may hold
  Handlers,         \* requests that may be in flight at the same time
  MaxTours, MaxThreads, MaxMessages,   \* bounds: rows ever inserted
  Asks,             \* what requests for a thread name: <<property, recipient>>
  MaxFaults         \* bound: requests that fail half way

Tours == 1 .. MaxTours
Threads == 1 .. MaxThreads
Tickets == 1 .. MaxMessages
Party == Users \union {Nobody}

ASSUME ContactAssumption ==
  /\ Landlord \in Users /\ Nobody \notin Users
  /\ Asks \subseteq BOOLEAN \X BOOLEAN
  /\ MaxTours \in Nat /\ MaxThreads \in Nat /\ MaxMessages \in Nat /\ MaxFaults \in Nat

VARIABLES
  role,             \* profiles.role
  visitor, status,  \* tours: who asked (Nobody: no row), status
  \* chat_threads: whether the row exists, names the property, its two
  \* parties, and last_message_at as the number of tickets drawn by then
  exists, about, renter, owner, last,
  messages,         \* rows [thread, sender, ticket]; the ticket is created_at
  tickets,          \* tickets drawn
  req, faults,
  \* History: what the landlord was last told of a tour, and what
  \* overlapping or failing requests have worked on.
  told, mixed

tourVars == <<visitor, status, told>>
threadVars == <<exists, about, renter, owner, last, messages, tickets>>
vars == <<role, tourVars, threadVars, req, faults, mixed>>

Decisions == {"approved", "denied"}
Idle == [at |-> "idle", user |-> Nobody, role |-> "none", tour |-> 0, decision |-> "none",
         about |-> FALSE, to |-> Nobody, thread |-> 0, ticket |-> 0, stamp |-> 0]

Init ==
  /\ role \in [Users -> StoredRoles \union {"renter"}]
  /\ role[Landlord] # "renter"
  /\ visitor = [t \in Tours |-> Nobody]
  /\ status = [t \in Tours |-> "none"]
  /\ exists = [t \in Threads |-> FALSE]
  /\ about = [t \in Threads |-> FALSE]
  /\ renter = [t \in Threads |-> Nobody]
  /\ owner = [t \in Threads |-> Nobody]
  /\ last = [t \in Threads |-> 0]
  /\ messages = {}
  /\ tickets = 0
  /\ req = [h \in Handlers |-> Idle]
  /\ faults = 0
  /\ told = [t \in Tours |-> "none"]
  /\ mixed = {}

-----------------------------------------------------------------------------
(* Who is asking.  Any failure to read the profile makes the role "renter";*)
(* a token that cannot be checked makes a guest, who is refused at once.   *)
ContextRole(u) == {role[u], "renter"}

Go(h, at) == req' = [req EXCEPT ![h].at = at]
Leave(h)  == req' = [req EXCEPT ![h] = Idle]

NoSubject == <<"none", 0>>

(* A request starts to work on a subject; another one at work on the same  *)
(* subject makes what they do mixed.                                       *)
Subject(r) == CASE r.at \in {"decide", "told"} -> <<"tour", r.tour>>
                [] r.at \in {"message", "touch"} -> <<"thread", r.thread>>
                [] r.at = "open" -> <<"open", 0>>
                [] OTHER -> NoSubject

Enter(h, entry) ==
  /\ req[h].at = "idle"
  /\ req' = [req EXCEPT ![h] = entry]
  /\ mixed' = IF \E k \in Handlers : Subject(req[k]) = Subject(entry) /\ Subject(entry) # NoSubject
              THEN mixed \union {Subject(entry)} ELSE mixed

-----------------------------------------------------------------------------
(* book_tour_worker, for a visitor with a profile who named a date.  Any   *)
(* authenticated user may book, and as often as they like.                 *)

BookRead(h, u) ==
  /\ \E t \in Tours : visitor[t] = Nobody
  /\ Enter(h, [Idle EXCEPT !.at = "book", !.user = u])
  /\ UNCHANGED <<role, tourVars, threadVars, faults>>

BookInsert(h) ==
  /\ req[h].at = "book"
  /\ \E t \in Tours :
       /\ \A s \in Tours : visitor[s] = Nobody <=> s >= t
       /\ visitor' = [visitor EXCEPT ![t] = req[h].user]
       /\ status' = [status EXCEPT ![t] = "pending_approval"]
  /\ Leave(h)
  /\ UNCHANGED <<role, told, threadVars, faults, mixed>>

\* Fault: the tour is not looked up.
ManageRead_Unknown(h, u, t, d) ==
  /\ "owner" \in ContextRole(u)
  /\ u = Landlord
  /\ Enter(h, [Idle EXCEPT !.at = "decide", !.user = u, !.role = "owner",
                           !.tour = t, !.decision = d])
  /\ UNCHANGED <<role, tourVars, threadVars, faults>>

(* manage_tour_request_worker: the role must be "owner" and the tour must  *)
(* be of the caller's property.  Its status is read and not looked at.     *)
ManageRead(h, u, t, d) ==
  /\ "owner" \in ContextRole(u)
  /\ visitor[t] # Nobody
  /\ u = Landlord
  /\ Enter(h, [Idle EXCEPT !.at = "decide", !.user = u, !.role = "owner",
                           !.tour = t, !.decision = d])
  /\ UNCHANGED <<role, tourVars, threadVars, faults>>

\* Fault: only a tour that is still pending is updated, and nobody checks.
Decide_PendingOnly(h) ==
  LET t == req[h].tour IN
  /\ req[h].at = "decide"
  /\ status' = [status EXCEPT ![t] = IF @ = "pending_approval" THEN req[h].decision ELSE @]
  /\ Go(h, "told")
  /\ UNCHANGED <<role, visitor, told, threadVars, faults, mixed>>

Decide(h) ==
  LET t == req[h].tour IN
  /\ req[h].at = "decide"
  /\ status' = [status EXCEPT ![t] = req[h].decision]
  /\ Go(h, "told")
  /\ UNCHANGED <<role, visitor, told, threadVars, faults, mixed>>

DecisionAnswered(h) ==
  /\ req[h].at = "told"
  /\ told' = [told EXCEPT ![req[h].tour] = req[h].decision]
  /\ Leave(h)
  /\ UNCHANGED <<role, visitor, status, threadVars, faults, mixed>>

-----------------------------------------------------------------------------
(* create_chat_thread_worker.  A thread of the caller about the property,  *)
(* whoever is at its other end, is handed out again; only a request that   *)
(* names property and recipient looks for one.                             *)

\* Fault: only threads the caller opened as a renter are found.
Found_AsRenter(u) == {t \in Threads : exists[t] /\ about[t] /\ u = renter[t]}

Parties(t) == {renter[t], owner[t]}
Found(u) == {t \in Threads : exists[t] /\ about[t] /\ u \in Parties(t)}

ThreadReuse(h, u, to) ==
  /\ req[h].at = "idle"
  /\ \E t \in Found(u) :
       req' = [req EXCEPT ![h] = [Idle EXCEPT !.at = "given", !.user = u, !.to = to, !.thread = t]]
  /\ UNCHANGED <<role, tourVars, threadVars, faults, mixed>>

ThreadMissing(h, u, onProperty, to) ==
  /\ <<onProperty, to # Nobody>> \in Asks
  /\ onProperty /\ to # Nobody => Found(u) = {}
  /\ \E r \in ContextRole(u) :
       Enter(h, [Idle EXCEPT !.at = "open", !.user = u, !.role = r, !.about = onProperty, !.to = to])
  /\ UNCHANGED <<role, tourVars, threadVars, faults>>

ThreadInsert(h) ==
  LET r == req[h]  asOwner == r.role = "landlord" IN
  /\ r.at = "open"
  /\ \E t \in Threads :
       /\ \A s \in Threads : exists[s] <=> s < t
       /\ exists' = [exists EXCEPT ![t] = TRUE]
       /\ about' = [about EXCEPT ![t] = r.about]
       /\ owner' = [owner EXCEPT ![t] = IF asOwner THEN r.user ELSE r.to]
       /\ renter' = [renter EXCEPT ![t] = IF asOwner THEN r.to ELSE r.user]
       /\ last' = [last EXCEPT ![t] = tickets]
       /\ req' = [req EXCEPT ![h] = [Idle EXCEPT !.at = "given", !.user = r.user, !.to = r.to, !.thread = t]]
  /\ UNCHANGED <<role, tourVars, messages, tickets, faults, mixed>>

ThreadAnswered(h) ==
  /\ req[h].at = "given"
  /\ Leave(h)
  /\ UNCHANGED <<role, tourVars, threadVars, faults, mixed>>

-----------------------------------------------------------------------------
(* send_message_worker: the row, then last_message_at, then a notice that  *)
(* is refused.                                                             *)

SendRead(h, u, t) ==
  /\ exists[t] /\ u \in Parties(t)
  /\ tickets < MaxMessages
  /\ tickets' = tickets + 1
  /\ Enter(h, [Idle EXCEPT !.at = "message", !.user = u, !.thread = t, !.ticket = tickets + 1])
  /\ UNCHANGED <<role, tourVars, exists, about, renter, owner, last, messages, faults>>

SendInsert(h) ==
  /\ req[h].at = "message"
  /\ messages' = messages \union
       {[thread |-> req[h].thread, sender |-> req[h].user, ticket |-> req[h].ticket]}
  /\ req' = [req EXCEPT ![h] = [@ EXCEPT !.at = "touch", !.stamp = tickets]]
  /\ UNCHANGED <<role, tourVars, exists, about, renter, owner, last, tickets, faults, mixed>>

\* Fault: the thread the message went to is touched before the message is
\* stamped.
SendTouch_Early(h) ==
  /\ req[h].at = "touch"
  /\ last' = [last EXCEPT ![req[h].thread] = req[h].ticket - 1]
  /\ Leave(h)
  /\ UNCHANGED <<role, tourVars, exists, about, renter, owner, messages, tickets, faults, mixed>>

SendTouch(h) ==
  /\ req[h].at = "touch"
  /\ last' = [last EXCEPT ![req[h].thread] = req[h].stamp]
  /\ Leave(h)
  /\ UNCHANGED <<role, tourVars, exists, about, renter, owner, messages, tickets, faults, mixed>>

-----------------------------------------------------------------------------
(* A call fails or the process dies: the request ends, what it has written *)
(* stays.                                                                  *)
Fails(h) ==
  /\ req[h].at # "idle"
  /\ faults < MaxFaults
  /\ faults' = faults + 1
  /\ mixed' = mixed \union ({Subject(req[h])} \ {NoSubject})
  /\ Leave(h)
  /\ UNCHANGED <<role, tourVars, threadVars>>

TourStep(h) ==
  \/ \E u \in Users : BookRead(h, u)
  \/ BookInsert(h)
  \/ \E u \in Users, t \in Tours, d \in Decisions : ManageRead(h, u, t, d)
  \/ Decide(h)
  \/ DecisionAnswered(h)

ThreadStep(h) ==
  \/ \E u \in Users, to \in Users : to # u /\ ThreadReuse(h, u, to)
  \/ \E u \in Users, p \in BOOLEAN, to \in Party : to # u /\ ThreadMissing(h, u, p, to)
  \/ ThreadInsert(h)
  \/ ThreadAnswered(h)
  \/ \E u \in Users, t \in Threads : SendRead(h, u, t)
  \/ SendInsert(h)
  \/ SendTouch(h)

Next == \E h \in Handlers : TourStep(h) \/ ThreadStep(h) \/ Fails(h)
Spec == Init /\ [][Next]_vars

(* The landlord goes on asking until a tour is decided, and the event loop *)
(* resumes a worker whose call has been answered.                          *)
LandlordDecides ==
  \A h \in Handlers :
    /\ SF_vars(\E t \in Tours : status[t] = "pending_approval" /\ ManageRead(h, Landlord, t, "approved"))
    /\ WF_vars(BookInsert(h) \/ Decide(h) \/ DecisionAnswered(h))
FairSpec == Spec /\ LandlordDecides

-----------------------------------------------------------------------------
Busy(subject) == \E h \in Handlers : Subject(req[h]) = subject

(* The rows of the tables.                                                 *)
RowsOK ==
  /\ role \in [Users -> StoredRoles \union {"renter"}]
  /\ visitor \in [Tours -> Party] /\ told \in [Tours -> Decisions \union {"none"}]
  /\ status \in [Tours -> Decisions \union {"none", "pending_approval"}]
  /\ exists \in [Threads -> BOOLEAN] /\ about \in [Threads -> BOOLEAN]
  /\ renter \in [Threads -> Party] /\ owner \in [Threads -> Party]
  /\ last \in [Threads -> 0 .. MaxMessages]
  /\ messages \subseteq [thread : Threads, sender : Users, ticket : Tickets]
  /\ tickets \in 0 .. MaxMessages

Places == {"idle", "book", "decide", "told", "open", "given", "message", "touch"}
Requests ==
  [at : Places, user : Party, role : StoredRoles \union {"none", "renter", "owner"},
   tour : 0 .. MaxTours, decision : Decisions \union {"none"}, about : BOOLEAN, to : Party,
   thread : 0 .. MaxThreads, ticket : 0 .. MaxMessages, stamp : 0 .. MaxMessages]

(* A request past its first read works on rows that exist.                 *)
Works(r) ==
  /\ r.at # "idle" => r.user \in Users
  /\ r.at \in {"decide", "told"} => /\ r.tour \in Tours /\ r.decision \in Decisions
                                    /\ visitor[r.tour] # Nobody
  /\ r.at \in {"message", "touch"} => /\ r.thread \in Threads /\ r.ticket \in Tickets
                                      /\ exists[r.thread]

(* Rows and requests stay in their vocabularies.                           *)
TypeOK ==
  /\ RowsOK
  /\ faults \in 0 .. MaxFaults
  /\ req \in [Handlers -> Requests]
  /\ \A h \in Handlers : Works(req[h])

(* A tour is decided by the landlord of its property, and only while the   *)
(* profile says "owner": no failure on the way to the profile gives rights.*)
OwnerDecides ==
  [][\A t \in Tours :
       status'[t] # status[t] /\ status[t] # "none"
         => /\ role[Landlord] = "owner"
            /\ \E h \in Handlers : /\ req[h].user = Landlord /\ req[h].tour = t
                                   /\ req[h].decision = status'[t]]_vars

(* With nothing at work on a tour, and nothing on it that overlapped or    *)
(* failed, its status is what the landlord was last told.                  *)
DecisionIsTold ==
  \A t \in Tours :
    ~ Busy(<<"tour", t>>) /\ <<"tour", t>> \notin mixed /\ told[t] # "none" => status[t] = told[t]

(* Two people have one thread about the property, unless requests to open  *)
(* one overlapped or failed.                                               *)
OneThreadPerPair ==
  <<"open", 0>> \notin mixed =>
    \A s, t \in Threads :
      /\ exists[s] /\ about[s] /\ exists[t] /\ about[t]
      /\ Parties(s) = Parties(t) /\ Nobody \notin Parties(s)
      => s = t

(* A thread is listed by its newest message: unless sends overlapped or    *)
(* failed, last_message_at is not older than any message it answered for.  *)
ListedByNewest ==
  \A m \in messages :
    ~ Busy(<<"thread", m.thread>>) /\ <<"thread", m.thread>> \notin mixed
      => last[m.thread] >= m.ticket

(* A tour somebody asked for is approved when the landlord insists on it.  *)
ApprovalArrives ==
  \A t \in Tours : status[t] = "pending_approval" ~> status[t] # "pending_approval"
=============================================================================
