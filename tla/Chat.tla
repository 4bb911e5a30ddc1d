-------------------------------- MODULE Chat --------------------------------
(***************************************************************************)
(* The assistant's side of one chat thread: POST /api/chat                 *)
(* (app/routes/chat_routes.py), process_chat_message                       *)
(* (app/services/chat_service.py) with what it persists and remembers, the *)
(* intent router (app/core/intent_transformer.py) and the single call      *)
(* agent (app/core/lightweight_agent.py).                                  *)
(*                                                                         *)
(* A turn is one request.  The requests of a thread are coroutines of one  *)
(* process: they interleave at every await, they may fail at most of them, *)
(* and the process may be restarted.  What the models behind the awaits    *)
(* answer is not predicted.                                                *)
(***************************************************************************)
EXTENDS Integers, Sequences

CONSTANTS
  MaxTurns,   \* bound: requests
  Texts,      \* what a message may say: the page it asks for, whether it is
              \* small talk, whether it names a date
  Roles,      \* the callers, as get_optional_user_context tells them
  Offered,    \* tools the model may call
  Limit,      \* messages load_thread_history_from_db fetches
  Window,     \* messages trim_conversation_history leaves
  MaxFaults   \* bound: failed calls, forgotten references and restarts

Turns == 1 .. MaxTurns
Nobody == 0

Tools == {"search", "book", "pay", "apply"}
Changes == Tools \ {"search"}       \* tools that write to the database
WRITE_TOOLS == {"book", "pay"}      \* tools after which the model is not called again
TOOL_UI_FALLBACKS == {"book", "apply"}
Dated == {"book", "apply"}          \* tools with a date among their fields
Guarded == {"book"}                 \* tools that refuse with "User context missing"

\* The entity kinds under which a tool result or a widget leaves ids.
Keys == {"properties", "property", "transaction"}
Pages == {"payments", "dashboard", "landlord"}
NoPage == "none"

Says == [page : Pages \union {NoPage}, talk : BOOLEAN, dated : BOOLEAN]
Calls == [tool : Tools, date : BOOLEAN, complete : BOOLEAN]

ASSUME ChatAssumption ==
  /\ MaxTurns \in Nat /\ Limit \in Nat \ {0} /\ Window \in Nat \ {0} /\ MaxFaults \in Nat
  /\ Texts \subseteq Says
  /\ Roles \subseteq {"guest", "renter", "owner"}
  /\ Offered \subseteq Tools

VARIABLES
  turn,        \* each request: where it is and what it holds
  thread,      \* whether the chat_threads row exists
  transcript,  \* messages in the order of created_at: <<turn, is_ai_response>>
  refs,        \* cached entity refs: the turn whose result each key holds
  shared,      \* whether the cache is Redis: it outlives the process and may raise
  prototypes,  \* _prototype_embeddings has been loaded
  lock,        \* holder of _prototype_lock
  toolVectors, \* _tool_embeddings_cache has been loaded
  faults,
  \* History: requests that ran beside another one, the last turn to save
  \* each key, the keys that were forgotten or saved over by such a
  \* request since, and the batches of embeddings this process has completed.
  mixed, saved, excused, batches

store == <<thread, transcript>>
memory == <<refs, saved, excused>>
router == <<prototypes, lock, batches>>
vars == <<turn, store, memory, shared, router, toolVectors, faults, mixed>>

NoText == [page |-> NoPage, talk |-> FALSE, dated |-> FALSE]
NoCall == [tool |-> "search", date |-> FALSE, complete |-> FALSE]
NoRefs == [k \in Keys |-> Nobody]

Fresh == [at |-> "new", role |-> "guest", says |-> NoText, latest |-> <<>>, seen |-> <<>>,
          read |-> FALSE, cached |-> NoRefs, call |-> NoCall, wrote |-> FALSE,
          news |-> {}, reply |-> "text", answer |-> "none"]

Init ==
  /\ turn = [t \in Turns |-> Fresh]
  /\ thread = FALSE
  /\ transcript = <<>>
  /\ refs = NoRefs
  /\ shared \in BOOLEAN
  /\ prototypes = FALSE
  /\ lock = Nobody
  /\ toolVectors = FALSE
  /\ faults = 0
  /\ mixed = {}
  /\ saved = NoRefs
  /\ excused = {}
  /\ batches = 0

-----------------------------------------------------------------------------
Over == {"new", "done", "failed", "lost"}
Busy == {t \in Turns : turn[t].at \notin Over}

At(t, place) == turn[t].at = place
Go(t, place) == turn' = [turn EXCEPT ![t].at = place]

Faulty == faults < MaxFaults /\ faults' = faults + 1
Works  == UNCHANGED faults

Newest(s, n) == IF Len(s) <= n THEN s ELSE SubSeq(s, Len(s) - n + 1, Len(s))
LastOf(s) == IF s = <<>> THEN <<>> ELSE s[Len(s)]

-----------------------------------------------------------------------------
(* The intent router.                                                      *)

Arrive(t, m, r) ==
  /\ At(t, "new")
  /\ \A s \in Turns : s < t => ~ At(s, "new")
  /\ turn' = [turn EXCEPT ![t].at = "route", ![t].says = m, ![t].role = r,
                          ![t].latest = LastOf(transcript)]
  /\ mixed' = IF Busy = {} THEN mixed ELSE mixed \union Busy \union {t}
  /\ UNCHANGED <<store, memory, shared, router, toolVectors, faults>>

FindPrototypes(t) ==
  /\ At(t, "route")
  /\ Go(t, IF prototypes THEN "embed" ELSE "wait")
  /\ UNCHANGED <<store, memory, shared, router, toolVectors, faults, mixed>>

\* Fault: whoever gets the lock loads them.
TakeLock_NoRecheck(t) ==
  /\ At(t, "wait")
  /\ lock = Nobody
  /\ Go(t, "batch")
  /\ lock' = t
  /\ UNCHANGED <<store, memory, shared, prototypes, batches, toolVectors, faults, mixed>>

(* Whoever gets the lock looks again: another request may have loaded them *)
(* while this one waited.                                                  *)
TakeLock(t) ==
  /\ At(t, "wait")
  /\ lock = Nobody
  /\ Go(t, IF prototypes THEN "embed" ELSE "batch")
  /\ lock' = IF prototypes THEN Nobody ELSE t
  /\ UNCHANGED <<store, memory, shared, prototypes, batches, toolVectors, faults, mixed>>

(* The code awaits one embedding call per intent; they are one step here,  *)
(* counted when the last has come back.  A batch that fails half way has   *)
(* paid for its first calls and is not counted.                            *)
BatchLoaded(t) ==
  /\ At(t, "batch")
  /\ prototypes' = TRUE
  /\ lock' = Nobody
  /\ batches' = batches + 1
  /\ Go(t, "embed")
  /\ UNCHANGED <<store, memory, shared, toolVectors, faults, mixed>>

(* A message that asks for a page is answered with the page, and the       *)
(* agent is left out.                                                      *)
Route(t) ==
  /\ At(t, "embed")
  /\ Go(t, IF turn[t].says.page = NoPage THEN "history" ELSE "ask")
  /\ UNCHANGED <<store, memory, shared, router, toolVectors, faults, mixed>>

-----------------------------------------------------------------------------
(* What the model is shown, and what the thread keeps.                     *)

Question(t) == <<t, FALSE>>
Answer(t)   == <<t, TRUE>>

\* Fault: the limit keeps the oldest messages.
HistoryLoad_Oldest(t) ==
  /\ At(t, "history")
  /\ LET history == IF Len(transcript) <= Limit THEN transcript ELSE SubSeq(transcript, 1, Limit) IN
     turn' = [turn EXCEPT ![t].at = "ask", ![t].read = TRUE,
                          ![t].seen = Newest(Append(history, Question(t)), Window)]
  /\ UNCHANGED <<store, memory, shared, router, toolVectors, faults, mixed>>

(* The newest messages of the thread in the order they were written, then  *)
(* the message of this turn; an unreadable thread counts as an empty one.  *)
HistoryLoad(t) ==
  /\ At(t, "history")
  /\ \E read \in BOOLEAN :
       /\ IF read THEN Works ELSE Faulty
       /\ LET history == IF read THEN Newest(transcript, Limit) ELSE <<>> IN
          turn' = [turn EXCEPT ![t].at = "ask", ![t].read = read,
                               ![t].seen = Newest(Append(history, Question(t)), Window)]
  /\ UNCHANGED <<store, memory, shared, router, toolVectors, mixed>>

(* save_message_to_db: the row of the thread, then the message.  An error  *)
(* of either is logged and the turn goes on.                               *)
AskSave(t) ==
  /\ At(t, "ask")
  /\ \/ /\ thread' = TRUE
        /\ transcript' = Append(transcript, Question(t))
        /\ Works
     \/ /\ thread' \in {thread, TRUE}
        /\ UNCHANGED transcript
        /\ Faulty
  /\ Go(t, IF turn[t].says.page = NoPage THEN "refs" ELSE "reply")
  /\ UNCHANGED <<memory, shared, router, toolVectors, mixed>>

RefsLoad(t) ==
  /\ At(t, "refs")
  /\ turn' = [turn EXCEPT ![t].at = "agent", ![t].cached = refs]
  /\ UNCHANGED <<store, memory, shared, router, toolVectors, faults, mixed>>

-----------------------------------------------------------------------------
(* The agent: one call of the model, at most one tool.                     *)

(* Small talk gets no tools; otherwise they are ranked against vectors     *)
(* that the first request loads, without a lock.                           *)
Listen(t) ==
  /\ At(t, "agent")
  /\ Go(t, IF turn[t].says.talk THEN "model" ELSE "rank")
  /\ UNCHANGED <<store, memory, shared, router, toolVectors, faults, mixed>>

Rank(t) ==
  /\ At(t, "rank")
  /\ toolVectors' = TRUE
  /\ \E place \in {"fast", "model"} : Go(t, place)
  /\ UNCHANGED <<store, memory, shared, router, faults, mixed>>

(* What a turn still holds of its call, once it has run: a write is        *)
(* remembered with the message and the call it came from.                  *)
Trace(r) == IF r.wrote THEN [Fresh EXCEPT !.says = r.says, !.call = r.call, !.wrote = TRUE] ELSE Fresh

(* The turn is left with a reply, and with the ids to remember of it.      *)
Conclude(t, news, reply, wrote) ==
  turn' = [turn EXCEPT ![t] = [Trace([@ EXCEPT !.wrote = wrote]) EXCEPT
             !.at = IF news = {} THEN "reply" ELSE "save",
             !.news = news, !.reply = reply,
             !.cached = IF news = {} THEN NoRefs ELSE turn[t].cached]]

FastSearch(t) ==
  /\ At(t, "fast")
  /\ \E news \in {{}, {"properties"}} : Conclude(t, news, "text", FALSE)
  /\ UNCHANGED <<store, memory, shared, router, toolVectors, faults, mixed>>

(* A text, or a call that could not be recovered and is apologised for.    *)
ModelTalks(t) ==
  /\ At(t, "model")
  /\ Conclude(t, {}, "text", FALSE)
  /\ UNCHANGED <<store, memory, shared, router, toolVectors, faults, mixed>>

\* A date is the user's when the newest message names one.
Grounded(t, c) == c.date => turn[t].says.dated

(* _remove_ungrounded_datetime_args.                                       *)
Cleaned(t, c) == IF Grounded(t, c) THEN c ELSE [c EXCEPT !.date = FALSE]

\* Fault: a date is taken to have been cleaned already.
Missing_Trusting(t, c) ==
  ~ c.complete \/ (c.tool = "apply" /\ ~ c.date)

(* _get_missing_or_unconfirmed_args: another field is missing, or a date   *)
(* is, or a date is there that the user did not name.                      *)
Missing(t, c) ==
  \/ ~ c.complete
  \/ c.tool = "apply" /\ ~ c.date
  \/ ~ Grounded(t, c)

(* A call the provider rejected is recovered from the text of its error,   *)
(* and does not go through the cleaning.  A call with something missing    *)
(* becomes a widget or a question.                                         *)
ModelCalls(t, c, recovered) ==
  LET args == IF recovered THEN c ELSE Cleaned(t, c) IN
  /\ At(t, "model")
  /\ ~ turn[t].says.talk
  /\ IF Missing(t, args)
     THEN \E news \in {{}} \union (IF c.tool \in TOOL_UI_FALLBACKS THEN {{"property"}} ELSE {}) :
            Conclude(t, news, "text", FALSE)
     ELSE turn' = [turn EXCEPT ![t].at = "tool", ![t].call = args,
                                ![t].seen = <<>>, ![t].latest = <<>>, ![t].read = FALSE]
  /\ UNCHANGED <<store, memory, shared, router, toolVectors, faults, mixed>>

\* Only a tour without a date is not written: its visitor is asked for one.
Effective(c) == c.tool \in Changes /\ (c.tool = "book" => c.date)

(* The ids that a tool's answer holds when it succeeds.                    *)
Found(c) == CASE c.tool = "search" -> {"properties"}
              [] c.tool = "pay" -> {"transaction"}
              [] c.tool = "book" /\ ~ c.date -> {"property"}
              [] OTHER -> {}

\* Fault: no tool's own answer is final.
ToolRun_AskAgain(t) ==
  LET c == turn[t].call IN
  /\ At(t, "tool")
  /\ turn[t].role # "guest" \/ c.tool = "search"
  /\ \E ok \in BOOLEAN :
       turn' = [turn EXCEPT ![t].at = "final", ![t].wrote = ok /\ Effective(c),
                            ![t].news = IF ok THEN Found(c) ELSE {}]
  /\ UNCHANGED <<store, memory, shared, router, toolVectors, faults, mixed>>

(* The tool runs, or answers with an error.  A WRITE_TOOL ends the turn:   *)
(* its answer is the reply where the model's message has no text of its    *)
(* own; otherwise that text is, and the answer travels in the data of the  *)
(* response.  For the other tools the model is called again.               *)
ToolRun(t) ==
  LET c == turn[t].call IN
  /\ At(t, "tool")
  /\ turn[t].role # "guest" \/ c.tool = "search"
  /\ \E ok \in BOOLEAN :
       LET news == IF ok THEN Found(c) ELSE {} IN
       IF c.tool \in WRITE_TOOLS
       THEN Conclude(t, news, "text", ok /\ Effective(c))
       ELSE turn' = [turn EXCEPT ![t].at = "final", ![t].wrote = ok /\ Effective(c),
                                 ![t].news = news]
  /\ UNCHANGED <<store, memory, shared, router, toolVectors, faults, mixed>>

(* Every tool but the search refuses a guest.  The words some of them use  *)
(* are recognised and turned into an invitation to sign in.                *)
ToolRefuses(t) ==
  LET c == turn[t].call IN
  /\ At(t, "tool")
  /\ turn[t].role = "guest" /\ c.tool # "search"
  /\ IF c.tool \in Guarded THEN Conclude(t, {}, "signin", FALSE)
     ELSE IF c.tool \in WRITE_TOOLS THEN Conclude(t, {}, "text", FALSE)
     ELSE Go(t, "final")
  /\ UNCHANGED <<store, memory, shared, router, toolVectors, faults, mixed>>

FinalCall(t) ==
  /\ At(t, "final")
  /\ Conclude(t, turn[t].news, "text", turn[t].wrote)
  /\ UNCHANGED <<store, memory, shared, router, toolVectors, faults, mixed>>

-----------------------------------------------------------------------------
(* After the agent: the ids, the reply, the answer.                        *)

\* Fault: what the turn found replaces all that was known.
RefsSave_NewOnly(t) ==
  LET news == turn[t].news IN
  /\ At(t, "save")
  /\ refs' = [k \in Keys |-> IF k \in news THEN t ELSE Nobody]
  /\ saved' = [k \in Keys |-> IF k \in news THEN t ELSE saved[k]]
  /\ excused' = (IF t \in mixed THEN excused \union Keys ELSE excused) \ news
  /\ turn' = [turn EXCEPT ![t].at = "reply", ![t].news = {}, ![t].cached = NoRefs]
  /\ UNCHANGED <<store, shared, router, toolVectors, faults, mixed>>

(* {**cached_refs, **new_refs}: what was read before the agent ran, with   *)
(* what it found on top.                                                   *)
RefsSave(t) ==
  LET news == turn[t].news IN
  /\ At(t, "save")
  /\ refs' = [k \in Keys |-> IF k \in news THEN t ELSE turn[t].cached[k]]
  /\ saved' = [k \in Keys |-> IF k \in news THEN t ELSE saved[k]]
  /\ excused' = (IF t \in mixed THEN excused \union Keys ELSE excused) \ news
  /\ turn' = [turn EXCEPT ![t].at = "reply", ![t].news = {}, ![t].cached = NoRefs]
  /\ UNCHANGED <<store, shared, router, toolVectors, faults, mixed>>

(* _gate_redirect: guests are sent to the login before a page of their     *)
(* own, and only owners reach the pages of a landlord.                     *)
Gate(page, role) ==
  IF page = "payments" THEN "page"
  ELSE IF role = "guest" THEN "login"
  ELSE IF page = "landlord" /\ role # "owner" THEN "denied"
  ELSE "page"

(* What the caller gets.  An invitation to sign in that keeps the words of *)
(* the model is passed on as it is.                                        *)
Answers(t) == IF turn[t].says.page # NoPage THEN {Gate(turn[t].says.page, turn[t].role)}
              ELSE IF turn[t].reply = "signin" THEN {"login", "response"}
              ELSE {"response"}

\* Fault: the reply is taken to be kept whether or not the thread has its row.
ReplySave_NoRow(t) ==
  /\ At(t, "reply")
  /\ transcript' = Append(transcript, Answer(t))
  /\ \E answer \in Answers(t) :
       turn' = [turn EXCEPT ![t] = [Trace(@) EXCEPT !.at = "done", !.answer = answer]]
  /\ UNCHANGED <<thread, memory, shared, router, toolVectors, faults, mixed>>

(* The reply is kept if the thread has its row; it does not ask for one.   *)
ReplySave(t) ==
  /\ At(t, "reply")
  /\ \/ /\ transcript' = IF thread THEN Append(transcript, Answer(t)) ELSE transcript
        /\ Works
     \/ /\ UNCHANGED transcript
        /\ Faulty
  /\ \E answer \in Answers(t) :
       turn' = [turn EXCEPT ![t] = [Trace(@) EXCEPT !.at = "done", !.answer = answer]]
  /\ UNCHANGED <<thread, memory, shared, router, toolVectors, mixed>>

-----------------------------------------------------------------------------
(* What goes wrong on the way.                                             *)

\* Awaits whose error ends the request with 500: calls of the embedding and
\* chat models, a search, and the cache when it is Redis.
Raising == {"batch", "embed", "agent", "rank", "fast", "model", "tool", "final"}
           \union (IF shared THEN {"refs", "save"} ELSE {})

Ended(r, how) == [Trace(r) EXCEPT !.at = how]

\* Fault: the lock is not released by an error.
Fails_KeepsLock(t) ==
  /\ turn[t].at \in Raising
  /\ Faulty
  /\ turn' = [turn EXCEPT ![t] = Ended(@, "failed")]
  /\ UNCHANGED <<store, memory, shared, router, toolVectors, mixed>>

Fails(t) ==
  /\ turn[t].at \in Raising
  /\ Faulty
  /\ turn' = [turn EXCEPT ![t] = Ended(@, "failed")]
  /\ lock' = IF lock = t THEN Nobody ELSE lock
  /\ UNCHANGED <<store, memory, shared, prototypes, batches, toolVectors, mixed>>

(* The entry expires, is evicted, or is dropped with the whole cache.      *)
Forget ==
  /\ refs # NoRefs
  /\ Faulty
  /\ refs' = NoRefs
  /\ excused' = Keys
  /\ UNCHANGED <<turn, store, saved, shared, router, toolVectors, mixed>>

(* The process is restarted: its requests are gone, and its memory.        *)
Restart ==
  /\ Busy # {}
  /\ Faulty
  /\ turn' = [t \in Turns |-> IF t \in Busy THEN Ended(turn[t], "lost") ELSE turn[t]]
  /\ prototypes' = FALSE
  /\ toolVectors' = FALSE
  /\ lock' = Nobody
  /\ batches' = 0
  /\ IF shared THEN UNCHANGED <<refs, excused>> ELSE refs' = NoRefs /\ excused' = Keys
  /\ UNCHANGED <<store, saved, shared, mixed>>

-----------------------------------------------------------------------------
Step(t) ==
  \/ FindPrototypes(t) \/ TakeLock(t) \/ BatchLoaded(t) \/ Route(t)
  \/ HistoryLoad(t) \/ AskSave(t) \/ RefsLoad(t)
  \/ Listen(t) \/ Rank(t) \/ FastSearch(t) \/ ModelTalks(t)
  \/ \E c \in {d \in Calls : d.tool \in Offered}, recovered \in BOOLEAN : ModelCalls(t, c, recovered)
  \/ ToolRun(t) \/ ToolRefuses(t) \/ FinalCall(t)
  \/ RefsSave(t) \/ ReplySave(t)

Next ==
  \/ \E t \in Turns : \/ \E m \in Texts, r \in Roles : Arrive(t, m, r)
                      \/ Step(t)
                      \/ Fails(t)
  \/ Forget
  \/ Restart

Spec == Init /\ [][Next]_vars

(* Every await of a request comes back, with an answer or an error: this   *)
(* is assumed of the calls out (get_lightweight_model sets no timeout of   *)
(* its own); the lock is handed to whoever waits.                          *)
FairSpec == Spec /\ \A t \in Turns : WF_vars(Step(t))

-----------------------------------------------------------------------------
(* Properties.                                                             *)

Places == {"new", "route", "wait", "batch", "embed", "history", "ask", "refs", "agent", "rank",
           "fast", "model", "tool", "final", "save", "reply", "done", "failed", "lost"}

TurnType == [at : Places, role : {"guest", "renter", "owner"}, says : Says,
             latest : {<<>>} \union (Turns \X BOOLEAN), seen : Seq(Turns \X BOOLEAN),
             read : BOOLEAN, cached : [Keys -> 0 .. MaxTurns], call : Calls, wrote : BOOLEAN,
             news : SUBSET Keys, reply : {"text", "signin"},
             answer : {"none", "page", "login", "denied", "response"}]

DataOK ==
  /\ turn \in [Turns -> TurnType]
  /\ thread \in BOOLEAN
  /\ transcript \in Seq(Turns \X BOOLEAN)
  /\ transcript # <<>> => thread
  /\ refs \in [Keys -> 0 .. MaxTurns] /\ saved \in [Keys -> 0 .. MaxTurns]
  /\ shared \in BOOLEAN /\ prototypes \in BOOLEAN /\ toolVectors \in BOOLEAN
  /\ lock \in 0 .. MaxTurns
  /\ faults \in 0 .. MaxFaults
  /\ mixed \subseteq Turns /\ excused \subseteq Keys
  /\ batches \in Nat

LockOK ==
  /\ \A t \in Turns : lock = t <=> At(t, "batch")
  /\ prototypes => lock = Nobody

(* Types, and what the routers share: the lock is held exactly by the one  *)
(* request whose batch is under way, and never once the batch is there;    *)
(* a message is kept only in a thread that has its row.                    *)
TypeOK == DataOK /\ LockOK

(* What the model is shown ends with the message it is to answer; and for  *)
(* a turn that ran alone and could read its thread, the message before it  *)
(* is the newest one of the thread when the turn began                     *)
(* (process_chat_message, load_thread_history_from_db).                    *)
SeesTheLatest ==
  \A t \in Turns :
    LET r == turn[t]  n == Len(r.seen) IN
    r.at \in {"ask", "refs", "agent", "rank", "fast", "model"} /\ r.says.page = NoPage =>
      /\ n > 0 /\ r.seen[n] = Question(t)
      /\ t \notin mixed /\ r.read /\ r.latest # <<>> => n > 1 /\ r.seen[n - 1] = r.latest

(* The ids a turn found stay known until a later turn finds others of the  *)
(* same kind: a turn that finds something else keeps them.  Only losing    *)
(* the cache, or a turn that overlapped with another one, excuses their    *)
(* loss (_load_cached_entity_refs, _save_cached_entity_refs).              *)
RefsKept == \A k \in Keys \ excused : refs[k] = saved[k]

(* What a WRITE_TOOL did is answered with a response, in its text or its   *)
(* data, and not with an error: between the tool and the answer such a     *)
(* request can only fail where Redis refuses the ids of a payment.         *)
WriteIsAnswered ==
  \A t \in Turns :
    At(t, "failed") /\ turn[t].wrote /\ turn[t].call.tool \in WRITE_TOOLS =>
      shared /\ turn[t].call.tool = "pay"

(* Nothing with a date in it is written unless the newest message of the   *)
(* user names some date, on the recovery path too.  Whether it is the same *)
(* date the code does not ask (_arg_is_grounded_in_conversation).          *)
DateIsGrounded ==
  \A t \in Turns : turn[t].wrote /\ turn[t].call.tool \in Dated => turn[t].says.dated

(* The batch of prototype embeddings is completed once in the life of a    *)
(* process, however many first requests there are (_prototype_lock): after *)
(* it nobody asks for those embeddings again.                              *)
PrototypesOnce == batches <= 1

(* How many calls a turn at a place has before it, at most.                *)
Distance(place) ==
  CASE place = "new" -> 15
    [] place = "route" -> 14
    [] place = "wait" -> 13
    [] place = "batch" -> 12
    [] place = "embed" -> 11
    [] place = "history" -> 10
    [] place = "ask" -> 9
    [] place = "refs" -> 8
    [] place = "agent" -> 7
    [] place = "rank" -> 6
    [] place \in {"fast", "model"} -> 5
    [] place = "tool" -> 4
    [] place = "final" -> 3
    [] place = "save" -> 2
    [] place = "reply" -> 1
    [] OTHER -> 0

(* A turn only goes forward: no call is repeated, neither one the provider *)
(* rejected nor one whose lock was taken by another request.  So a turn    *)
(* that never ends waits at one of finitely many calls.                    *)
TurnsGoForward ==
  [][\A t \in Turns :
       turn'[t] = turn[t] \/ Distance(turn'[t].at) < Distance(turn[t].at)]_vars

(* If every call out comes back, every request ends, answered or refused,  *)
(* whatever failed before it: nobody waits for a lock that was left locked.*)
EveryTurnEnds == \A t \in Turns : ~ At(t, "new") ~> turn[t].at \in {"done", "failed", "lost"}
=============================================================================
