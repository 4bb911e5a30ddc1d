------------------------------ MODULE Listings ------------------------------
(***************************************************************************)
(* Property listings: the workers of app/tools/property_ops.py over the    *)
(* cache (module Cache), the enrichment that publishes a listing           *)
(* (app/services/property_ai_service.py, property_cron.py) and the routes  *)
(* that start it (app/routes/property_routes.py).                          *)
(*                                                                         *)
(* A text is a version of the address and location of a listing, a vector  *)
(* the text it was computed from.  Every listing matches every query.  A   *)
(* request is at a step named for the call it makes next.                  *)
(***************************************************************************)
EXTENDS Cache

CONSTANTS
  Properties, Nothing,
  Texts, NoVector,
  Handlers,        \* requests and background tasks at the same time
  Queries,         \* cache keys under the prefix "property_search:"
  Featured,        \* the key "featured_properties"
  Patches,         \* what owners send: [text, status, featured], Keep for none
  Keep,
  MaxWrites,       \* bound: updates and enrichments
  MaxFaults        \* bound: failed calls and restarts

(* A result lists properties, each with one text.                          *)
Results == {{<<p, v[p]>> : p \in S} : S \in SUBSET Properties, v \in [Properties -> Texts]}

ASSUME ListingsAssumption ==
  /\ Keys = Queries \union {Featured} /\ Featured \notin Queries
  /\ Values = Results
  /\ Texts # {}
  /\ Nothing \notin Properties /\ NoVector \notin Texts /\ Keep \notin Texts
  /\ Patches \subseteq [text : Texts \union {Keep},
                        status : {"published", "rented", "delisted", Keep},
                        featured : BOOLEAN \union {Keep}]
  /\ MaxWrites \in Nat /\ MaxFaults \in Nat

VARIABLES
  status, text, vector, described, featured,    \* table properties
  req,
  writes, faults,
  \* History: cached searches that something other than a completed
  \* invalidation has outdated; listings that overlapping or failing writers
  \* worked on; listings whose embedding was computed after their creation.
  missed, mixed, embedded

rowVars == <<status, text, vector, described, featured>>
counters == <<writes, faults>>
vars == <<cacheVars, rowVars, req, counters, missed, mixed, embedded>>

Idle == [at |-> "idle", key |-> Featured, prop |-> Nothing, via |-> "agent", vec |-> NoVector,
         patch |-> [text |-> Keep, status |-> Keep, featured |-> Keep],
         snap |-> {}, crossed |-> FALSE, shut |-> {}, todo |-> {}, due |-> {}]

Init ==
  /\ CacheInit
  /\ status = [p \in Properties |-> "absent"]
  /\ text = [p \in Properties |-> CHOOSE t \in Texts : TRUE]
  /\ vector = [p \in Properties |-> NoVector]
  /\ described = [p \in Properties |-> FALSE]
  /\ featured = [p \in Properties |-> FALSE]
  /\ req = [h \in Handlers |-> Idle]
  /\ writes = 0 /\ faults = 0
  /\ missed = {} /\ mixed = {} /\ embedded = {}

(* What match_properties finds, and what the front page may show.          *)
Visible == {<<p, text[p]>> : p \in {q \in Properties : status[q] = "published" /\ vector[q] # NoVector}}
Open    == {p \in Properties : status[p] = "published" /\ featured[p]}
OnOffer == {<<p, text[p]>> : p \in Open}

WriterSteps == {"insert", "write", "enrich", "publish"}
Working(p) == {h \in Handlers : req[h].prop = p /\ req[h].at \in WriterSteps}

Go(h, at) == req' = [req EXCEPT ![h].at = at]
Leave(h)  == req' = [req EXCEPT ![h] = Idle]

(* h starts to write p.                                                    *)
Enter(h, p, entry) ==
  /\ req[h] = Idle
  /\ req' = [req EXCEPT ![h] = entry]
  /\ mixed' = IF Working(p) = {} THEN mixed ELSE mixed \union {p}

(* A row was written: searches that have read are outdated, and what a     *)
(* front page in the making finds open is no longer shut.                  *)
Wrote(h, entry) ==
  req' = [k \in Handlers |->
            IF k = h THEN entry
            ELSE [req[k] EXCEPT !.crossed = @ \/ (req[k].at = "store" /\ Visible' # Visible),
                                !.shut = @ \ Open']]

-----------------------------------------------------------------------------
(* search_properties_worker: a cached result counts unless it is empty.    *)

SearchGet(h, q) ==
  /\ req[h] = Idle
  /\ ~ (Hit(q) /\ data[q] # {})
  /\ Get(q)
  /\ req' = [req EXCEPT ![h] = [Idle EXCEPT !.at = "query", !.key = q]]
  /\ UNCHANGED <<rowVars, counters, missed, mixed, embedded>>

SearchAnswered(h, q) ==
  /\ req[h] = Idle
  /\ Hit(q) /\ data[q] # {}
  /\ Get(q)
  /\ UNCHANGED <<rowVars, req, counters, missed, mixed, embedded>>

SearchQuery(h) ==
  /\ req[h].at = "query"
  /\ req' = [req EXCEPT ![h].at = "store", ![h].snap = Visible]
  /\ UNCHANGED <<cacheVars, rowVars, counters, missed, mixed, embedded>>

(* An entry that was not there is not one a running SCAN must return.      *)
SearchStore(h) ==
  LET q == req[h].key IN
  /\ req[h].at = "store"
  /\ Set(q, req[h].snap)
  /\ missed' = IF req[h].crossed THEN missed \union {q} ELSE missed \ {q}
  /\ req' = [k \in Handlers |->
               IF k = h THEN Idle
               ELSE [req[k] EXCEPT !.due = IF Hit(q) THEN @ ELSE @ \ {q}]]
  /\ UNCHANGED <<rowVars, counters, mixed, embedded>>

-----------------------------------------------------------------------------
(* create_property_worker.  A failed embedding is replaced by none.        *)

CreateEmbed(h, p, via, d) ==
  /\ status[p] = "absent" /\ Working(p) = {}
  /\ \E v \in {text[p], NoVector} :
       /\ faults' = IF v = NoVector THEN faults + 1 ELSE faults
       /\ faults' <= MaxFaults
       /\ Enter(h, p, [Idle EXCEPT !.at = "insert", !.prop = p, !.via = via, !.vec = v])
  /\ described' = [described EXCEPT ![p] = d]
  /\ UNCHANGED <<cacheVars, status, text, vector, featured, writes, missed, embedded>>

Clearing(h) == [Idle EXCEPT !.at = "clear", !.prop = req[h].prop, !.via = req[h].via,
                            !.due = {q \in Queries : Hit(q)}]

CreateInsert(h) ==
  LET p == req[h].prop IN
  /\ req[h].at = "insert"
  /\ status' = [status EXCEPT ![p] = "draft"]
  /\ vector' = [vector EXCEPT ![p] = req[h].vec]
  /\ req' = [req EXCEPT ![h] = Clearing(h)]
  /\ UNCHANGED <<cacheVars, text, described, featured, counters, missed, mixed, embedded>>

-----------------------------------------------------------------------------
\* Fault: the listing is not looked up.
UpdateRead_Blind(h, p, via, patch) ==
  /\ writes < MaxWrites
  /\ writes' = writes + 1
  /\ Enter(h, p, [Idle EXCEPT !.at = "write", !.prop = p, !.via = via, !.patch = patch])
  /\ UNCHANGED <<cacheVars, rowVars, faults, missed, embedded>>

(* update_property_worker, for the owner.  A change of the text computes a *)
(* new vector first.                                                       *)

UpdateRead(h, p, via, patch) ==
  /\ status[p] # "absent"
  /\ writes < MaxWrites
  /\ writes' = writes + 1
  /\ Enter(h, p, [Idle EXCEPT !.at = "write", !.prop = p, !.via = via, !.patch = patch])
  /\ UNCHANGED <<cacheVars, rowVars, faults, missed, embedded>>

Patched(old, new) == IF new = Keep THEN old ELSE new

\* Fault: a new text keeps the old vector.
UpdateWrite_KeepsVector(h) ==
  LET p == req[h].prop  patch == req[h].patch IN
  /\ req[h].at = "write"
  /\ text' = [text EXCEPT ![p] = Patched(@, patch.text)]
  /\ status' = [status EXCEPT ![p] = Patched(@, patch.status)]
  /\ featured' = [featured EXCEPT ![p] = Patched(@, patch.featured)]
  /\ UNCHANGED vector
  /\ Wrote(h, Clearing(h))
  /\ UNCHANGED <<cacheVars, described, counters, missed, mixed, embedded>>

UpdateWrite(h) ==
  LET p == req[h].prop  patch == req[h].patch  new == Patched(text[p], patch.text) IN
  /\ req[h].at = "write"
  /\ text' = [text EXCEPT ![p] = new]
  /\ vector' = [vector EXCEPT ![p] = IF patch.text = Keep THEN @ ELSE new]
  /\ embedded' = IF patch.text = Keep THEN embedded ELSE embedded \union {p}
  /\ status' = [status EXCEPT ![p] = Patched(@, patch.status)]
  /\ featured' = [featured EXCEPT ![p] = Patched(@, patch.featured)]
  /\ Wrote(h, Clearing(h))
  /\ UNCHANGED <<cacheVars, described, counters, missed, mixed>>

(* The route enriches after the tool, whatever the tool answered.          *)
Done(h) ==
  req' = [req EXCEPT ![h] = IF @.via = "route"
                            THEN [Idle EXCEPT !.at = "enrich", !.prop = req[h].prop, !.via = "task"]
                            ELSE Idle]

(* The tool refuses, as it does everybody but the owner.                   *)
Refused(h, p) ==
  /\ status[p] # "absent"
  /\ writes < MaxWrites
  /\ writes' = writes + 1
  /\ Enter(h, p, [Idle EXCEPT !.at = "enrich", !.prop = p, !.via = "task"])
  /\ UNCHANGED <<cacheVars, rowVars, faults, missed, embedded>>

-----------------------------------------------------------------------------
\* Fault: the prefix is not the one searches are stored under.
ClearMemory_WrongPrefix(h) ==
  /\ req[h].at = "clear" /\ backend = "memory"
  /\ Done(h)
  /\ UNCHANGED <<cacheVars, rowVars, counters, missed, mixed, embedded>>

(* cache_invalidate: the in-memory store in one step; Redis by SCAN, which *)
(* returns every key that is there throughout, page by page.               *)

ClearMemory(h) ==
  /\ req[h].at = "clear" /\ backend = "memory"
  /\ Drop(Queries)
  /\ missed' = {}
  /\ Done(h)
  /\ UNCHANGED <<rowVars, counters, mixed, embedded>>

ClearPage(h) ==
  /\ req[h].at = "clear" /\ backend = "redis"
  /\ \E K \in SUBSET {q \in Queries : Hit(q)} \ {{}} :
       /\ Drop(K)
       /\ missed' = missed \ K
       /\ req' = [req EXCEPT ![h].due = @ \ K]
  /\ UNCHANGED <<rowVars, counters, mixed, embedded>>

ClearEnd(h) ==
  /\ req[h].at = "clear" /\ backend = "redis"
  /\ \A q \in req[h].due : ~ Hit(q)
  /\ Done(h)
  /\ UNCHANGED <<cacheVars, rowVars, counters, missed, mixed, embedded>>

-----------------------------------------------------------------------------
(* enrich_property, queued by a route or by the sweep.  A row without      *)
(* description is left alone; the answer of the model is never an error.   *)

(* The sweep goes on with another listing.                                 *)
GoesOn(h) ==
  IF req[h].todo = {} THEN {Idle}
  ELSE {[req[h] EXCEPT !.at = "enrich", !.prop = p, !.todo = @ \ {p}] : p \in req[h].todo}

SweepStart(h) ==
  LET found == {p \in Properties : status[p] \notin {"absent", "published"}} IN
  /\ req[h] = Idle /\ found # {}
  /\ writes < MaxWrites
  /\ writes' = writes + 1
  /\ \E p \in found :
       Enter(h, p, [Idle EXCEPT !.at = "enrich", !.prop = p, !.via = "task", !.todo = found \ {p}])
  /\ UNCHANGED <<cacheVars, rowVars, faults, missed, embedded>>

EnrichSkips(h) ==
  LET p == req[h].prop IN
  /\ req[h].at = "enrich"
  /\ status[p] = "absent" \/ ~ described[p]
  /\ \E entry \in GoesOn(h) : req' = [req EXCEPT ![h] = entry]
  /\ UNCHANGED <<cacheVars, rowVars, counters, missed, mixed, embedded>>

EnrichRead(h) ==
  LET p == req[h].prop IN
  /\ req[h].at = "enrich"
  /\ status[p] # "absent" /\ described[p]
  /\ req' = [req EXCEPT ![h].at = "publish", ![h].vec = text[p]]
  /\ mixed' = IF Working(p) = {h} THEN mixed ELSE mixed \union {p}
  /\ UNCHANGED <<cacheVars, rowVars, counters, missed, embedded>>

EnrichWrite(h) ==
  LET p == req[h].prop IN
  /\ req[h].at = "publish"
  /\ status' = [status EXCEPT ![p] = "published"]
  /\ vector' = [vector EXCEPT ![p] = req[h].vec]
  /\ UNCHANGED <<text, featured>>
  /\ embedded' = embedded \union {p}
  /\ missed' = IF Visible' = Visible THEN missed ELSE missed \union {q \in Queries : Hit(q)}
  /\ \E entry \in GoesOn(h) : Wrote(h, entry)
  /\ UNCHANGED <<cacheVars, described, counters, mixed>>

-----------------------------------------------------------------------------
(* get_featured_worker: a cached front page is compared with the database; *)
(* only if every listing on it is still on offer it is served.             *)

\* Fault: a listing that is still in the table counts as valid.
FeaturedValidate_Exists(h) ==
  /\ req[h].at = "validate"
  /\ Go(h, IF \A e \in req[h].snap : status[e[1]] # "absent" THEN "shown" ELSE "fetch")
  /\ UNCHANGED <<cacheVars, rowVars, counters, missed, mixed, embedded>>

FeaturedGet(h) ==
  /\ req[h] = Idle
  /\ Get(Featured)
  /\ req' = [req EXCEPT ![h] =
       [Idle EXCEPT !.shut = Properties \ Open,
                    !.snap = IF Hit(Featured) THEN data[Featured] ELSE {},
                    !.at = IF Hit(Featured) /\ data[Featured] # {} THEN "validate" ELSE "fetch"]]
  /\ UNCHANGED <<rowVars, counters, missed, mixed, embedded>>

FeaturedValidate(h) ==
  /\ req[h].at = "validate"
  /\ req' = [req EXCEPT ![h] = IF \A e \in @.snap : e[1] \in Open
                               THEN [@ EXCEPT !.at = "shown"]
                               ELSE [@ EXCEPT !.at = "fetch", !.snap = {}]]
  /\ UNCHANGED <<cacheVars, rowVars, counters, missed, mixed, embedded>>

FeaturedFetch(h) ==
  /\ req[h].at = "fetch"
  /\ req' = [req EXCEPT ![h].at = "keep", ![h].snap = OnOffer]
  /\ UNCHANGED <<cacheVars, rowVars, counters, missed, mixed, embedded>>

FeaturedStore(h) ==
  /\ req[h].at = "keep"
  /\ Set(Featured, req[h].snap)
  /\ Go(h, "shown")
  /\ UNCHANGED <<rowVars, counters, missed, mixed, embedded>>

FeaturedShown(h) ==
  /\ req[h].at = "shown"
  /\ Leave(h)
  /\ UNCHANGED <<cacheVars, rowVars, counters, missed, mixed, embedded>>

-----------------------------------------------------------------------------
(* A call fails.  A worker answers with the error, after which its route   *)
(* goes on; a failed validation is a miss; a task or sweep ends.           *)
Fails(h) ==
  LET r == req[h] IN
  /\ r.at \in {"query", "store", "insert", "write", "clear", "publish", "validate", "fetch", "keep"}
  /\ faults < MaxFaults
  /\ faults' = faults + 1
  /\ IF r.at = "validate" THEN Go(h, "fetch") ELSE Done(h)
  /\ missed' = IF r.at = "clear" THEN missed \union {q \in Queries : Hit(q)} ELSE missed
  /\ mixed' = IF r.at \in WriterSteps THEN mixed \union {r.prop} ELSE mixed
  /\ UNCHANGED <<cacheVars, rowVars, writes, embedded>>

(* The process starts again: requests and the in-memory store are gone.    *)
Restart ==
  /\ faults < MaxFaults
  /\ faults' = faults + 1
  /\ req' = [h \in Handlers |-> Idle]
  /\ IF backend = "memory" THEN Drop(Keys) ELSE UNCHANGED cacheVars
  /\ missed' = IF \E h \in Handlers : req[h].at = "clear"
               THEN missed \union {q \in Queries : Hit(q)} ELSE missed
  /\ mixed' = mixed \union {req[h].prop : h \in {k \in Handlers : req[k].at \in WriterSteps}}
  /\ UNCHANGED <<rowVars, writes, embedded>>

Expires ==
  /\ \E k \in Keys : Expire(k)
  /\ UNCHANGED <<rowVars, req, counters, missed, mixed, embedded>>

SearchStep(h) ==
  \/ \E q \in Queries : SearchGet(h, q) \/ SearchAnswered(h, q)
  \/ SearchQuery(h)
  \/ SearchStore(h)

OwnerStep(h) ==
  \/ \E p \in Properties, via \in {"route", "agent"}, d \in BOOLEAN : CreateEmbed(h, p, via, d)
  \/ CreateInsert(h)
  \/ \E p \in Properties, via \in {"route", "agent"}, patch \in Patches : UpdateRead(h, p, via, patch)
  \/ UpdateWrite(h)
  \/ \E p \in Properties : Refused(h, p)
  \/ ClearMemory(h)
  \/ ClearPage(h)
  \/ ClearEnd(h)

EnrichStep(h) == SweepStart(h) \/ EnrichSkips(h) \/ EnrichRead(h) \/ EnrichWrite(h)

FeaturedStep(h) ==
  FeaturedGet(h) \/ FeaturedValidate(h) \/ FeaturedFetch(h) \/ FeaturedStore(h) \/ FeaturedShown(h)

Next ==
  \/ \E h \in Handlers : SearchStep(h) \/ OwnerStep(h) \/ EnrichStep(h) \/ FeaturedStep(h) \/ Fails(h)
  \/ Restart
  \/ Expires
Spec == Init /\ [][Next]_vars

-----------------------------------------------------------------------------
(* Rows and the cache stay in their vocabularies; a request that writes    *)
(* has a listing, and one past its read a listing that exists.             *)
TypeOK ==
  /\ CacheTypeOK
  /\ status \in [Properties -> {"absent", "draft", "published", "rented", "delisted"}]
  /\ text \in [Properties -> Texts] /\ vector \in [Properties -> Texts \union {NoVector}]
  /\ described \in [Properties -> BOOLEAN] /\ featured \in [Properties -> BOOLEAN]
  /\ \A h \in Handlers :
       /\ req[h].at \in WriterSteps => req[h].prop \in Properties
       /\ req[h].at \in {"write", "clear", "publish"} => status[req[h].prop] # "absent"
  /\ writes \in 0 .. MaxWrites /\ faults \in 0 .. MaxFaults

(* A cached search is what the database would answer, unless it was read   *)
(* before a write and stored after it, an enrichment published beside the  *)
(* cache, or an invalidation is still running or was lost.                 *)
CachedIsFresh ==
  (\A h \in Handlers : req[h].at # "clear") =>
    \A q \in Queries \ missed : Hit(q) => data[q] = Visible

(* Nothing on the front page had been off offer during the whole request,  *)
(* however old the cached page is.                                         *)
FeaturedWasOpen ==
  \A h \in Handlers : req[h].at = "shown" => \A e \in req[h].snap : e[1] \notin req[h].shut

(* The vector of a listing is of its present text, or missing if it was    *)
(* never computed again after a creation that had to do without; only      *)
(* writers that overlapped or failed may leave another one.                *)
VectorIsCurrent ==
  \A p \in Properties :
    status[p] # "absent" /\ p \notin mixed
      => vector[p] = text[p] \/ (vector[p] = NoVector /\ p \notin embedded)

=============================================================================
