# A TLA+ model of the HousePadi engine

HousePadi is a rental marketplace: a FastAPI process over Supabase (Postgres,
storage, auth), a payment gateway and language models.  This directory holds
TLA+ modules of its core logic, the TLC configurations that check them on small
instances, and TLAPS proofs of what matters most.

    tlc -config payments_serial.cfg MCPayments.tla      # any run of PROJECT.json
    tlapm PaymentsProofs.tla                            # the proofs of a module

`PROJECT.json` lists components, runs, the source lines behind every definition,
findings, hazards and theorems.

## 1. The system

The process is one asyncio event loop.  `AsyncDBPool.execute`
(`app/core/database.py`) runs every Supabase call in a thread, so **every
awaited call is a point where another request may run**.  Nothing but the two
Postgres functions groups writes: a request that fails half way leaves what it
has written.  Several processes may run side by side, and no row is versioned.

| component | state | operations | hard behaviour |
|---|---|---|---|
| Payment service, repository, SQL functions | transactions, ledger_entries, wallets, leases.is_active and contract_url, applications.status, document bucket | initialize, handle_webhook, verify, split; process_payment_atomic, finalize_payment_split | races between deliveries, polls and splits; lost answers and redelivery; stale decisions |
| Payment gateway (external) | checkouts, charges, acknowledged events | initialize, charge, deliver, report | at-least-once delivery, any order, events without reference or amount |
| Applications and leases | leases, applications, notifications, properties.agreement_content | submit_application_worker, manage_application_worker | partial failure between writes; decisions overlapping settlement |
| Lease documents | storage bucket, contract_url | generate and upload, signed URL | one column used for signatures and for a path |
| KYC | kyc_verifications, profiles.kyc_status | submit, review, the payment gate's check | record and mirror in two writes; UNIQUE record; a gate that reads both |
| Tours | tours | book, decide | repeated and overlapping decisions; two names of one role |
| Listings, search, enrichment | properties, search cache, front page | create, update, search, featured list, enrichment sweep | a cache filled with what was read before an invalidation; vectors of an older text; publishing what was delisted |
| Cache service | entries in LRU order with expiry; or Redis keys | get, set, delete_prefix, clear | eviction; page-wise deletion beside stores |
| Chat service and persistence | messages of a thread, entity references | one turn: route, read, call the agent, write back | lost updates between turns of one thread; a history cut at both ends |
| Chat threads | threads, messages | find or create, post, read | two threads for one pair; the time of a thread in a second write |
| Lightweight agent, intent transformer | lazily computed embeddings, a lock | route, rank tools, call the model, run a tool | a lock beside failures; writes whose answer is lost; invented arguments |
| Multi-agent engine | retry counter | retry a turn | cannot be imported at this commit |
| Token budget | none | trim history | boundaries |
| Authentication context | none | token to user or guest | which failure means what |
| Profiles, dashboards, routes, assembly | single rows | read, update | none that relates two pieces of state |

Interactions.  *Tenancy and payments* meet in three rows: `initialize` wants a
lease that is inactive and an application `approved_pending_payment`; settling
activates the lease, completes the application and replaces `contract_url`;
approving writes the same three.  *KYC* gates `initialize` through
`profiles.kyc_status`.  *Chat* runs the same tools as the routes, so each of
these operations can also be started, and retried, by an agent.

What makes each part correct:

* payments: a reference is settled at most once, only for a charge that covers
  the rent; a settled transaction stays settled; debit equals credits; the
  wallet equals the ledger; an acknowledged payment has an active lease; every
  sufficient payment ends in an active lease; one open transaction per lease,
  and if requests overlap never more than there are requests;
* tenancy: an application names its own lease; nothing is payable or active
  before the decision; an active lease is signed; its PDF exists and can be
  downloaded; a signed approval is whole;
* KYC: only a user a review has verified passes the gate; record and profile
  agree; a verified user stays verified until a review says otherwise;
* tours and threads: the last answer about a tour is its status; two people have
  one thread about a property; a thread is listed by its newest message;
* listings: a cached search is what the database would answer, or one of the
  known ways of missing an invalidation was taken; nothing on the front page was
  off offer; the vector of a listing is of its present text;
* cache: what was used recently is there; nothing removed or expired comes back;
* chat: the model sees the newest exchange; ids once found stay known; what was
  done is told; nothing with a date is written for a message that names none;
  prototypes are loaded once; every turn ends.

## 2. Modules

| module | models | sources |
|---|---|---|
| `Payments` | the payment flow, one action per awaited call | payment_service.py, payment_repository.py, payment_gateway.py, the migration of the payment functions |
| `PaymentLedger` | what that flow promises: issue, charge, settle, at most once or (without `AtMostOnce`) any number of times | the module comment of payment_service.py |
| `Tenancy` | submission, decision and the lease a payment activates | application_lease_ops.py, application_routes.py, and the payment flow where it meets them |
| `LeaseLifecycle` | what those promise about a lease: drafted, applied for, decided, opened, paid, active, settled, in that order | application_lease_ops.py, payment_service.py |
| `Kyc` | submission, review and the check at the payment gate | kyc_ops.py, payment_repository.py |
| `Contact` | tours and chat threads between users, under the role a request is given | tour_ops.py, tour_routes.py, chat_ops.py, dependecies.py |
| `Cache` | the two cache backends | cache_service.py |
| `LossyMap` | what callers of the cache may rely on | cache_service.py |
| `Listings` | listings, search, front page and enrichment over `Cache` | property_ops.py, property_routes.py, property_ai_service.py, property_cron.py |
| `Chat` | the turns of one thread with the assistant | chat_routes.py, chat_service.py, chat_persistence.py, intent_transformer.py, lightweight_agent.py, token_budget.py |
| `MCPayments`, `MCTenancy`, `MCKyc`, `MCContact`, `MCListings`, `MCChat` | instances for TLC | |
| `PaymentsTypes`, `PaymentsProofs`, `TenancyTypes`, `TenancyProofs`, `KycProofs`, `ContactProofs`, `ListingsProofs`, `ChatProofs` | proofs | |

An operator with an underscore and a comment that begins with `Fault:`
(`Coerce_FailedIsFinal`, `Countersign_Skips`, ...) is no part of a
specification.  It is the definition it is named after with a plausible bug; the
run named in `PROJECT.json` under `mutants` fails when it takes that
definition's place, which shows that the property depends on the code it is
about.

In every module a request is a small record whose `at` (in Payments `pc`) names
the call it makes next, and one action is what happens between two awaits.
Variables marked *History* are no state of the program: they remember what a
property speaks of.  Most are of one kind: `mixed` collects the rows, threads or
turns on which requests overlapped or failed, so that a property can say exactly
under which interleavings the code keeps its promise.  A property with `mixed`
in it is not restricted to runs without overlap: other rows and turns, and what
follows an overlap on them, are in the same behaviours.

### Payments

State.  Per reference (`Refs`, numbered in the order `initialize` creates them):
`status`, `leaseOf`, `amount` of the transaction row; `debits`,
`debit`, `credit`, `fee`, the ledger rows counted and summed; at the gateway
`session` (a checkout was handed out), `charge` (what the customer paid) and
`acked` (the event was answered with 200).  Per lease: `active`, `contract`
(what contract_url holds), `application`, `stored` (the PDF is in the bucket).
Per landlord: `wallet`.  Per handler, a request in flight: `pc`, the call it
waits for, and what it has read so far (`kind`, `cur`, `evt`, `lease`, `amt`,
`first`, `path`).

Actions.

| code | actions |
|---|---|
| `initialize` (197-295) | `InitializeReadLease`, `InitializeReadApplication`, `InitializeReadOpen`, `InitializeCreate`, `InitializeCheckout`, `InitializeUndo` |
| `handle_webhook` (297-387) | `WebhookStart` (find the transaction, decide), `WebhookUnknown` (an event of no transaction), `WebhookAck` |
| `verify` (391-443) | `VerifyStart`, `VerifyAsk`, `MarkFailed` |
| `_finalize_from_lease` (108-174) | `ReadLease`, `GenerateDocument`, `RpcGate`, `RpcCommit` |
| `process_payment_atomic` | `RpcGate` reads the status, `RpcCommit` writes everything |
| `finalize_payment_split` | `Split` |
| any awaited call that fails | `Die` |
| customer | `CustomerPays` |

A Postgres function is cut exactly where another transaction can be seen.
`process_payment_atomic` reads the status by a plain SELECT; its first UPDATE
takes the row lock, and a second caller waits there and continues after the
commit, so gate and writes are two actions.  `finalize_payment_split` reads
`FOR UPDATE` and is one.

Constants that name a circumstance and not a size: `Overlap` (FALSE: the
deployment serialises the requests of one reference, which the code does not);
`ReportsAmount`, `NamesReference` (what an event carries; the code has fallbacks
for both); `Remembers` (TRUE for a hosted gateway, `HostedAnswers`; FALSE for the mock,
which is built anew for every request); `RequireKyc`, `FeePercent`, `Owner`, `Rent`,
`Verified`.

### Tenancy

State.  `tenant`, `active`, `contract` per lease row; `applicant`, `leaseOf`,
`status` per application row; `agreement`, the properties with
agreement_content; `notices`, the notification rows; `confirmed`, the decisions
the route answered with "success" (`unsigned` for an approval that carried no
signature and did nothing); `checkout`, `paid`, `debited`, `stored`, the
payment of a lease; `req`, one record per request in flight (`at`: the call it
waits for; the rest: what it knows).

| code | actions |
|---|---|
| `submit_application_worker` | `SubmitRead`, `SubmitAgreement`, `SubmitLease`, `SubmitApplication`, `SubmitNotify` |
| `manage_application_worker` | `ManageRead`, `Reject`, `ApproveUnsigned` or `Approve`, `ReadContract`, `Countersign`, `Tell` |
| `get_lease_document`, which only reads | `Fetchable` |
| `initialize`, `handle_webhook` | `PayReadLease`, `PayReadApplication`, `PayCheckout`, `CustomerPays`, `SettleReadLease`, `SettleDocument`, `SettleCommit` |
| an awaited call that fails | `Fails`, with what the route then answers |

The payment here is coarser than in `Payments`: one checkout per lease, settled
once.  `Overlap` is as above, per lease.  `DecidesPending` is a landlord who
decides only pending applications; the code does not ask for it.  `contract` is
the set of what the string contract_url is made of: the renter's signature, the
landlord's, the path of the PDF.  A settlement replaces it by the path, an
approval appends to whatever it read; the download takes all of it as the path,
so only the contract that is the path and nothing else is `Fetchable`.

### Kyc

State.  `record` and `profile`, the status of each user in kyc_verifications
(whose `user_id` is UNIQUE, so it is a function) and in profiles; `req`.
`review` is what the last review wrote; a check in flight collects `grounds`
when the user is verified at some moment of it.

| code | actions |
|---|---|
| `submit_kyc_worker` | `SubmitRead`, `SubmitInsert` (refused by the constraint when there is a row), `SubmitProfile` |
| `approve_kyc_worker` | `ReviewRead`, `ReviewWrite`, `ReviewProfile` |
| `get_kyc_status` and the gate of `initialize` | `CheckRecord`, `CheckProfile`, `Verdict` |

### Contact

State.  `role`, the column of profiles; `visitor` and `status` of tours;
`exists`, `about`, `renter`, `owner`, `last` of chat_threads; `messages`; `req`.
Time is a counter of `tickets`, drawn when a message is stamped.

| code | actions |
|---|---|
| `get_optional_user_context` | `ContextRole`: the stored role, or "renter" when the profile could not be read |
| `book_tour_worker` | `BookRead`, `BookInsert` |
| `manage_tour_request_worker` and its routes | `ManageRead`, `Decide`, `DecisionAnswered` |
| `create_chat_thread_worker` | `ThreadReuse`, `ThreadMissing`, `ThreadInsert`, `ThreadAnswered` |
| `send_message_worker` | `SendRead`, `SendInsert`, `SendTouch` |

### Cache, LossyMap and Listings

State of the cache.  `data`, `expired`; the order of the `OrderedDict` as the
relation `behind[k]`, the keys after k, which makes eviction (the entry all
others are behind) and `move_to_end` plain set expressions.  `owed` and `since`
are history: the keys a caller may expect, and what was used after them.
`Get`, `Set`, `Drop` and `Expire` are the operations; `LossyMap` is the map
that may forget but never brings back, and `Cache` is shown to implement it.

State of listings.  `status`, `text` (a version of address and location),
`vector` (the text it was computed from, or none), `described`, `featured`, and
`req`.  Every listing matches every query, so a cached search is the set of
visible listings with their texts.

| code | actions |
|---|---|
| `search_properties_worker` | `SearchGet`, `SearchAnswered`, `SearchQuery`, `SearchStore` |
| `create_property_worker` | `CreateEmbed`, `CreateInsert`, then the invalidation |
| `update_property_worker` | `UpdateRead`, `UpdateWrite`, then the invalidation; `Refused` |
| `cache_invalidate` | `ClearMemory`, or `ClearPage` and `ClearEnd` on Redis |
| `enrich_property`, the sweep, the routes that queue it | `SweepStart`, `EnrichRead`, `EnrichSkips`, `EnrichWrite`, `Done`, `GoesOn` |
| `get_featured_worker` | `FeaturedGet`, `FeaturedValidate`, `FeaturedFetch`, `FeaturedStore`, `FeaturedShown` |
| an awaited call that fails; the process restarts; time | `Fails`, `Restart`, `Expires` |

### Chat

One thread.  State: `turn`, a record per request; `thread` and `transcript`, the
rows; `refs`, the cached entity references, with `shared` for Redis, which
outlives the process and may raise; `prototypes`, `lock` and `toolVectors`, the
lazily computed embeddings of the process.

| code | actions |
|---|---|
| `chat_routes.py` | `Arrive`, `Answers` with `Gate` (who may follow a redirect) |
| `dynamic_intent_router`, `_get_prototype_embeddings` | `FindPrototypes`, `TakeLock`, `BatchLoaded`, `Route` |
| `process_chat_message`, chat_persistence.py | `HistoryLoad`, `AskSave`, `RefsLoad`, `RefsSave`, `ReplySave` |
| `invoke_lightweight_agent` | `Listen`, `Rank`, `FastSearch`, `ModelTalks`, `ModelCalls` (with `Cleaned`, `Missing` and the recovery of a rejected call), `ToolRun`, `ToolRefuses`, `FinalCall` |
| errors | `Fails` (an await whose error ends the request), `Forget`, `Restart` |

The language models are external: they call any tool that is offered, with or
without a date and with all or not all of its other fields, or talk.  Four tools
stand for their kinds: a search, a write that ends the turn and that refuses
guests in words the route recognises (`book`), one that does not (`pay`), and a
write after which the model is asked again (`apply`).

Three steps are coarser than the code.  `BatchLoaded` is all the embedding calls
of the batch (the code awaits one per intent): a batch that fails half way has
paid for its first calls, which `batches` does not count.  After a write tool
`ToolRun` ends the turn: the tool's answer is the reply where the model's message
has no text of its own, otherwise that text is and the answer is in the data of
the response; `WriteIsAnswered` says that there is a response, and not which of
the two.  `DateIsGrounded` says what the code looks for: some date in the newest
message, not that it is the date of the call.

## 3. Runs

Twelve: eight pass, and four end in a counterexample that is a finding.  Rent is 100.  Amounts 98, 99, 100 and 120 are two
units short (refused), one unit short (tolerated), exact and more.

| run | shows |
|---|---|
| `payments_serial` | requests of one reference one at a time: redelivery, polls, a lost answer and a payment for a second reference settle each reference once, never take a settlement back, debit the rent and what was charged (`DebitIsReconciled`), and implement `PaymentLedger` with `AtMostOnce` (`ExactlyOnce`) |
| `payments_overlap` | any interleaving: the flow implements `PaymentLedger` without `AtMostOnce` (`AtLeastOnce`), so money moves only for a charge that covers the rent and activates its lease; an active lease is paid (`ActiveIsPaid`), an acknowledged payment has its active lease (`AckedIsActive`), an open transaction can be paid or is being worked on (`OpenIsPayable`); under fairness every payment that covers the rent activates its lease (`PaidActivates`) |
| `payments_two_leases` | two overlapping requests over two leases behind the mock gateway, events without reference or amount, administrator splits: double clicks open no more transactions than there are requests in flight (`OpenPerRequest`), the landlord's wallet is the sum of the ledger over both leases, a debit belongs to a lease that was charged |
| `tenancy` | two renters, overlapping submissions, decisions and settlements, one failing request: applications name their own leases, and whatever is submitted, decided and paid follows `LeaseLifecycle` (`FollowsLifecycle`): nothing is payable or active undecided, nothing is settled unpaid; an active lease is signed, a completed application has an active, paid lease, and a signed approval answered with success is whole unless a call failed |
| `kyc` | two users, three requests, two faults: the gate admits only who was verified (`AdmittedWasVerified`), the copies agree, no submission takes a verification back (`VerifiedStands`) |
| `contact` | three people, two requests, a fault, either role name: `DecisionIsTold`, `OneThreadPerPair`, `ListedByNewest` |
| `listings` | a listing, two searches and the front page over a store of two entries, either backend, two writes, a fault or restart: `CachedIsFresh`, `FeaturedWasOpen`, `VectorIsCurrent`, `KeptWhileRecent`, and the cache implements `LossyMap` |
| `chat` | two turns of one thread, a fault, a restart or a lost cache: `SeesTheLatest`, `RefsKept`, `WriteIsAnswered`, `DateIsGrounded`, `PrototypesOnce`; under fairness `EveryTurnEnds` |
| `payments_double_click`, `payments_double_settlement`, `tenancy_document`, `contact_role` | four disagreements between code and documentation, section 5 |

Bounds.  Two handlers are enough for every race the code has: each conflict is
between what one request read and what one other wrote (a third adds repetition
of the same pair), and the theorems of section 4 hold for any number.
Payments: two references give a lease a retry after a failed transaction and a
payment for the older of two, or two leases a payment each into one wallet; one
fault cuts any request at any point, including after the commit.  In
`payments_two_leases` no event reports what was paid, so one amount is enough;
crashes are left to `payments_overlap` and to the theorems, which need no bound
on them for any of its three invariants.  Tenancy: two lease rows let two
renters, or one renter twice, compete.  Two decisions of one application overlap
there when both read it pending (`DecidesPending`); deciding once more what is
long decided is left to the theorems, none of which but `DocumentsAreServed`
needs that hypothesis.  Kyc: two users, so that
requests about different users mix.  Contact: one property, two threads and two
messages, one tour; the landlord is stored as "owner" or as "landlord".
Listings: a store of two entries with three keys makes every eviction happen;
one listing with two texts and two writes lets an update and an enrichment, or
two of either, cross each other and a search.  Chat: two turns overlap or follow
each other, a limit of one message and a window of two are the smallest that
keep an exchange, and one fault is a failed call, a restart or a lost cache.
Deadlock is not checked: rows, references, turns and faults are used up, and a
system in which all is paid, decided and answered stops.

Two instances also have a state constraint, `Apart`.  In `contact` tours and
threads share no row and a message touches only its own thread, so the run
explores tours, the opening of threads, or the messages of one thread, and not
their products; every property reads one of them.  In `listings` the second
query matters only for what the store pushes out: the run explores it before
listings are written, and after that one query and the front page.  The
products left out are covered by the theorems, which know no constraint.

Symmetry is used in runs that check safety only, for renters, properties,
queries and handlers, which no constant or definition tells apart
(`IsLossyMap` is a safety property and reads none of them by name).

Fairness.  In `payments_overlap` (whose invariants do not depend on it), weak
fairness of each handler's steps: the event loop resumes a coroutine whose call
has returned; and strong fairness of `WebhookStart` for each unacknowledged event:
a gateway redelivers until it gets its 200, and handlers come and go in between.
There is no fairness of polls, customers or administrators.  In `chat`, weak
fairness of each turn's steps: asyncio.Lock hands itself to a waiter, and every
call out comes back with an answer or an error.  The second is an assumption
about the libraries: `get_lightweight_model` sets no timeout of its own.  The
model may never answer helpfully and calls may fail; `EveryTurnEnds` only says
that a turn ends.  In `contact_role`, weak
fairness of the steps of a decision and strong fairness of the landlord's
asking: the counterexample is not a landlord who gave up.

## 4. What is proved

For every value of the constants, however many leases, references, users,
threads, listings, queries, turns, requests and faults.

### Payments

From `ConstantsAssumption` alone (leases and `NoLease`
differ, the rent is a positive integer, bounds are natural numbers):

| theorem | property | needs |
|---|---|---|
| `TypeCorrect` | `TypeOK` | - |
| `ActiveLeasesArePaid` | `ActiveIsPaid` | - |
| `DebitsAreCharged` | `DebitIsCharged` | events carry reference and amount |
| `AckedLeasesAreActive` | `AckedIsActive` | the same, no splits |
| `LedgerAlwaysBalances` | `LedgerBalances` | no splits |
| `WalletsMatchTheLedger` | `WalletMatchesLedger` | - |
| `AccountsAreBalanced` | `AccountsBalance` | no splits |
| `BalancesOnlyGrow` | `BalancesGrow` | - |
| `PaymentsSettleOnce` | `SettledOnce` | requests of one reference do not overlap |
| `SettledIsFinal` | `SettledStays` | the same, no splits |
| `DebitsAreReconciled` | `DebitIsReconciled` | do not overlap; events carry reference and amount |
| `Refinement` | `ExactlyOnce` | do not overlap; events carry reference and amount |
| `WeakRefinement` | `AtLeastOnce` | events carry reference and amount |
| `DebitsAreOfCharges` | `DebitIsOfLease` | - |
| `OpenTransactionsArePayable` | `OpenIsPayable` | - |
| `OpenTransactionsAreBounded` | `OpenPerRequest` | finitely many handlers |

What a theorem needs is a hypothesis on the constants and is written in its
statement; `payments_double_settlement` shows why the serialisation is needed.

Argument.  None of these is inductive alone, since a request carries what it read
into later steps.

1. `TypeCorrect` needs `Issued`: a row with a status has a lease, and a request in
   the middle of a settlement holds such a row and its lease.
2. `Reconciled` says that a request past the amount check holds a charged
   transaction that covers the rent; `DebitIsCharged` follows at `RpcCommit`.
3. `LaterPayment` says that a request which read an active lease (and will not
   activate it) found one some debit had activated; with it `ActiveIsPaid` and
   `SettledIsActive` are inductive.
4. `Acknowledging` says that a webhook about to answer 200 for a sufficient charge
   finds the lease active, and `AckedIsCharged` that nothing is acknowledged that
   was not charged; `AckedIsActive` follows.
5. `Exclusive` joins `Disjoint` (no two handlers hold one reference), `Unsettled`
   (a request past the gate holds a transaction without debit) and
   `DebitedIsSettled` (a debited row reads as settled, so the gate refuses it).
   It is where serialisation is used, and gives `SettledOnce`.
6. `Refinement` maps every step to `Issue`, `Charge`, `Settle` or a stutter, by
   the invariants of 2, 3 and 5.  Serialisation is needed for the count only:
   `WeakRefinement` is the same map without 5.
7. `Backed` says that a request which may settle works for a lease somebody was
   charged for, since it was told so by an event of that lease or by the gateway;
   `DebitIsOfLease` follows at `RpcCommit`.  `OpenIsPayable` is inductive as it
   stands, and so is `OpenPerRequest`: a request joins `Creating` only after it
   found no open transaction, when the requests in `Creating` are all there is to
   count; a creation moves one from the second set to the first, and nothing else
   adds to either (`CreatingShrinks`, `CountsShrink`).
8. `WalletMatchesLedger` compares a balance with a sum over a set of
   transactions.  `Books` says that amounts are natural numbers (so that a fee,
   rounded half up, is a part of what is paid) and that a reference not issued has
   no ledger rows.  Money then moves by `Credits` only, one summand and the owner's
   balance by the same amount, and `Issues` adds a summand that is zero.  What a sum becomes when one summand
   changes would be an induction over the set, which the provers cannot
   instantiate; it is proved by a smallest counterexample instead: among the
   subsets on which the fact fails one has least cardinality, and the folds of
   FiniteSetsExt give the fact for it from the subset without one element.
   `AccountsBalance` adds `LedgerBalances` over the same set.
9. `Reckoned` says what a settlement past its amount check is about to write:
   an amount that covers the rent and is no more than was charged, each within a unit.
   `Undebited` says that a row without debits holds no money; with `Exclusive` one
   commit writes it, and `DebitIsReconciled` follows.

### Tenancy

From `TenancyAssumption` (`Nobody` is no bid, bounds are natural
numbers), for every number of renters, properties, rows, requests and faults:

| theorem | property | needs |
|---|---|---|
| `TypesCorrect` | `TypeOK` | - |
| `ApplicationsOwnTheirLease` | `ApplicationOfItsLease` | - |
| `DecisionComesFirst` | `NothingBeforeDecision` | - |
| `LifecycleIsFollowed` | `FollowsLifecycle` | - |
| `CompletedLeasesAreActive` | `CompletedIsActive` | - |
| `ActiveLeasesAreSigned` | `ActiveIsSigned` | - |
| `LeasesHaveAgreement`, `DocumentsAreStored` | `LeaseHasAgreement`, `DocumentIsStored` | - |
| `ApprovalsAreWhole` | `ApprovalIsWhole` | - |
| `DocumentsAreServed` | `DocumentServed` | requests about one lease do not overlap and only pending applications are decided |

Argument.

1. `TypesCorrect` needs `Known`: rows are never deleted, so a request in the middle
   of a submission, decision or payment holds rows that exist, and its lease is
   that of its application.
2. `OwnDraft`: a submission that has drafted a lease is the only one to name it;
   then `ApplicationOfItsLease` is inductive.  `Agreed` does the same for
   `LeaseHasAgreement`.
3. `FoundDecided`: a request between a decision (or the check of
   PayReadApplication) and its write to the lease has a decided lease, and no step
   makes a decision undone; `NothingBeforeDecision` follows.
4. `Marked`: a drafted lease, and what an approval has read of it, bears the
   renter's signature or the PDF, so the stale write of `Countersign` does too.
   `PathIsStored` says the same of the object in the bucket.
5. `ToldIsActive`: an approval about to answer has activated its lease, and no
   step deactivates one.
6. `Disjoint` (no two requests hold one lease) is where serialisation is used:
   with `DecidesPending` it gives `Sealed`: a contract that names the PDF is its
   path and nothing else, the applications of the lease are completed, and nobody
   about to append has read it.  `DocumentServed` follows with `PathIsStored`.
   The code sees to neither hypothesis, and each is needed: `tenancy_document` is
   the counterexample with overlap, and an approval repeated after the payment
   the one without overlap.  The theorem says what a repair would have to ensure.
7. `LifecycleIsFollowed` is a refinement without any hypothesis: overlaps,
   repeated decisions and failures are all stages of `LeaseLifecycle` or stutters.
   It rests on 1 to 3 and `SettlesPaid`: a settlement in flight works for a lease
   with a checkout the customer has paid.  A lease is decided when some application
   that names it is; `ApplicationOfItsLease` makes that one application.

### Kyc

From `KycAssumption` (`Nobody` is no user; the decisions are statuses).

| theorem | property |
|---|---|
| `TypeCorrect` | `TypeOK` |
| `AdmittedUsersWereVerified` | `AdmittedWasVerified` |
| `TheCopiesAgree` | `CopiesAgree` |
| `VerifiedUsersStay` | `VerifiedStands` |

Argument.  The record of a user is verified only by the last review, and the
profile of a user without a record is still pending; so a check that ends
"admitted" saw, in whichever copy, what a review had written.  For the copies:
while one request is at work for an unmixed user, the copies may differ only by
what it is about to write; when it leaves they agree.  A submission that looked
before a review meets the row and writes nothing.

### Contact

From `ContactAssumption`.

| theorem | property |
|---|---|
| `TypeCorrect` | `TypeOK` |
| `DecisionsAreTold` | `DecisionIsTold` |
| `PairsHaveOneThread` | `OneThreadPerPair` |
| `ThreadsAreListedByNewest` | `ListedByNewest` |
| `OwnersDecide` | `OwnerDecides` |

Argument.  The work of an unmixed subject is done by one request at a time:
`OneAtWork` (two requests at one subject make it mixed) makes what each request has
read still true when it writes.  For threads the request that opens one found
none of the caller, and none appears before it inserts.

### Listings

From `CacheAssumption` (finitely many keys, a store of at least one entry) and
`ListingsAssumption`.

| theorem | property |
|---|---|
| `TypeCorrect` | `TypeOK` |
| `EntriesAreKept` | `KeptWhileRecent` |
| `CacheIsLossyMap` | `IsLossyMap` |
| `TheFrontPageWasOpen` | `FeaturedWasOpen` |
| `VectorsAreCurrent` | `VectorIsCurrent` |
| `CachedSearchesAreFresh` | `CachedIsFresh` |

Argument.  `CacheInv`: whatever is to be had is owed; the keys behind an owed
entry were all used since it was; one that was pushed out saw `MaxEntries` used.
Each operation of the cache keeps it, so the counting is done once per operation
and not per request; the refinement follows operation by operation.  `Front`:
while a front page is made nothing open counts as shut, and what is about to be
shown was open when it was compared or fetched.  `Vectors`: two requests about to
write one row have made it `mixed`, so the vector an unmixed one carries is of
the text the row still has.  `Fresh`: a search nothing has crossed is about to
store what is visible, and an older result still to be had has an invalidation
under way that will remove it: any, in memory; on Redis one that has yet to
reach that key, since every write starts one that owes all keys then stored.

### Chat

From `ChatAssumption`; the window of `TheLatestIsSeen` must hold two messages,
which the budget of 4000 tokens does for messages of ordinary length.

| theorem | property | needs |
|---|---|---|
| `TypeCorrect` | `TypeOK` | - |
| `PrototypesLoadedOnce` | `PrototypesOnce` | - |
| `DatesAreTheUsers` | `DateIsGrounded` | - |
| `WritesAreTold` | `WriteIsAnswered` | - |
| `ReferencesAreKept` | `RefsKept` | - |
| `TheLatestIsSeen` | `SeesTheLatest` | `Window > 1` |
| `TurnsOnlyGoForward` | `TurnsGoForward` | - |

Argument.

1. `TypeCorrect` holds the lock: it is held exactly by the request whose batch is
   under way, and free once there are prototypes; `PrototypesOnce` follows, since
   a batch is started under the lock by a request that found none.
2. `Written`: a call that is made carries no date but the user's, on either path
   into the tool, and a request that wrote with a write tool is past every await
   that may end it, but for the references of a payment on Redis.
3. `Remembered`: `Alone` (two busy turns are both mixed), so what an unmixed turn
   read of the references is what they are when it merges into them.
4. `SeenByAll`: from its arrival an unmixed turn is the only one to write to the
   thread; the newest `Limit` messages end with the one that was newest then, and
   trimming keeps the last two.

5. `Distance` numbers the places a turn can be at; `TurnsGoForward` says that every
   step that changes a turn lowers it, calls the provider rejected and locks
   another request took included.

### Proved and in no run

`DebitIsCharged`, `LedgerBalances`, `AccountsBalance`, `BalancesGrow`,
`NothingBeforeDecision`, `LeaseHasAgreement`, `DocumentIsStored`, `OwnerDecides`
and `TurnsGoForward` are theorems that no run of `PROJECT.json` names; TLC holds
each of them on the instance of its component (`payments_overlap`,
`tenancy`, `contact`, `chat`) when it is added to the configuration.
The first and the fifth are consequences of what is checked there, `AtLeastOnce`
and `FollowsLifecycle`.

### Only model-checked

Every safety property of a passing run is a theorem.  The four properties of the
violation runs are none, since the code breaks them; two hold under a hypothesis
(`PaymentsSettleOnce`, `DocumentsAreServed`).  What is left to TLC is
liveness, which is out of the prover's reach: `PaidActivates`, `EveryTurnEnds`
and (violated) `ApprovalArrives`.  Of the first two the safety halves are proved:
`AckedIsActive`, so redelivery does not stop before the lease is active;
`TurnsGoForward` and the lock bookkeeping of `TypeOK`, so a turn that never ends
waits at one call for ever, which fairness and a held lock that is given back
exclude.

## 5. Findings

Each is a run that ends in a counterexample, with the line of the repository that
says otherwise quoted in `PROJECT.json`.

* *Double click.* `initialize` looks for an open transaction in one call and
  creates its own in another: two overlapping requests open two for one lease,
  each with a checkout that can be paid.  What the look does ensure is
  `OpenPerRequest`.
* *Double settlement.* `process_payment_atomic` does not lock the row it checks:
  two overlapping deliveries credit the wallet twice.
* *The document is lost to its reader.* An approval that a settlement overtakes
  appends the landlord's signature to the path of the PDF; the download takes
  the whole string as a path and finds nothing.
* *Nobody may approve.* Tours are managed by the role "owner"; the seeds and the
  registration of a landlord store "landlord", who is refused for ever.

The models show other states that documentation or intent would not have, without
a run of their own:

* a poll that saw the checkout unpaid marks it failed after a webhook has settled
  it, and the next delivery settles it again;
* a settlement past its gate moves a completed transaction back to succeeded, and
  it can be split again; a split completes a transaction nobody paid;
* approving an application activates its lease before anything is paid, after
  which `initialize` refuses it as not payable (its guard `~active[l]`), and until
  then the document route takes the signatures in `contract_url` for a storage
  path;
* decided applications and tours can be decided again; an approval that fails half
  way is reported as a success (`Fails`, which is why `ApprovalIsWhole` speaks of
  behaviours without failures);
* an approval without a signature writes nothing and is answered with success
  (`ApproveUnsigned`);
* a rejected user who submits again meets the UNIQUE row (`SubmitInsert`) and
  stays rejected, although kyc_ops.py:67-68 logs a resubmission and its messages
  (lines 163 and 242) ask for one; `VerifiedStands` says nothing of it;
* a landlord with a thread about a property is handed that one whoever they ask
  for (`ThreadReuse`); the role test of threads is "landlord", that of tours
  "owner";
* enrichment publishes any listing it was started for: drafts, rented and delisted
  ones, after updates that the tool refused as well (`Done`, `Refused`), and does
  not invalidate cached searches (`EnrichWrite`, history `missed`);
* a search that crosses an update stores what it read before (history `missed`);
* writes by tools outside WRITE_TOOLS (`apply`) are not told when the final call of
  the model fails; an id is taken as it is if it has the form of one, although the
  comment at lightweight_agent.py:247 wants it in the conversation;
* the turn looks for `user_context["user_id"]` where the context has `id`, so
  messages of the assistant's threads have no sender.

## 6. What the models leave out

* Payments: who asks (the renter and administrator checks) and the shape of
  messages; a rent of zero or less, which `initialize` refuses
  (`ConstantsAssumption` has it positive); fees round half up where the code
  rounds to cents; `payment_webhook_events`, written and never read; the branch of
  `process_payment_atomic` that inserts a transaction, which the service never
  takes; statuses `pending`, `processing`, `refunded` occur in the code and no
  code writes them.  `Init` has leases approved and inactive: what the tests seed,
  and what an approval leaves whose lease update failed.  After a complete
  approval `initialize` refuses; `Tenancy` shows it.
* Tenancy: ownership checks, the renter's score, notification texts; a landlord
  who applies for their own property is refused before anything is written.  That
  two renters may have active leases for one property is possible in model and
  code; nothing in the repository promises otherwise.
* Kyc and Contact: notifications, which the database refuses while the workers go
  on: that of `book_tour_worker` lacks the `type` its table wants, the others name
  columns the table does not have; the fields of an
  identity document; date parsing of a tour, which is refused or stored as it is.
* Listings: which listing matches which query, prices, pictures; what the language
  model writes into features and tags.  Restarts of one of several processes:
  one process is modelled, with the Redis store for what several would share.
* Chat: scores and thresholds of the router and of tool ranking (nondeterministic);
  token counts (`Window` counts messages); widgets and their wording; two threads
  at once, which share only the process's embeddings and the cache, both of which
  may be lost at any time in the model.
* The database executes each call atomically and at most once; a call may fail
  before or after its effect (the handler dies before or after the action).
  Timeouts are such failures.
* Signatures, HTTP, prompts, PDF layout, SQL text: conversions without a property.

### Not modelled

* The multi-agent engine: it imports `approve_tour_worker`, which tour_ops.py does
  not define, so selecting it fails before its first step.
* Profiles and dashboards: single reads and updates of one row.
* Assembly, settings and payload schemas.
* Reads that only answer: lists of tours, threads, messages, properties and
  transactions; `get_messages_worker` limits a thread oldest first, so a long
  thread lacks its newest messages.
