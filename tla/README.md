# Verification of the property platform backend

This directory holds TLA+ models of the backend in `src/`, the TLC runs that
check them on small instances, and the TLAPS proofs of what holds for every
instance. `EnquirySystem` is the whole path of an enquiry; its parts are the other
modules. `PROJECT.json` lists components, runs, mutants, the map from
definitions to source lines, findings, hazards and theorems.

## 1. The system

| Component | State | Operations | Hard behaviour |
| --- | --- | --- | --- |
| Enquiry creation: `enquiry.controller`, `enquiry.service`, `enquiry.routes` | rows of `enquiries` | rate limit, idempotency, validation, transaction, two queue adds, answer | many instances, crash between commit and add, lost COMMIT reply |
| Idempotency: `middleware/idempotency` | one marker per `Idempotency-Key` in Redis | SET NX, GET, SET of the answer, TTL | races on a key, a claim that outlives its owner, a rejection nobody awaits |
| Pool and transactions: `config/db`, `migrations` | connections, row locks, unique index | BEGIN, queries, COMMIT, ROLLBACK, release | pool exhaustion, waits for locks, failure of each step |
| Queues: `queues/*.queue`, `queue.config`, `config/redis` | BullMQ jobs in Redis, the dead-letter queue | add, retry, give up, dead-letter | commands sent again after a lost reply, events nobody hears |
| Workers: `crmSync.worker`, `email.worker`, `worker` | running executions | take, push, mark, complete, fail, shut down | lost locks, double execution, crash and redeployment |
| CRM webhook: `webhook.*`, `crm.service` | `crm_webhook_events`, `crm_record_id`, `status` | log, verify, look up, update | the log can fail; two writers of one row |
| Listing: `listEnquiries` in `enquiry.service` | none of its own | one SELECT per page, by offset or by cursor | the table changes between two pages |
| CMS cache: `cache.service`, `wpGraphQL.service`, `property.*` | Redis entries with `cachedAt` | get, fetch, serve stale, refresh, invalidate | refreshes out of order, invalidation during a fetch, no single flight |
| Rate limiters: `rateLimiter`, `app` | counters in Redis | count, refuse | fixed windows, double counting |
| API process: `server`, `health.routes` | listening socket, connections | start, drain, forced exit | requests in flight at exit |
| Hygiene, configuration, logging, metrics, deployment | none that matters here | | |

The API runs as a PM2 cluster, one event loop per instance; the instances share
MySQL and Redis and nothing else. Inside an instance requests interleave at
every `await`. `createEnquiry` hands an enquiry to the workers through Redis;
the worker and the webhook then write the same columns of its row. The CMS cache
shares only Redis with all this.

What makes each part correct:

* creation: one row per content, an answer that tells the truth, jobs for
  committed rows only, one sync job per enquiry, every request answered;
* idempotency: one request at a time works under a key, a replay repeats the
  answer exactly, no answer crosses keys;
* transactions: a connection is always given back, no wait is for ever;
* sync: a completed job left its record, a job is given up or done in the end,
  a bounded number of CRM records, dead letters for given-up jobs only;
* webhook: only signed calls that are in the log change a row, and the log and
  the answers agree;
* creation, sync and webhook together: one content gets the CRM records of one
  enquiry, and a 201 is kept by everything behind it;
* listing: a walk by cursor meets every row once, a walk by page misses none;
* cache: bounded staleness, no stale "not found", a successful invalidation leaves
  no copy it found, every call ends whatever the CMS does;
* limiters: at most `max` requests pass per window, over all instances and
  restarts;
* shutdown: no connected client is cut before the timeout, and it ends.

## 2. Modules

| Module | Role |
| --- | --- |
| `EnquiryRegister` | the abstract specification: a register of enquiries that only grows and answers that are true of it |
| `EnquiryIntake` | `POST /api/enquiry` through its middleware, transaction, queue adds and response |
| `EnquiryIntakeProperties` | its type invariant, properties, inductive invariant, refinement mapping |
| `EnquiryIntakeProofs` | the TLAPS proofs |
| `MCEnquiryIntake` | small instances for TLC |
| `CrmSync` | the sync job, the worker processes, the dead-letter queue and `POST /api/webhook/crm` |
| `CrmSyncProperties`, `CrmSyncProofs`, `MCCrmSync` | its properties, proofs and small instances |
| `EnquirySystem` | `EnquiryIntake` and `CrmSync` over one table and one queue, its properties and refinement mappings |
| `EnquirySystemProofs`, `MCEnquirySystem` | its proofs and small instances |
| `StaleReads` | the abstract specification: reads of the CMS that are stale by a bounded time |
| `PropertyCache` | `getOrSetWithSWR` behind the property endpoints, and the cache invalidation, with time |
| `PropertyCacheProperties`, `PropertyCacheProofs`, `MCPropertyCache` | its properties and refinement mapping, proofs, small instances |
| `ApiFront` | what a request meets before its handler: API instances that start, drain and die, and the rate limiters |
| `ApiFrontProperties`, `ApiFrontProofs`, `MCApiFront` | its properties, proofs and small instances |
| `EnquiryTable` | the enquiries table as a SELECT sees it: ids, transactions, statuses |
| `EnquiryListing`, `EnquiryListingProofs` | walks through `GET /api/enquiries` while the table changes, their properties and proofs |

They meet where the code does. `EnquirySystem` composes `EnquiryIntake` and `CrmSync`:
they share the sync job (added by the one, executed by the other) and the row
(written by the one, linked to the CRM by the other), and it implements three
abstract views of itself: `EnquiryRegister` is what its clients see, `CrmSync` what the
workers and the CRM see, and `EnquiryTable` what a SELECT sees, on which
`EnquiryListing` builds. `ApiFront` puts limiters and process lifecycle in front of
every handler, and its crash is the `Crash` of `EnquiryIntake`. `PropertyCache` shares
nothing with them but Redis.

### EnquiryIntake

`pc[r]` is the `await` at which request `r` stands; one action runs the code from
that `await` to the next. `store` holds the markers of Redis, `rows`, `row` and
`lastId` are MySQL (committed rows, the row of an open transaction, the
AUTO_INCREMENT counter), `published` is the `properties` table, `crmJobs` and
`emailJobs` count the jobs added, `claimed` and `caching` are the requests whose
`res.json` is wrapped and whose answer is about to be written to Redis.

| Action | Code |
| --- | --- |
| `Send`, `Throttle` | a client sends a request; `generalRateLimiter`, `enquiryRateLimiter` refuse it |
| `Claiming`, `Lookup` | `SET NX`, and `GET` after a lost claim (`idempotency.ts`) |
| `ClaimResent`, `StoreUnavailable`, `CacheLost` | what ioredis does when the connection drops |
| `Validate` | `validate(createEnquirySchema)` |
| `Begin`, `ConnectFails`, `Commit`, `CommitReplyLost`, `QueryFails`, `Rollback` | `withTransaction` |
| `CheckProperty`, `Insert` | the body of the transaction in `createEnquiry` |
| `EnqueueCrm`, `EnqueueEmail`, `EnqueueResent`, `EnqueueFails` | the two `add`s |
| `Respond`, `CacheAnswer` | `res.json` and the `SET` behind it |
| `Crash`, `Expire`, `SetPublication` | an instance dies; the TTL ends; an editor publishes or archives |

Over-approximations, all of them adding behaviours: a limiter may refuse any
request; every query may fail; a property may be archived at any time (MySQL
would make the archiving wait for the shared lock that an INSERT takes on it).
Abstractions: an INSERT takes its id when it gets the index lock, where MySQL gives
it out before the wait (`EnquiryTable` has ids that commit out of order); an `add`
under a known job id is nothing, as if the job were never removed
(`removeOnComplete`); one key is one marker, whatever the spelling of the path.
Assumptions: SHA-256 is injective, and 24 hours are longer than a request that
holds a key (`Expire`).

### CrmSync

`job[e]` is the BullMQ job `crm-sync-<id>` with its state, lock owner, attempts
and stalls; `slot[s]` is one of a process's concurrent executions; `link[e]` are
`crm_record_id` and `status` of the row; `audit` is `crm_webhook_events`;
`undelivered[w]` are the failed events that process `w`'s `QueueEvents` has not
handled; `at[c]` is the `await` of webhook call `c`.

| Action | Code |
| --- | --- |
| `Arrive` (`Commit`, `AddJob`) | the end of `createEnquiry`, seen from here |
| `Take`, `Push`, `PushFails`, `Mark`, `MarkFails`, `Complete`, `Fail` | `crmSyncWorker` and `pushEnquiryToCrm` |
| `Promote`, `Stall` | BullMQ's backoff and its check for lost locks |
| `SendToDeadLetter` | `attachDeadLetterHandler` |
| `Crash`, `Shutdown`, `Exit`, `Restart` | `worker.ts` and PM2 |
| `Receive`, `Refuse`, `LogWebhookEvent`, `FindEnquiry`, `Apply`, `QueryFails`, `Drop` | the webhook's route and handler |

`Next` is `Arrive` for some enquiry or `Work`, which is everything else: `EnquirySystem`
keeps the latter and replaces the former by what `createEnquiry` really does.

BullMQ is external. What the model takes from it: a job is executed by the slot
that has its lock; a lock that runs out puts the job back up to `MaxStalled`
times while the first execution goes on; the result of an execution that lost its
lock is ignored; `failed` is published for a terminal failure only, and
`QueueEvents` reads from the end of the stream when it starts. `Date.now()` in
`crm_<id>_<time>` is taken as making each record a new one.

### EnquirySystem

It extends `EnquiryIntakeProperties` with the variables of `CrmSync`, and instantiates
`CrmSync` with the enquiries it may ask for being the ids of the table and those
that exist being `Committed`, the ids of `rows`. A step is either

* `IntakeStep(Next)`: a step of `EnquiryIntake`, after which the job of every id for
  which `crmJobs` grew is waiting in the queue (`Queued`), and nothing else of
  `CrmSync` has changed; or
* `SyncStep(Crm!Work)`: a step of the workers, BullMQ, PM2 or the webhook, which leaves
  all of `EnquiryIntake` alone.

For `EnquiryTable`, `Open` are the ids of rows inserted and not committed, and
`StatusOfRow` gives each committed row the status in its `link`.

### PropertyCache

`edits` are the changes made in the CMS, a version is a number of them; `cache[e]`
is the copy of entry `e` in Redis; `call[c]` is one call of `getOrSetWithSWR` at an
`await`, which goes on as a background refresh once `answered`; `hook[h]` is one call
of the invalidation endpoint.

| Action | Code |
| --- | --- |
| `Request`, `ServeFresh`, `ServeStale`, `Miss`, `LookFails` | the handlers; `GET` in `getOrSetWithSWR` and what follows it |
| `CmsReads`, `FetchReturns`, `FetchFails` | the fetchers of `fetchPublishedProperties` and `fetchPropertyBySlug`, the GraphQL client with its `AbortSignal.timeout` |
| `WriteCache`, `WriteFails` | `writeCache` |
| `Invalidate`, `ScanDetails`, `ScanListings`, `Delete`, `InvalidateFails` | `invalidatePropertyCache`, `invalidateCacheByPrefix` |
| `Drop`, `Expire`, `Edit`, `Tick` | a process dies; Redis loses a key; an editor saves; time |

Abstractions. Time is counted in ticks and kept as ages, which stop growing where
no comparison tells them apart; the instances share one clock, so the skew
between machines is left out. A SCAN loop is one step. An edit concerns every
page of the list and its property's details. `Expire` may strike at any time,
which covers the six hours of `EX`, eviction and a Redis restart. Content is
known by its version. A SET or DEL that ioredis sends again after a lost reply has one
effect here, not two. That a pattern `property:villa*` also matches `villa-2` is
`Longer`.

### ApiFront

`state[i]` is the life of an instance, `draining[i]` the ticks since its SIGTERM;
`request[q]` stands before a limiter, in its handler, hung (the rejection that
`idempotency.ts` leaves unanswered), or is an orphan whose client is gone; `hits`
and `age` are the counters in Redis; `passed[l][a]`, the requests limiter `l` let through
in the last `a + 1` ticks, is there for the properties.

| Action | Code |
| --- | --- |
| `Arrive`, `Limit`, `LimitFails`, `Serve`, `Hang`, `Abandon` | `createApp`, `rateLimiter`, a handler as one step, a client that leaves |
| `Start`, `Listen`, `StartFails` | `bootstrap` |
| `Shutdown`, `Closed`, `Exit`, `ForceExit` | `shutdown` in `server.ts` |
| `Crash`, `Tick` | exceptions and SIGKILL; time |

The limiters are keyed by address, and counters of different addresses never
meet: there is one client with any number of connections. A lost reply makes an
increment count twice, not more often. A draining instance
goes on serving open, kept-alive connections, as Node's `server.close` does.

### EnquiryTable and EnquiryListing

In `EnquiryTable`, `status` are the committed rows and `open` the ids of open transactions,
so that ids commit out of order. `Insert` gives out an id, which a duplicate wastes;
`Commit` shows a row; `Rollback` ends a set of transactions, as a process that dies
takes all of its own along; `MarkCrmSynced` is the webhook's update. In
`EnquiryListing`, `walk` is a client that asks for what is below the last id it has seen
(`PERFORMANCE.md:40`) until a page is empty, or counts pages up to `totalPages`: `Begin`
starts a walk, `ReadCursor` and `ReadPage` are requests to `listEnquiries`, each one
SELECT, and `Mark` is `MarkCrmSynced` with what it means for the walk's properties.

## 3. Runs

Passing runs:

| Run | Instance | Shows |
| --- | --- | --- |
| `intake_keys` | 2 requests, 2 instances, 2 keys, 4 kinds of body | one row per content, claims exclusive, replays exact, answers truthful and under their key, a 201 has its jobs, jobs for committed rows only and one sync job each; `IInv` |
| `enquiry_system` | 2 equal requests without key on 2 instances with a pool of 1; 1 worker with 1 attempt; 1 webhook call | one content is synced once, a 201 is kept by the worker; refinement of `CrmSync`, `EnquiryTable` and `EnquiryRegister`; every request settles |
| `crm_row` | 1 enquiry, 2 worker processes, 2 calls of 5 kinds | the row is vouched for, log and answers agree |
| `crm_queue` | 1 job, 2 processes, 3 attempts, 2 stops | dead letters, completed jobs, number of CRM records; a shutdown abandons no job; every job ends, a given-up one is dead-lettered while no process ends |
| `property_cache` | 1 list page, 2 slugs of which one begins the other, 2 calls, 1 invalidation, 1 edit, TTL, grace and timeout of 1 tick | refinement of `StaleReads`, honest ages, thorough invalidations, every call ends |
| `api_front` | 2 instances, 2 requests, limits of 2 and 1, windows of 2 ticks, 1 crash | limits hold over instances and restarts; a shutdown cuts nobody and ends |
| `enquiry_listing` | 5 ids, 2 statuses, pages of 2 | walks by cursor list each row once and miss none; by page none is missed without a filter |

Bounds. Two requests make every race on a key, a row or a lock, and with a pool of
one connection the second queues behind the first. `MaxId` is the number of
requests, so it never binds, because each request inserts once. `MaxAdds` bounds
how often an `add` is sent again; two sends are what a lost reply makes of one. In
`enquiry_system` one add is enough, since the job id makes a second one nothing,
which `intake_keys` checks. It has no keys: what a key does comes before the
transaction and is `intake_keys`' question, and two requests without one are the
two that nothing but the unique index keeps apart. Its worker has one attempt and
no stall, and its database serves the webhook without failure: what becomes of a
job is the question of `crm_queue` and `crm_row`, here it is what the two halves
do to each other. `InTurnsSpec` explores the states that two requests reach before
the webhook is called, and those that one request and a call reach; the rest, a
call among racing requests, is in the proofs. The pool is smaller than the code's
`DB_CONNECTION_LIMIT`: less is harder. In `CrmSync` the attempts are 2 or 3 (the
code has 3), BullMQ's `maxStalledCount` is its default 1, and one or two stops put
a crash or a deployment at every point. `crm_queue` and `crm_row` are apart
because the queue does not read the row: `crm_row` lets two executions of the job
and two calls meet in every order, without stops. Symmetry is used for safety
only, and only over requests, worker processes and calls, which nothing else
names.

In `property_cache` one tick each for TTL, grace and timeout gives copies that are
fresh, stale, and too old, and a fetch that spans a tick. `HalvesSpec` explores
two parts of the state space that meet in the states they share: one reader after
another against invalidations without edits, and two readers at one key with
edits. What the parts leave out is an invalidation among racing readers, which to
a reader deletes a key, as `Expire` does. One edit is what fits in this run with
liveness; several edits, of one property too (archived and published again), and
all overlaps of calls are covered by the proofs. In `api_front`, `InTurnsSpec` is
the same idea: two instances with one request at a time, or one instance with two.
No fair step leads out of these restrictions (in `enquiry_system` neither a
request nor a call begins with one), so that fairness means what it means without
them. Five ids and pages of two make three pages, the last one short, with rows in
front of the walk and rows committing behind it.

Deadlock is checked in `EnquiryIntake` and `EnquirySystem`, though an editor may
always act there, so that it is `Settles` that carries weight. The `CrmSync` runs
say `CHECK_DEADLOCK FALSE`: an instance with all jobs ended and all calls answered
has nothing left to do. So does `enquiry_listing`: with the ids used up a client
may be the only one left.

Fairness. `EnquiryIntake` has weak fairness of `Progress(r)`, what an instance does
for one request when nothing fails, and `EnquirySystem` has the same of
`IntakeStep(Progress(r))`: the event loop of a live process resumes a
request whose awaited reply is there, and MySQL and Redis reply or fail in the
end. `Begin` and `Insert` wait for a connection and a lock, and are not helped by
this unless somebody gives them back, which is what the run checks. In `CrmSync`
a running process executes what it took, takes what waits, handles events it
heard, exits after a shutdown, and PM2 restarts it; BullMQ's timers fire. In
`PropertyCache` time passes, Redis answers a call or its client gives up
(`maxRetriesPerRequest`), and the timer of `AbortSignal.timeout` fires; the CMS need
not answer at all. In `ApiFront` time passes and the ten-second timer fires;
handlers, clients, the pool and PM2 may do nothing. No fairness is asked anywhere
of clients, new enquiries, failures, crashes or deployments.

Findings (runs that must be violated):

| Run | The code | The documentation |
| --- | --- | --- |
| `intake_lost_job` | a crash, a lost COMMIT reply or a failed `add` after the commit leaves an enquiry that is never synced | `PERFORMANCE.md:78`: nothing is silently lost |
| `intake_in_flight_key` | the 409 for a key in process is an unhandled rejection: no answer | `API_DOCS.md:57`: 409 |
| `crm_lost_dead_letter` | the failed event is lost with the process that was to handle it | `queue.config.ts:21`: exhausted jobs land in the dead-letter queue |
| `crm_unlogged` | the log's INSERT fails for unknown enquiries (foreign key) and for payloads cut at 60000 characters: a 500 and no entry | `THREAT_SCENARIOS.md:45`: every call is persisted; `API_DOCS.md:144`: 404 |
| `property_written_back` | a fetch that read the CMS before an edit stores its result after the invalidation for that edit: the old content is fresh again | `wpGraphQL.service.ts:125`: an editor's change is visible well before the TTL ends |

Met while modelling and not made a run: calls that `validate` or the rate limiter
refuses are not logged either; `createEnquiry` has no application-level check of
the fingerprint (`enquiry.service.ts:34` says it has one), duplicates go to the
INSERT; both adds are awaited, though the comment above them (`enquiry.service.ts:83`)
says they must not block the response; the first page of a walk by cursor carries no
`nextCursor`, since only an answer to a cursor has one (`enquiry.service.ts:184`), so
that a client starts from the last id it has seen; `ecosystem.config.js` sets no
`kill_timeout`, so that PM2 kills a process 1.6 seconds after its SIGTERM, before the
ten seconds of `server.ts` and whatever jobs run in `worker.ts`. Such a kill is a
`Crash`: `ShutdownCutsNobody` and `ShutdownAbandonsNoJob` are about shutdowns that PM2
lets end.

Every property of a passing run has a mutant: a definition marked `FAULT` next to
the one it replaces, a plausible bug (a key without its prefix, a commit that is
not awaited, an attempt that is not counted), which violates the property.

## 4. Proofs

Each proof module assumes the named assumptions on the constants of its component
(`ConstantsAssumption`, in `EnquiryIntake` also `NoRowAssumption`, in
`EnquirySystem` also `SyncAssumption`, which is what `CrmSync` assumes) and
nothing else: any sets of requests, processes, calls, keys and enquiries, any
limits and times. The argument for a component is always the same: an inductive
invariant, a lemma per action or group of actions that preserve it, `NextStep` or
its like that puts them together, and the properties as consequences. The
invariants were checked by TLC on instances before they were proved; for
`EnquirySystem` the proofs of its parts are put together.

### EnquiryIntakeProofs

It proves:

* `Invariance`: `Spec => []IInv`;
* the properties of the safety runs as consequences: `TypeCorrect`,
  `EnquiriesAreUnique`, `ClaimsAreExclusive`, `AnswersAreTruthful`,
  `CreatedEnquiriesHaveJobs`, `JobsAreForCommitted`, `SyncedOnce`,
  `AnswersStayWithTheirKey`;
* `ReplaysAreFaithful`, an action property;
* `Implementation`: the service refines `EnquiryRegister`.

None of the properties is inductive alone. `IInv` adds: `TransactionsAreSound`, that
a row not yet committed has its id and fingerprint to itself (what the index lock
gives), so that COMMIT keeps the rows unique; `ClaimsAreHeld`, that a claim is
held only between `SET NX` and the response, by a request with a key, and
`OneClaimantPerKey`, that the key is marked all that time, so that a second claim
fails; `MarkersAreSound`, that a stored answer is one that some answered request
with this key was given, so that a replay is as true as the first answer; and
`AnswersAreSound`, that an answer decided but not yet sent is already true. Each
action has a lemma with one step per part of `IInv`, `NextStep` puts them
together, and `LookupCases` serves both the invariant and the replays. The
refinement maps `registered` to `rows` and `answers` to the outcomes of answered
requests; `RefinementStep` shows that only COMMIT and an answer are visible. The
run `intake_keys` checks `IInv` on an instance before any proof.

### CrmSyncProofs

`TypeCorrect`, `LinksVouchedFor`, `AnswersMatch`, `CompletedSynced`, `DeadLettersFinal`,
`PushesBounded` and `OnlyCrashesAbandon`, for any number of enquiries, processes,
executions and calls. The invariant `IInv` adds four things. `CallsAreOrdered`: a webhook
call past its log entry has that entry, and one past the signature is signed.
`ExecutionsAreSound`: an
execution past its push carries a record that was pushed for its enquiry, and
after its update the row has one, also when the lock was lost in between.
`PushesAreCounted`: pushes made and pushes still to come are at most the attempts
and stalls, since every take of a job is paid for by an attempt or by a stall; this
gives `Attempts + MaxStalled`. `FailuresAreHeardOnce`: dead letters and failed events not
yet handled together are at most one per process.

`OnlyCrashesAbandon` is an action property and needs no more than the types: a slot
takes nothing while it executes (`TakeHolds`), an execution that ends while it holds
the lock moves the job on (`ExecuteHolds`), a lock that runs out leaves no owner
(`TimersHold`), and `Exit` waits until every slot of its process is idle.

For `EnquirySystemProofs` it has lemmas on what `Work` does to the rest of the system:
`JobsStay` (no job appears or vanishes), `PushesFollowAdds` (no CRM record without a
job), `OneStatusMoves` (at most one row changes its status), and, with an invariant of
its own, `AuditRefersToRows`, `NewUntilThere`: a row that does not exist yet will be
`new`, for the foreign key keeps calls about it out of the log.

### PropertyCacheProofs

`TypeCorrect`, `CopiesAreHonestlyAged`, `InvalidationIsThorough`, and `Implementation`: the
cache refines `StaleReads` for every TTL, grace window and timeout. The invariant
`CInv` says of every copy, and of every reply on its way to Redis, that it is
`Honest`: an edit it lacks is at most one fetch older than its age, and the property
was shown in its version. A reply also lacks no edit made before its request
(`CallsAreSound`), which makes fresh fetches and "not found" current; and the copies an
invalidation has not yet met are among those it will scan or delete
(`HooksAreThorough`). `HonestEdit` and `HonestTick` show that honesty survives edits and
time. The refinement maps `asked` to the calls that still wait: the end of a call is
an answer or a stutter (`EndMaps`), so a background refresh is invisible.

### EnquiryListingProofs

`TypeCorrect`, `CursorIsUnique`, `CursorIsComplete` and `PagesAreComplete`, for any page
size and number of rows. `CursorDivides`: what was listed is at or above the cursor,
and what is steady and not listed is below it. `PagesAdvance`: a steady row not yet
listed has at least as many rows in front of it as the next page skips, since
rows that come in only push it back; `NoGaps` then finds it in the page or behind
it, by counting the rows above a given one.

### ApiFrontProofs

`TypeCorrect` and `NobodyIsCut`, an action property. The invariant `SInv` adds
`ClosedIsEmpty`: an instance whose server has closed has no connected request, and gets
none.

`LimitsHold` and `TwiceTheLimit`, for any limits, window, instances and crashes. Neither
is inductive: the first is silent about a limiter without a counter, the second
about what a window held before it ended. `WInv` (theorem `Windows`) says that what
was let through in a counter's window is at most the counter and at most the limit,
and that what was let through in a window's time is at most one limit more than
that: what passed since the counter began, and before that at most one limit from
the counter before it. `LimitWindows` shows that a hit is counted before the request
is let through, resent commands only adding to the counter, and `TickWindows` that
the counts age together with the counter.

### EnquirySystemProofs

The theorems about `EnquiryIntake` are at hand by EXTENDS, those about `CrmSync`
by `Sync == INSTANCE CrmSyncProofs WITH Enquiries <- Ids, existing <- Committed`:
`SyncConstants` shows that the constants are as `CrmSync` assumes, the lemmas
`Same...` that the `Crm` of the model and `Sync` are one specification, and a few
lemmas named `Sync...` restate what is cited from it.

`SystemInv` is `IInv` of both halves, `AuditRefersToRows`, and `Linked`: a job is
in the queue exactly if `createEnquiry` has added it. The heart is `ArrivalStep`.
`IntakeEffect` goes through all the actions of `EnquiryIntake` and finds that each
commits one enquiry that was not there (`CommitEffect`), adds one job of a
committed enquiry that had none (`EnqueueEffect`), or does neither; with `Linked`
the first two are `Commit` and `AddJob` of `CrmSync`, and the third is a stutter.
`WorkStep` is the converse, which needs `JobsStay`. Each side leans on the other:
that a commit is new is in `TransactionsAreSound`, that the queue holds no job
which nobody added is in `Linked`, and only so is `CrmSync`'s invariant kept by
the steps of `createEnquiry`. From there:

* `SystemInvariance`: `SystemSpec => []SystemInv`;
* `SystemIsIntake`: the system is an `EnquiryIntake`, so that its theorems hold of it, and
  hence `SystemIsRegister`;
* `SystemIsSync`: it is a `CrmSync`, so that what `CrmSync` takes for granted of
  `createEnquiry` is now proved of it;
* `SystemIsTable`: it is an `EnquiryTable`. `IntakeTable` sorts the actions of
  `EnquiryIntake` into those that use up an id, end a transaction, lose some
  (`RowsDropped`) or do nothing of this; open transactions have ids of their own,
  which is why the end of one leaves the others open; a row is committed as `new`
  by `NewUntilThere`, and `WorkTable` is `OneStatusMoves`;
* `ContentSyncedOnce` and `AcknowledgedTracked`, which no half can state alone: uniqueness
  of content comes from the one, the bound on CRM records and what a completed job
  has done from the other, and `Linked` connects them.

### Only model-checked

Liveness (`Settles`, `EveryJobEnds`, `FailedIsDeadLettered`, `EveryCallEnds`,
`ShutdownEnds`), because fairness is out of the prover's reach, and the findings.
What liveness there is from end to end rests on both: a 201 means that the job is
in the queue (`AcknowledgedTracked`), the queue is that of `CrmSync`
(`SystemIsSync`), and there every job ends (`EveryJobEnds` of `crm_queue`), after
which a completed one has left its record. The fairness that `CrmSync` asks of the
workers is not part of `FairSystem`; it is stated where it is used.

## 5. Not modelled, and the plan

Left out for good:

* logging, metrics, configuration, header hygiene, the migration runner and
  deployment files: no state the behaviour depends on. What deployment decides
  (how many processes, who kills them) is in the modules as constants and crashes;
* the rules of each schema field (a body is well formed or not) and the hygiene
  in front of them;
* the email worker: queue, retries, dead letters and shutdown are the code that
  `CrmSync` models for the sync job, without a job id and without a row to mark;
  sending is a log line, and no document says how many emails an enquiry gets;
* `getEnquiryById` and the health endpoints, which read and change nothing;
  `invalidateCache`, which nobody calls;
* clock skew between instances, and Redis or MySQL losing acknowledged writes
  other than cached copies.

What a continuation would do, in this order: a composition of `ApiFront` with
`EnquirySystem` in which a forced exit strikes a submission at a given `await` (each has
the other's part as a nondeterministic step now); the confirmation emails of one
enquiry, counted from its `add`s as the CRM records are; an unrestricted
`property_cache` instance on a larger machine, though the proofs cover its safety.
