----------------------------- MODULE EnquiryIntake -----------------------------
(***************************************************************************)
(* POST /api/enquiry: rate limiters, idempotencyMiddleware, validate,      *)
(* createEnquiry and errorHandler, run by several API instances against    *)
(* one MySQL database and one Redis.  A step is what one request does      *)
(* between two awaits, so requests interleave wherever the code awaits.    *)
(*                                                                         *)
(* MySQL, Redis, BullMQ's add and the load balancer are external: they are *)
(* modelled from how the code calls them, with the failures those calls    *)
(* can report.                                                             *)
(***************************************************************************)
EXTENDS Naturals, FiniteSets

CONSTANTS Requests,      \* HTTP requests; a retry is a request of its own
          Instances,     \* API processes (PM2 cluster mode)
          Keys,          \* Idempotency-Key values
          Payloads,      \* JSON bodies, after sanitizeBody
          PoolSize,      \* DB_CONNECTION_LIMIT of each instance
          MaxId,         \* bound on AUTO_INCREMENT ids
          MaxAdds,       \* bound on the times one job is added again to Redis
          RedisMayFail,  \* whether Redis may refuse a command or lose its reply
          NoKey,         \* no Idempotency-Key header
          NoRow,         \* the request's transaction has inserted nothing
          NoSubmission,  \* the request has not been sent
          NoAnswer       \* the request has no response yet

\* "text" is what a field says, "style" the casing and spacing it is typed in.
Text == [text : STRING, style : STRING]

\* wellFormed: createEnquirySchema accepts the body.
Payload == [wellFormed : BOOLEAN, fullName : STRING, email : Text, phone : Text,
            propertyId : Nat, message : Text]

ASSUME ConstantsAssumption ==
  /\ Payloads \subseteq Payload
  /\ PoolSize \in Nat \ {0}
  /\ MaxId \in Nat
  /\ MaxAdds \in Nat
  /\ RedisMayFail \in BOOLEAN
  /\ NoKey \notin Keys

\* fingerprintEnquiry: the SHA-256 of the normalised fields.  Lower-casing and
\* collapsing white space keep a field's text and drop its style; fullName and
\* source are not hashed.  The hash is taken as injective.
Fingerprint(p) == <<p.email.text, p.phone.text, p.propertyId, p.message.text>>

Fingerprints == {Fingerprint(p) : p \in Payloads}
PropertyIds == {p.propertyId : p \in Payloads}
Ids == 1 .. MaxId

Submission == [key : Keys \cup {NoKey}, payload : Payloads, instance : Instances]

\* A row of the enquiries table, as far as the other parts depend on it.
Row == [id : Ids, fingerprint : Fingerprints]

ASSUME NoRowAssumption == NoRow \notin Row

Kinds == {"created", "invalid", "notFound", "duplicate", "rateLimited", "error"}
Answer == [kind : Kinds, id : Ids \cup {0}, about : Fingerprints]

\* The value stored under idempotency:/enquiry:<key>.
Marker == [state : {"absent", "processing", "completed"}, answer : Answer \cup {NoAnswer}]
Absent == [state |-> "absent", answer |-> NoAnswer]
Processing == [state |-> "processing", answer |-> NoAnswer]
Completed(a) == [state |-> "completed", answer |-> a]

VARIABLES pc,          \* the await each request stands at
          submission,  \* what the client sent and which instance took it
          outcome,     \* the response, decided before it is sent
          claimed,     \* requests whose res.json is wrapped: they won SET NX
          caching,     \* requests whose "completed" SET is in flight, not awaited
          store,       \* Redis: the idempotency keys
          crmJobs,     \* Redis: sync-enquiry jobs added for each enquiry id
          emailJobs,   \* Redis: confirmation emails added for each enquiry id
          published,   \* MySQL: ids of the published properties
          rows,        \* MySQL: committed rows of the enquiries table
          row,         \* MySQL: the row each request's transaction has inserted
          lastId       \* MySQL: AUTO_INCREMENT counter of enquiries

requestVars == <<pc, submission, outcome, claimed, caching>>
jobVars == <<crmJobs, emailJobs>>
dbVars == <<published, rows, row, lastId>>
vars == <<requestVars, store, jobVars, dbVars>>

Locations ==
  {"idle", "arrived", "lookup", "validate", "connect", "check", "insert", "inserted",
   "rollback", "enqueueCrm", "enqueueEmail", "respond", "done", "hung", "dropped"}

KeyOf(r) == submission[r].key
FingerprintOf(r) == Fingerprint(submission[r].payload)
AnswerFor(r, kind, id) == [kind |-> kind, id |-> id, about |-> FingerprintOf(r)]

Goto(r, from, to) == pc[r] = from /\ pc' = [pc EXCEPT ![r] = to]
Decide(r, kind, id) == outcome' = [outcome EXCEPT ![r] = AnswerFor(r, kind, id)]

InFlight(r) == pc[r] \notin {"idle", "done", "dropped"}
-----------------------------------------------------------------------------
Init ==
  /\ pc = [r \in Requests |-> "idle"]
  /\ submission = [r \in Requests |-> NoSubmission]
  /\ outcome = [r \in Requests |-> NoAnswer]
  /\ claimed = {}
  /\ caching = {}
  /\ store = [k \in Keys |-> Absent]
  /\ crmJobs = [i \in Ids |-> 0]
  /\ emailJobs = [i \in Ids |-> 0]
  /\ published \in SUBSET PropertyIds
  /\ rows = {}
  /\ row = [r \in Requests |-> NoRow]
  /\ lastId = 0

\* A client sends a request; the load balancer picks the instance.
Send(r) ==
  /\ Goto(r, "idle", "arrived")
  /\ \E s \in Submission : submission' = [submission EXCEPT ![r] = s]
  /\ UNCHANGED <<outcome, claimed, caching, store, jobVars, dbVars>>

\* generalRateLimiter or enquiryRateLimiter refuses (429) or cannot reach its
\* Redis store (500); nothing behind it runs.
Throttle(r) ==
  /\ Goto(r, "arrived", "done")
  /\ \E kind \in {"rateLimited", "error"} : Decide(r, kind, 0)
  /\ UNCHANGED <<submission, claimed, caching, store, jobVars, dbVars>>
-----------------------------------------------------------------------------
(***************************************************************************)
(* idempotencyMiddleware                                                   *)
(***************************************************************************)
\* FAULT: the key is left out of the Redis key, so all clients share one.
SharedRedisKey(r) == CHOOSE k \in Keys : TRUE

\* idempotency:<path>:<key>; the path is the same for every request here.
RedisKey(r) == KeyOf(r)

\* FAULT: SET without NX.
AlwaysClaimable(r) == TRUE

\* SET ... NX succeeds only on a key that is not there.
Claimable(r) == store[RedisKey(r)] = Absent

\* A request without the header goes straight on.  With it, the request either
\* claims the key or goes on to read who did.
Claim(r) ==
  \/ /\ Goto(r, "arrived", "validate")
     /\ KeyOf(r) = NoKey
     /\ UNCHANGED <<claimed, store>>
  \/ /\ Goto(r, "arrived", "validate")
     /\ KeyOf(r) # NoKey
     /\ Claimable(r)
     /\ store' = [store EXCEPT ![RedisKey(r)] = Processing]
     /\ claimed' = claimed \cup {r}
  \/ /\ Goto(r, "arrived", "lookup")
     /\ KeyOf(r) # NoKey
     /\ ~ Claimable(r)
     /\ UNCHANGED <<claimed, store>>

Claiming(r) == Claim(r) /\ UNCHANGED <<submission, outcome, caching, jobVars, dbVars>>

\* The connection drops after Redis applied SET NX and before its reply: ioredis
\* sends the command again, and the request loses the race against itself.
ClaimResent(r) ==
  /\ Goto(r, "arrived", "lookup")
  /\ KeyOf(r) # NoKey
  /\ store[RedisKey(r)] = Absent
  /\ store' = [store EXCEPT ![RedisKey(r)] = Processing]
  /\ UNCHANGED <<submission, outcome, claimed, caching, jobVars, dbVars>>

\* Redis fails SET or GET for good: the middleware is async and Express 4 drops
\* its rejection, so the request is never answered.
StoreUnavailable(r) ==
  /\ pc[r] \in {"arrived", "lookup"}
  /\ KeyOf(r) # NoKey
  /\ pc' = [pc EXCEPT ![r] = "hung"]
  /\ UNCHANGED <<submission, outcome, claimed, caching, store, jobVars, dbVars>>

\* FAULT: a marker that expired since SET NX failed is replayed all the same.
LookupUnchecked(r) ==
  /\ Goto(r, "lookup", "done")
  /\ outcome' = [outcome EXCEPT ![r] = store[RedisKey(r)].answer]
  /\ UNCHANGED <<submission, claimed, caching, store, jobVars, dbVars>>

\* GET after a lost claim.  A completed marker is replayed.  For one still in
\* process the middleware throws ConflictError, and for one that expired
\* meanwhile it reads a property of null: both reject a promise nobody awaits,
\* so errorHandler is not reached and the request hangs.
Lookup(r) ==
  LET marker == store[RedisKey(r)] IN
  /\ \/ /\ Goto(r, "lookup", "done")
        /\ marker.state = "completed"
        /\ outcome' = [outcome EXCEPT ![r] = marker.answer]
     \/ /\ Goto(r, "lookup", "hung")
        /\ marker.state # "completed"
        /\ UNCHANGED outcome
  /\ UNCHANGED <<submission, claimed, caching, store, jobVars, dbVars>>

\* validate(createEnquirySchema): 400 or on to the controller.
Validate(r) ==
  /\ \/ /\ Goto(r, "validate", "connect")
        /\ submission[r].payload.wellFormed
        /\ UNCHANGED outcome
     \/ /\ Goto(r, "validate", "respond")
        /\ ~ submission[r].payload.wellFormed
        /\ Decide(r, "invalid", 0)
  /\ UNCHANGED <<submission, claimed, caching, store, jobVars, dbVars>>
-----------------------------------------------------------------------------
(***************************************************************************)
(* createEnquiry: the transaction                                          *)
(***************************************************************************)
\* FAULT: the connection is not released after a rollback.
HoldsConnectionForGood(r) ==
  \/ pc[r] \in {"check", "insert", "inserted", "rollback"}
  \/ pc[r] \in {"respond", "done"} /\ outcome[r].kind \in {"notFound", "duplicate"}

\* withTransaction holds a pool connection from BEGIN to COMMIT or ROLLBACK.
HoldsConnection(r) == pc[r] \in {"check", "insert", "inserted", "rollback"}

PoolOf(r) == {q \in Requests : HoldsConnection(q) /\ submission[q].instance = submission[r].instance}

\* pool.getConnection (waits for a free one) and BEGIN.
Begin(r) ==
  /\ Goto(r, "connect", "check")
  /\ Cardinality(PoolOf(r)) < PoolSize
  /\ UNCHANGED <<submission, outcome, claimed, caching, store, jobVars, dbVars>>

\* getConnection fails; it stands outside withTransaction's try.
ConnectFails(r) ==
  /\ Goto(r, "connect", "respond")
  /\ Decide(r, "error", 0)
  /\ UNCHANGED <<submission, claimed, caching, store, jobVars, dbVars>>

\* SELECT id FROM properties ... status = "published".
CheckProperty(r) ==
  /\ \/ /\ Goto(r, "check", "insert")
        /\ submission[r].payload.propertyId \in published
        /\ UNCHANGED outcome
     \/ /\ Goto(r, "check", "rollback")
        /\ submission[r].payload.propertyId \notin published
        /\ Decide(r, "notFound", 0)
  /\ UNCHANGED <<submission, claimed, caching, store, jobVars, dbVars>>

Taken(f) == \E e \in rows : e.fingerprint = f

Uncommitted(q) == row[q] # NoRow /\ row[q] \notin rows

\* FAULT: no unique index; a row another transaction has not committed is not seen.
NeverLocked(r) == FALSE

\* Another transaction has inserted the fingerprint and not ended: the unique
\* index makes this INSERT wait for it.
LockedByOther(r) ==
  \E q \in Requests \ {r} : Uncommitted(q) /\ row[q].fingerprint = FingerprintOf(r)

\* FAULT: a fingerprint that is only locked is reported as a duplicate at once.
InsertWithoutWaiting(r) ==
  /\ pc[r] = "insert"
  /\ lastId < MaxId
  /\ lastId' = lastId + 1
  /\ \/ /\ ~ Taken(FingerprintOf(r)) /\ ~ LockedByOther(r)
        /\ Goto(r, "insert", "inserted")
        /\ row' = [row EXCEPT ![r] = [id |-> lastId + 1, fingerprint |-> FingerprintOf(r)]]
        /\ UNCHANGED outcome
     \/ /\ Taken(FingerprintOf(r)) \/ LockedByOther(r)
        /\ Goto(r, "insert", "rollback")
        /\ Decide(r, "duplicate", 0)
        /\ UNCHANGED row
  /\ UNCHANGED <<submission, claimed, caching, store, jobVars, published, rows>>

\* FAULT: the INSERT goes to the pool, not to the connection of the transaction.
InsertOutside(r) ==
  /\ pc[r] = "insert"
  /\ lastId < MaxId
  /\ ~ LockedByOther(r)
  /\ ~ Taken(FingerprintOf(r))
  /\ Goto(r, "insert", "inserted")
  /\ lastId' = lastId + 1
  /\ row' = [row EXCEPT ![r] = [id |-> lastId + 1, fingerprint |-> FingerprintOf(r)]]
  /\ rows' = rows \cup {row'[r]}
  /\ UNCHANGED <<submission, outcome, claimed, caching, store, jobVars, published>>

\* INSERT: the unique index admits the row or reports 1062, which uses up an id
\* as well and is answered with ConflictError after the rollback.
Insert(r) ==
  /\ pc[r] = "insert"
  /\ lastId < MaxId
  /\ ~ LockedByOther(r)
  /\ lastId' = lastId + 1
  /\ \/ /\ ~ Taken(FingerprintOf(r))
        /\ Goto(r, "insert", "inserted")
        /\ row' = [row EXCEPT ![r] = [id |-> lastId + 1, fingerprint |-> FingerprintOf(r)]]
        /\ UNCHANGED outcome
     \/ /\ Taken(FingerprintOf(r))
        /\ Goto(r, "insert", "rollback")
        /\ Decide(r, "duplicate", 0)
        /\ UNCHANGED row
  /\ UNCHANGED <<submission, claimed, caching, store, jobVars, published, rows>>

\* FAULT: COMMIT is issued and not awaited, and fails.
CommitNotAwaited(r) ==
  /\ Goto(r, "inserted", "enqueueCrm")
  /\ UNCHANGED <<submission, outcome, claimed, caching, store, jobVars, dbVars>>

\* Reading the row back and COMMIT; the finally clause releases the connection.
Commit(r) ==
  /\ Goto(r, "inserted", "enqueueCrm")
  /\ rows' = rows \cup {row[r]}
  /\ UNCHANGED <<submission, outcome, claimed, caching, store, jobVars, published, row, lastId>>

\* COMMIT takes effect, its reply is lost: the code believes it failed.
CommitReplyLost(r) ==
  /\ Goto(r, "inserted", "rollback")
  /\ rows' = rows \cup {row[r]}
  /\ Decide(r, "error", 0)
  /\ UNCHANGED <<submission, claimed, caching, store, jobVars, published, row, lastId>>

\* BEGIN, SELECT, INSERT (a lock wait timeout or deadlock included), the read
\* back or COMMIT fails without effect: not errno 1062, so a 500 after rollback.
QueryFails(r) ==
  /\ pc[r] \in {"check", "insert", "inserted"}
  /\ pc' = [pc EXCEPT ![r] = "rollback"]
  /\ Decide(r, "error", 0)
  /\ UNCHANGED <<submission, claimed, caching, store, jobVars, dbVars>>

\* ROLLBACK and release.  If ROLLBACK itself fails, its error replaces the one
\* that caused it (a duplicate becomes a 500) and MySQL ends the transaction
\* with the connection.
Rollback(r) ==
  /\ Goto(r, "rollback", "respond")
  /\ row' = [row EXCEPT ![r] = NoRow]
  /\ UNCHANGED outcome \/ Decide(r, "error", 0)
  /\ UNCHANGED <<submission, claimed, caching, store, jobVars, published, rows, lastId>>
-----------------------------------------------------------------------------
(***************************************************************************)
(* createEnquiry: the jobs, then the response                              *)
(***************************************************************************)
AddJob(jobs, id) == [jobs EXCEPT ![id] = @ + 1]

\* FAULT: the sync job is added without a jobId.
AddJobWithoutId(jobs, id) == AddJob(jobs, id)

\* A jobId makes BullMQ ignore an add for a job that is already there.
AddJobOnce(jobs, id) == IF jobs[id] = 0 THEN AddJob(jobs, id) ELSE jobs

\* enqueueCrmSync: jobId crm-sync-<enquiry id>.
EnqueueCrm(r) ==
  /\ Goto(r, "enqueueCrm", "enqueueEmail")
  /\ crmJobs' = AddJobOnce(crmJobs, row[r].id)
  /\ UNCHANGED <<submission, outcome, claimed, caching, store, emailJobs, dbVars>>

\* enqueueEmail, after which createEnquiry returns the row it read back.
EnqueueEmail(r) ==
  /\ Goto(r, "enqueueEmail", "respond")
  /\ emailJobs' = AddJob(emailJobs, row[r].id)
  /\ Decide(r, "created", row[r].id)
  /\ UNCHANGED <<submission, claimed, caching, store, crmJobs, dbVars>>

\* The reply to an add is lost and the BullMQ connection, which never gives up
\* (maxRetriesPerRequest: null), sends it again: only a jobId makes that harmless.
EnqueueResent(r) ==
  /\ \/ /\ pc[r] = "enqueueCrm"
        /\ crmJobs[row[r].id] < MaxAdds
        /\ crmJobs' = AddJobOnce(crmJobs, row[r].id)
        /\ UNCHANGED emailJobs
     \/ /\ pc[r] = "enqueueEmail"
        /\ emailJobs[row[r].id] < MaxAdds
        /\ emailJobs' = AddJob(emailJobs, row[r].id)
        /\ UNCHANGED crmJobs
  /\ UNCHANGED <<requestVars, store, dbVars>>

\* FAULT: a failed add is swallowed and the request answered as if it had worked.
EnqueueFailureIgnored(r) ==
  /\ pc[r] \in {"enqueueCrm", "enqueueEmail"}
  /\ pc' = [pc EXCEPT ![r] = "respond"]
  /\ Decide(r, "created", row[r].id)
  /\ UNCHANGED <<submission, claimed, caching, store, jobVars, dbVars>>

\* Redis refuses an add: createEnquiry rethrows, a 500 for a row that stays.
EnqueueFails(r) ==
  /\ pc[r] \in {"enqueueCrm", "enqueueEmail"}
  /\ pc' = [pc EXCEPT ![r] = "respond"]
  /\ Decide(r, "error", 0)
  /\ UNCHANGED <<submission, claimed, caching, store, jobVars, dbVars>>

\* res.json, by the controller or errorHandler.  Under a claimed key it first
\* starts the SET of the completed marker, which it does not wait for.
Respond(r) ==
  /\ Goto(r, "respond", "done")
  /\ caching' = IF r \in claimed THEN caching \cup {r} ELSE caching
  /\ claimed' = claimed \ {r}
  /\ UNCHANGED <<submission, outcome, store, jobVars, dbVars>>

\* FAULT: the status code is read when res.json is wrapped, not when it is called.
CacheStaleStatus(r) ==
  /\ r \in caching
  /\ caching' = caching \ {r}
  /\ store' = [store EXCEPT ![RedisKey(r)] = Completed([outcome[r] EXCEPT !.kind = "created"])]
  /\ UNCHANGED <<pc, submission, outcome, claimed, jobVars, dbVars>>

\* The SET reaches Redis, whatever kind of answer it carries.
CacheAnswer(r) ==
  /\ r \in caching
  /\ caching' = caching \ {r}
  /\ store' = [store EXCEPT ![RedisKey(r)] = Completed(outcome[r])]
  /\ UNCHANGED <<pc, submission, outcome, claimed, jobVars, dbVars>>

\* The SET fails; .catch(() => void 0) keeps that quiet.
CacheLost(r) ==
  /\ r \in caching
  /\ caching' = caching \ {r}
  /\ UNCHANGED <<pc, submission, outcome, claimed, store, jobVars, dbVars>>
-----------------------------------------------------------------------------
(***************************************************************************)
(* The environment                                                         *)
(***************************************************************************)
\* An instance dies and is restarted: its requests are dropped, MySQL rolls
\* back their transactions, a SET not yet written is lost.  Redis and the
\* committed rows survive.
Crash(i) ==
  LET lost == {r \in Requests : InFlight(r) /\ submission[r].instance = i}
      writing == {r \in caching : submission[r].instance = i}
  IN
  /\ lost \cup writing # {}
  /\ pc' = [r \in Requests |-> IF r \in lost THEN "dropped" ELSE pc[r]]
  /\ outcome' = [r \in Requests |-> IF r \in lost THEN NoAnswer ELSE outcome[r]]
  /\ row' = [r \in Requests |-> IF r \in lost THEN NoRow ELSE row[r]]
  /\ claimed' = claimed \ lost
  /\ caching' = caching \ writing
  /\ UNCHANGED <<submission, store, jobVars, published, rows, lastId>>

\* IDEMPOTENCY_TTL_SECONDS pass: 24 hours, longer than any request that holds
\* the key or any SET under it takes.
Expire(k) ==
  /\ store[k] # Absent
  /\ \A r \in claimed \cup caching : RedisKey(r) # k
  /\ store' = [store EXCEPT ![k] = Absent]
  /\ UNCHANGED <<requestVars, jobVars, dbVars>>

\* An editor publishes or archives a property; no code under src/ does.
SetPublication(p) ==
  /\ published' = IF p \in published THEN published \ {p} ELSE published \cup {p}
  /\ UNCHANGED <<requestVars, store, jobVars, rows, row, lastId>>

\* What an instance does for a request when nothing fails.
Progress(r) ==
  \/ Claiming(r) \/ Lookup(r) \/ Validate(r)
  \/ Begin(r) \/ CheckProperty(r) \/ Insert(r) \/ Commit(r) \/ Rollback(r)
  \/ EnqueueCrm(r) \/ EnqueueEmail(r) \/ Respond(r)

DatabaseFailure(r) == ConnectFails(r) \/ QueryFails(r) \/ CommitReplyLost(r)

RedisFailure(r) ==
  /\ RedisMayFail
  /\ \/ ClaimResent(r) \/ StoreUnavailable(r) \/ EnqueueResent(r) \/ EnqueueFails(r)
     \/ CacheLost(r)

Next ==
  \/ \E r \in Requests :
       Send(r) \/ Throttle(r) \/ Progress(r) \/ CacheAnswer(r)
       \/ DatabaseFailure(r) \/ RedisFailure(r)
  \/ \E i \in Instances : Crash(i)
  \/ \E k \in Keys : Expire(k)
  \/ \E p \in PropertyIds : SetPublication(p)

Spec == Init /\ [][Next]_vars

\* A live instance keeps running its event loop; clients, failures, crashes and
\* editors are under no obligation.
Fairness == \A r \in Requests : WF_vars(Progress(r))

FairSpec == Spec /\ Fairness
=============================================================================
