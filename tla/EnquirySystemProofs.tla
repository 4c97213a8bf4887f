-------------------------- MODULE EnquirySystemProofs --------------------------
(***************************************************************************)
(* What TLAPS proves of EnquirySystem, for any number of requests,         *)
(* instances, enquiries, worker processes and webhook calls: it is an      *)
(* EnquiryIntake and a CrmSync at once, so what is proved of each of them  *)
(* holds here, and with it what only the two together can promise.         *)
(***************************************************************************)
EXTENDS EnquirySystem, EnquiryIntakeProofs

\* CrmSync with the theorems about it.
Sync == INSTANCE CrmSyncProofs WITH Enquiries <- Ids, existing <- Committed

-----------------------------------------------------------------------------
(***************************************************************************)
(* The theorems about CrmSync apply                                        *)
(***************************************************************************)
\* The constants of the system are as CrmSync wants them.
LEMMA SyncConstants ==
  /\ Bodies \subseteq Sync!Body
  /\ Sync!IsFiniteSet(Workers)
  /\ Concurrency \in Nat \ {0}
  /\ Attempts \in Nat \ {0}
  /\ MaxStalled \in Nat
  /\ MaxStops \in Nat
  /\ DatabaseMayFail \in BOOLEAN
  /\ RedisMayFail \in BOOLEAN
  /\ NoRecord \notin Sync!Records
  /\ NoSlot \notin Sync!Slots
  BY SyncAssumption, ConstantsAssumption
  DEF IsFiniteSet, Sync!IsFiniteSet, Crm!Body, Sync!Body, Crm!Statuses, Sync!Statuses,
      Crm!Records, Sync!Records, Crm!PushRecords, Sync!PushRecords, Crm!Slots, Sync!Slots

\* EnquirySystem's copy of CrmSync and the one with the theorems are the same.
LEMMA SameInit == Crm!Init <=> Sync!Init
  BY DEF Crm!Init, Sync!Init, Crm!Slots, Sync!Slots, Crm!Idle, Sync!Idle

LEMMA SameArrivals == \A i \in Ids : (Crm!Commit(i) <=> Sync!Commit(i)) /\ (Crm!AddJob(i) <=> Sync!AddJob(i))
  BY DEF Crm!Commit, Sync!Commit, Crm!AddJob, Sync!AddJob, Crm!queueVars, Sync!queueVars,
         Crm!workerVars, Sync!workerVars, Crm!callVars, Sync!callVars

LEMMA SameWork == Crm!Work <=> Sync!Work
  BY DEF Crm!Work, Sync!Work, Crm!vars, Sync!vars, Crm!queueVars, Sync!queueVars,
    Crm!workerVars, Sync!workerVars, Crm!callVars, Sync!callVars, Crm!Statuses, Sync!Statuses,
    Crm!Slots, Sync!Slots, Crm!SlotsOf, Sync!SlotsOf, Crm!Idle, Sync!Idle,
    Crm!MarkCrmSynced, Sync!MarkCrmSynced, Crm!Move, Sync!Move, Crm!Leave, Sync!Leave,
    Crm!Take, Sync!Take, Crm!Push, Sync!Push, Crm!PushFails, Sync!PushFails, Crm!Mark, Sync!Mark,
    Crm!MarkFails, Sync!MarkFails, Crm!Owns, Sync!Owns, Crm!Complete, Sync!Complete,
    Crm!GivenUp, Sync!GivenUp, Crm!Announce, Sync!Announce,
    Crm!AttemptsAfter, Sync!AttemptsAfter, Crm!Fail, Sync!Fail, Crm!Promote, Sync!Promote,
    Crm!Stall, Sync!Stall, Crm!SendToDeadLetter, Sync!SendToDeadLetter, Crm!Crash, Sync!Crash,
    Crm!Shutdown, Sync!Shutdown, Crm!Exit, Sync!Exit, Crm!Restart, Sync!Restart,
    Crm!Step, Sync!Step, Crm!Answer, Sync!Answer, Crm!Receive, Sync!Receive,
    Crm!Refuse, Sync!Refuse, Crm!Recordable, Sync!Recordable,
    Crm!SignatureValid, Sync!SignatureValid, Crm!LogWebhookEvent, Sync!LogWebhookEvent,
    Crm!FindEnquiry, Sync!FindEnquiry, Crm!Apply, Sync!Apply, Crm!QueryFails, Sync!QueryFails,
    Crm!Drop, Sync!Drop, Crm!Execute, Sync!Execute, Crm!Handling, Sync!Handling

LEMMA SameNext == Crm!Next <=> Sync!Next
  BY SameArrivals, SameWork DEF Crm!Next, Sync!Next, Crm!Arrive, Sync!Arrive

LEMMA SameStep == [Crm!Next]_Crm!vars <=> [Sync!Next]_Sync!vars
  BY SameNext DEF Crm!vars, Sync!vars, Crm!queueVars, Sync!queueVars, Crm!workerVars,
                  Sync!workerVars, Crm!callVars, Sync!callVars

\* The lemmas of CrmSyncProofs that the proofs below build on.
LEMMA SyncInit == Sync!Init => Sync!IInv
  BY SyncConstants, Sync!InitOK

LEMMA SyncNext == Sync!IInv /\ [Sync!Next]_Sync!vars => Sync!IInv'
  BY SyncConstants, Sync!NextStep

LEMMA SyncJobsStay ==
  ASSUME Sync!TypeOK, Sync!Work
  PROVE  \A i \in Ids : job'[i].state = "none" <=> job[i].state = "none"
  BY SyncConstants, Sync!JobsStay

LEMMA SyncPushesFollowAdds ==
  ASSUME Sync!IInv, NEW i \in Ids, pushes[i] > 0
  PROVE  job[i].state # "none"
  BY SyncConstants, Sync!PushesFollowAdds

LEMMA SyncAuditInit == Sync!Init => Sync!AuditRefersToRows
  BY SyncConstants, Sync!AuditInit

LEMMA SyncAuditNext ==
  ASSUME Sync!IInv, Sync!AuditRefersToRows, [Sync!Next]_Sync!vars
  PROVE  Sync!AuditRefersToRows'
  BY SyncConstants, Sync!AuditNext

LEMMA SyncNewUntilThere ==
  ASSUME Sync!IInv, Sync!AuditRefersToRows, NEW i \in Ids, i \notin Committed
  PROVE  link[i].status = "new"
  BY SyncConstants, Sync!NewUntilThere

LEMMA SyncOneStatusMoves ==
  ASSUME Sync!TypeOK, Sync!CallsAreOrdered, Sync!Work
  PROVE  \/ \A d \in Ids : link'[d].status = link[d].status
         \/ \E e \in Ids, s \in Sync!Statuses :
              \A d \in Ids : link'[d].status = IF d = e THEN s ELSE link[d].status
  BY SyncConstants, Sync!OneStatusMoves

-----------------------------------------------------------------------------
(***************************************************************************)
(* What createEnquiry does to the table and the queue                      *)
(***************************************************************************)
\* The sync job is in the queue exactly if createEnquiry has added it.
Linked == \A i \in Ids : job[i].state = "none" <=> crmJobs[i] = 0

SystemInv == IInv /\ Sync!IInv /\ Sync!AuditRefersToRows /\ Linked

Undisturbed == UNCHANGED <<rows, crmJobs>>

Commits(i) ==
  /\ i \notin Committed
  /\ Committed' = Committed \cup {i}
  /\ UNCHANGED crmJobs

Enqueues(i) ==
  /\ i \in Committed
  /\ crmJobs[i] = 0
  /\ crmJobs' = [crmJobs EXCEPT ![i] = 1]
  /\ UNCHANGED rows

LEMMA CommitEffect ==
  ASSUME IInv, NEW r \in Requests, Commit(r) \/ CommitReplyLost(r)
  PROVE  \E i \in Ids : Commits(i)
<1>1. Uncommitted(r) /\ rows' = rows \cup {row[r]} /\ UNCHANGED crmJobs
  BY DEF Commit, CommitReplyLost, Goto, jobVars, IInv, TransactionsAreSound
<1>2. row[r] \in Row /\ row[r].id \in Ids
  BY <1>1, RowFields DEF IInv, TypeOK, Uncommitted
<1>3. row[r].id \notin Committed
  BY <1>1 DEF Committed, IInv, TransactionsAreSound
<1>4. Committed' = Committed \cup {row[r].id}
  BY <1>1 DEF Committed
<1>5. Commits(row[r].id)
  BY <1>1, <1>3, <1>4 DEF Commits
<1> QED BY <1>2, <1>5

LEMMA EnqueueEffect ==
  ASSUME IInv, NEW r \in Requests, EnqueueCrm(r) \/ EnqueueResent(r)
  PROVE  Undisturbed \/ \E i \in Ids : Enqueues(i)
<1>1. CASE UNCHANGED crmJobs
  BY <1>1 DEF EnqueueCrm, EnqueueResent, dbVars, Undisturbed
<1>2. CASE pc[r] = "enqueueCrm" /\ crmJobs' = AddJobOnce(crmJobs, row[r].id)
  <2>1. row[r] \in rows /\ row[r].id \in Ids /\ crmJobs[row[r].id] \in Nat
    BY <1>2, RowFields DEF IInv, TransactionsAreSound, TypeOK
  <2>2. row[r].id \in Committed /\ UNCHANGED rows
    BY <2>1 DEF Committed, EnqueueCrm, EnqueueResent, dbVars
  <2>3. CASE crmJobs[row[r].id] = 0
    <3>1. crmJobs' = [crmJobs EXCEPT ![row[r].id] = 1]
      BY <1>2, <2>1, <2>3 DEF AddJobOnce, AddJob
    <3> QED BY <2>1, <2>2, <2>3, <3>1 DEF Enqueues
  <2>4. CASE crmJobs[row[r].id] # 0
    BY <1>2, <2>2, <2>4 DEF AddJobOnce, Undisturbed
  <2> QED BY <2>3, <2>4
<1> QED BY <1>1, <1>2 DEF EnqueueCrm, EnqueueResent, Goto

LEMMA NoEffect ==
  ASSUME NEW r,
         \/ Send(r) \/ Throttle(r) \/ CacheAnswer(r) \/ Claiming(r) \/ Lookup(r) \/ Validate(r)
         \/ Begin(r) \/ CheckProperty(r) \/ Insert(r) \/ Rollback(r) \/ EnqueueEmail(r)
         \/ Respond(r) \/ ConnectFails(r) \/ QueryFails(r) \/ ClaimResent(r) \/ StoreUnavailable(r)
         \/ EnqueueFails(r) \/ CacheLost(r) \/ Crash(r) \/ Expire(r) \/ SetPublication(r)
  PROVE  Undisturbed
<1>1. CASE Send(r) \/ Throttle(r) \/ CacheAnswer(r) \/ Claiming(r) \/ Lookup(r) \/ Validate(r)
  BY <1>1 DEF Undisturbed, jobVars, dbVars, Send, Throttle, CacheAnswer, Claiming, Lookup, Validate
<1>2. CASE Begin(r) \/ CheckProperty(r) \/ Insert(r) \/ Rollback(r) \/ EnqueueEmail(r) \/ Respond(r)
  BY <1>2 DEF Undisturbed, jobVars, dbVars, Begin, CheckProperty, Insert, Rollback, EnqueueEmail, Respond
<1>3. CASE \/ ConnectFails(r) \/ QueryFails(r) \/ ClaimResent(r) \/ StoreUnavailable(r)
           \/ EnqueueFails(r) \/ CacheLost(r)
  BY <1>3 DEF Undisturbed, jobVars, dbVars, ConnectFails, QueryFails, ClaimResent,
              StoreUnavailable, EnqueueFails, CacheLost
<1>4. CASE Crash(r) \/ Expire(r) \/ SetPublication(r)
  BY <1>4 DEF Undisturbed, jobVars, dbVars, Crash, Expire, SetPublication
<1> QED BY <1>1, <1>2, <1>3, <1>4

\* A step of the intake commits one enquiry, adds one job or does neither.
LEMMA IntakeEffect ==
  ASSUME IInv, Next
  PROVE  Undisturbed \/ \E i \in Ids : Commits(i) \/ Enqueues(i)
<1>1. ASSUME NEW r \in Requests,
             Send(r) \/ Throttle(r) \/ Progress(r) \/ CacheAnswer(r) \/ DatabaseFailure(r) \/ RedisFailure(r)
      PROVE  Undisturbed \/ \E i \in Ids : Commits(i) \/ Enqueues(i)
  BY <1>1, CommitEffect, EnqueueEffect, NoEffect DEF Progress, DatabaseFailure, RedisFailure
<1> QED BY <1>1, NoEffect DEF Next

-----------------------------------------------------------------------------
(***************************************************************************)
(* The inductive invariant                                                 *)
(***************************************************************************)
\* With crmJobs and the queue in step, createEnquiry's effect on the system is one
\* of CrmSync's arrivals, or none.
LEMMA ArrivalStep ==
  ASSUME IInv, Sync!TypeOK, Linked, IntakeStep(Next)
  PROVE  [Crm!Next]_Crm!vars /\ Linked'
<1>1. /\ job \in [Ids -> Sync!Job]
      /\ \A i \in Ids : job[i].state = "none" <=> crmJobs[i] = 0
      /\ crmJobs \in [Ids -> Nat]
  BY DEF Sync!TypeOK, Linked, IInv, TypeOK
<1>2. job' = [i \in Ids |-> IF crmJobs'[i] > crmJobs[i]
                            THEN [job[i] EXCEPT !.state = "waiting"] ELSE job[i]]
  BY DEF IntakeStep, Queued
<1>3. UNCHANGED unqueuedVars
  BY DEF IntakeStep
<1>4. CASE Undisturbed
  <2>1. UNCHANGED <<Committed, crmJobs>>
    BY <1>4 DEF Undisturbed, Committed
  <2>2. job' = job
    BY <1>1, <1>2, <2>1
  <2>3. UNCHANGED Crm!vars
    BY <1>3, <2>1, <2>2 DEF unqueuedVars, Crm!vars, Crm!queueVars, Crm!workerVars, Crm!callVars
  <2> QED BY <1>1, <2>1, <2>2, <2>3 DEF Linked
<1>5. ASSUME NEW i \in Ids, Commits(i)
      PROVE  Crm!Commit(i) /\ Linked'
  <2>1. job' = job
    BY <1>1, <1>2, <1>5 DEF Commits
  <2>2. Crm!Commit(i)
    BY <1>3, <1>5, <2>1
    DEF Commits, unqueuedVars, Crm!Commit, Crm!queueVars, Crm!workerVars, Crm!callVars
  <2> QED BY <1>1, <1>5, <2>1, <2>2 DEF Linked, Commits
<1>6. ASSUME NEW i \in Ids, Enqueues(i)
      PROVE  Crm!AddJob(i) /\ Linked'
  <2>1. /\ crmJobs[i] = 0 /\ crmJobs'[i] = 1
        /\ \A d \in Ids : d # i => crmJobs'[d] = crmJobs[d]
    BY <1>1, <1>6 DEF Enqueues
  <2>2. job' = [job EXCEPT ![i].state = "waiting"]
    <3>1. \A d \in Ids : crmJobs'[d] > crmJobs[d] <=> d = i
      BY <1>1, <2>1
    <3>2. job' = [d \in Ids |-> IF d = i THEN [job[d] EXCEPT !.state = "waiting"] ELSE job[d]]
      BY <1>2, <3>1
    <3> QED BY <1>1, <3>2
  <2>3. i \in Committed /\ UNCHANGED Committed
    BY <1>6 DEF Enqueues, Committed
  <2>4. Crm!AddJob(i)
    BY <1>1, <1>3, <2>1, <2>2, <2>3 DEF unqueuedVars, Crm!AddJob, Crm!workerVars, Crm!callVars
  <2>5. Linked'
    BY <1>1, <2>1, <2>2 DEF Linked, Sync!Job
  <2> QED BY <2>4, <2>5
<1>7. CASE Undisturbed \/ \E i \in Ids : Commits(i) \/ Enqueues(i)
  BY <1>4, <1>5, <1>6, <1>7 DEF Crm!Next, Crm!Arrive
<1>8. Next
  BY DEF IntakeStep
<1> QED BY <1>7, <1>8, IntakeEffect

\* What the workers and the webhook do leaves createEnquiry's side alone.
LEMMA WorkStep ==
  ASSUME Sync!TypeOK, Linked, SyncStep(Crm!Work)
  PROVE  UNCHANGED vars /\ Crm!Next /\ Linked'
<1>1. UNCHANGED vars /\ Crm!Work
  BY DEF SyncStep
<1>2. UNCHANGED crmJobs
  BY <1>1 DEF vars, jobVars
<1>3. \A i \in Ids : job'[i].state = "none" <=> job[i].state = "none"
  BY <1>1, SameWork, SyncJobsStay
<1> QED BY <1>1, <1>2, <1>3 DEF Linked, Crm!Next

\* Every step of the system is one of EnquiryIntake or none, and one of CrmSync
\* or none.
LEMMA SystemStep ==
  ASSUME SystemInv, [SystemNext]_systemVars
  PROVE  [Next]_vars /\ [Crm!Next]_Crm!vars /\ Linked'
<1>1. Sync!TypeOK
  BY DEF SystemInv, Sync!IInv
<1>2. CASE IntakeStep(Next)
  BY <1>1, <1>2, ArrivalStep DEF SystemInv, IntakeStep
<1>3. CASE SyncStep(Crm!Work)
  BY <1>1, <1>3, WorkStep DEF SystemInv
<1>4. CASE UNCHANGED systemVars
  <2>1. UNCHANGED <<vars, rows, crmJobs, job, unqueuedVars>>
    BY <1>4 DEF systemVars, vars, dbVars, jobVars
  <2>2. UNCHANGED Committed
    BY <2>1 DEF Committed
  <2>3. UNCHANGED Crm!vars
    BY <2>1, <2>2 DEF unqueuedVars, Crm!vars, Crm!queueVars, Crm!workerVars, Crm!callVars
  <2>4. Linked'
    BY <2>1 DEF SystemInv, Linked
  <2> QED BY <2>1, <2>3, <2>4
<1> QED BY <1>2, <1>3, <1>4 DEF SystemNext

LEMMA SystemInitOK ==
  ASSUME SystemInit
  PROVE  Init /\ Crm!Init /\ SystemInv
<1>1. Init /\ Crm!Init
  BY DEF SystemInit
<1>2. IInv /\ Sync!IInv /\ Sync!AuditRefersToRows
  BY <1>1, InitStep, SameInit, SyncInit, SyncAuditInit
<1>3. Linked
  BY <1>1 DEF Linked, Init, Crm!Init
<1> QED BY <1>1, <1>2, <1>3 DEF SystemInv

LEMMA SystemNextOK ==
  ASSUME SystemInv, [SystemNext]_systemVars
  PROVE  SystemInv'
<1>1. [Next]_vars /\ [Crm!Next]_Crm!vars /\ Linked'
  BY SystemStep
<1>2. IInv'
  BY <1>1, NextStep DEF SystemInv
<1>3. [Sync!Next]_Sync!vars
  BY <1>1, SameStep
<1>4. Sync!IInv' /\ Sync!AuditRefersToRows'
  BY <1>3, SyncNext, SyncAuditNext DEF SystemInv
<1> QED BY <1>1, <1>2, <1>4 DEF SystemInv

\* The invariants of both parts hold together, and the queue holds what was added.
THEOREM SystemInvariance == SystemSpec => []SystemInv
<1>1. SystemInit => SystemInv
  BY SystemInitOK
<1>2. SystemInv /\ [SystemNext]_systemVars => SystemInv'
  BY SystemNextOK
<1> QED BY <1>1, <1>2, PTL DEF SystemSpec

-----------------------------------------------------------------------------
(***************************************************************************)
(* What the system is                                                      *)
(***************************************************************************)
\* Seen from its clients the system is EnquiryIntake: whatever the workers do, all
\* that is proved of POST /api/enquiry alone holds.
THEOREM SystemIsIntake == SystemSpec => Spec
<1>1. SystemInit => Init
  BY SystemInitOK
<1>2. SystemInv /\ [SystemNext]_systemVars => [Next]_vars
  BY SystemStep
<1> QED BY <1>1, <1>2, SystemInvariance, PTL DEF SystemSpec, Spec

\* ... and so it implements the register of enquiries.
THEOREM SystemIsRegister == SystemSpec => ImplementsRegister
  BY SystemIsIntake, Implementation, PTL

\* Seen from the CRM the system is CrmSync: createEnquiry commits an enquiry once,
\* then adds its job once, and never touches what the workers and the webhook write.
THEOREM SystemIsSync == SystemSpec => ImplementsCrmSync
<1>1. SystemInit => Crm!Init
  BY SystemInitOK
<1>2. SystemInv /\ [SystemNext]_systemVars => [Crm!Next]_Crm!vars
  BY SystemStep
<1> QED BY <1>1, <1>2, SystemInvariance, PTL DEF SystemSpec, ImplementsCrmSync, Crm!Spec

\* Identical submissions, repeated requests, added-again jobs, retries, stalls and
\* late executions together give the CRM records of one enquiry with that content,
\* and no more of them than one job can make.
THEOREM ContentSyncedOnce == SystemSpec => []ContentIsSyncedOnce
<1>1. SystemSpec => []Sync!PushesAreBounded
  <2>1. SystemSpec => Sync!Spec
    <3>1. Crm!Init => Sync!Init
      BY SameInit
    <3>2. [Crm!Next]_Crm!vars => [Sync!Next]_Sync!vars
      BY SameStep
    <3> QED BY <3>1, <3>2, SystemIsSync, PTL DEF ImplementsCrmSync, Crm!Spec, Sync!Spec
  <2> QED BY <2>1, SyncConstants, Sync!PushesBounded, PTL
<1>2. ASSUME SystemInv, Sync!PushesAreBounded
      PROVE  ContentIsSyncedOnce
  <2>1. ASSUME NEW i \in Ids, pushes[i] > 0
        PROVE  i \in Committed
    <3>1. job[i].state # "none"
      BY <1>2, <2>1, SyncPushesFollowAdds DEF SystemInv
    <3>2. crmJobs[i] > 0
      BY <1>2, <3>1 DEF SystemInv, Linked, IInv, TypeOK
    <3> QED BY <1>2, <3>2 DEF SystemInv, IInv, TypeOK, JobsFollowCommits, Committed
  <2>2. ASSUME NEW e \in rows, NEW other \in rows, e.fingerprint = other.fingerprint
        PROVE  e = other
    BY <1>2, <2>2 DEF SystemInv, IInv, UniqueEnquiries
  <2>3. \A i \in Ids : pushes[i] <= Attempts + MaxStalled
    BY <1>2 DEF Sync!PushesAreBounded
  <2> QED BY <2>1, <2>2, <2>3 DEF ContentIsSyncedOnce
<1> QED BY <1>1, <1>2, SystemInvariance, PTL

\* A 201, fresh or replayed, is kept by all the parts behind it.
THEOREM AcknowledgedTracked == SystemSpec => []AcknowledgedIsTracked
<1>1. ASSUME SystemInv
      PROVE  AcknowledgedIsTracked
  <2> SUFFICES ASSUME NEW r \in Requests, Answered(r), outcome[r].kind = "created",
                      NEW i, i = outcome[r].id
               PROVE  /\ i \in Committed
                      /\ job[i].state # "none"
                      /\ job[i].state = "completed" => link[i].record # NoRecord
    BY DEF AcknowledgedIsTracked
  <2>1. Sound(outcome[r])
    BY <1>1 DEF SystemInv, IInv, AnswersAreSound, Answered
  <2>2. /\ [id |-> i, fingerprint |-> outcome[r].about] \in rows
        /\ crmJobs[i] > 0
    BY <2>1 DEF Sound, Register!Truthful
  <2>3. i \in Committed
    BY <2>2 DEF Committed
  <2>4. i \in Ids
    BY <1>1, <2>2, RowFields DEF SystemInv, IInv, TypeOK
  <2>5. job[i].state # "none"
    BY <1>1, <2>2, <2>4 DEF SystemInv, Linked
  <2>6. job[i].state = "completed" => link[i].record # NoRecord
    BY <1>1, <2>4 DEF SystemInv, Sync!IInv, Sync!CompletedIsSynced
  <2> QED BY <2>3, <2>5, <2>6
<1> QED BY <1>1, SystemInvariance, PTL

-----------------------------------------------------------------------------
(***************************************************************************)
(* The table as listEnquiries sees it                                      *)
(***************************************************************************)
TableUndisturbed == UNCHANGED <<rows, Open, lastId>>

UsesUpId ==
  /\ lastId < MaxId
  /\ lastId' = lastId + 1
  /\ Open' \in {Open, Open \cup {lastId + 1}}
  /\ UNCHANGED rows

Ends(i) ==
  /\ i \in Open
  /\ i \notin Committed
  /\ Open' = Open \ {i}
  /\ Committed' = Committed \cup {i}
  /\ UNCHANGED lastId

LosesRows ==
  /\ \E lost \in SUBSET Open : Open' = Open \ lost
  /\ UNCHANGED <<rows, lastId>>

\* Uncommitted rows have ids of their own, so the rest stay open.
LEMMA RowsDropped ==
  ASSUME IInv, NEW gone \in SUBSET Requests,
         row' = [q \in Requests |-> IF q \in gone THEN NoRow ELSE row[q]],
         UNCHANGED <<rows, lastId>>
  PROVE  LosesRows
<1> DEFINE lost == {row[q].id : q \in {p \in gone : Uncommitted(p)}}
<1>1. lost \subseteq Open
  BY DEF Open
<1>2. \A q \in Requests : Uncommitted(q)' <=> q \notin gone /\ Uncommitted(q)
  BY DEF Uncommitted
<1>3. \A p, q \in Requests : Uncommitted(p) /\ Uncommitted(q) /\ row[p].id = row[q].id => p = q
  BY DEF IInv, TransactionsAreSound
<1>4. Open' = {row[q].id : q \in {p \in Requests : p \notin gone /\ Uncommitted(p)}}
  BY <1>2 DEF Open
<1>5. Open' = Open \ lost
  <2>1. ASSUME NEW i \in Open'
        PROVE  i \in Open \ lost
    BY <1>3, <1>4, <2>1 DEF Open
  <2>2. ASSUME NEW i \in Open \ lost
        PROVE  i \in Open'
    BY <1>4, <2>2 DEF Open
  <2> QED BY <2>1, <2>2
<1> QED BY <1>1, <1>5 DEF LosesRows

LEMMA InsertTable ==
  ASSUME IInv, NEW r \in Requests, Insert(r)
  PROVE  UsesUpId
<1>1. lastId < MaxId /\ lastId' = lastId + 1 /\ UNCHANGED rows
  BY DEF Insert
<1>2. CASE UNCHANGED row
  BY <1>1, <1>2 DEF UsesUpId, Open, Uncommitted
<1>3. CASE row' = [row EXCEPT ![r] = [id |-> lastId + 1, fingerprint |-> FingerprintOf(r)]]
  <2>1. ~ Uncommitted(r)
    BY DEF Insert, Goto, IInv, TransactionsAreSound
  <2>2. row'[r].id = lastId + 1 /\ \A q \in Requests \ {r} : row'[q] = row[q]
    BY <1>3 DEF IInv, TypeOK
  <2>3. Uncommitted(r)'
    <3>1. /\ row'[r] \in Row
          /\ \A e \in rows : e.id <= lastId /\ lastId \in Nat
      BY <1>3, <2>2, NextId, RowType, FingerprintType, <1>1
      DEF IInv, TypeOK, TransactionsAreSound, Insert, Goto
    <3>2. row'[r] \notin rows
      BY <2>2, <3>1
    <3> QED BY <1>1, <3>1, <3>2, NoRowAssumption DEF Uncommitted
  <2>4. \A q \in Requests \ {r} : Uncommitted(q)' <=> Uncommitted(q)
    BY <1>1, <2>2 DEF Uncommitted
  <2>5. Open' = Open \cup {lastId + 1}
    BY <2>1, <2>2, <2>3, <2>4 DEF Open
  <2> QED BY <1>1, <2>5 DEF UsesUpId
<1> QED BY <1>2, <1>3 DEF Insert

LEMMA CommitTable ==
  ASSUME IInv, NEW r \in Requests, Commit(r) \/ CommitReplyLost(r)
  PROVE  \E i \in Ids : Ends(i)
<1>1. /\ Uncommitted(r)
      /\ rows' = rows \cup {row[r]}
      /\ UNCHANGED <<row, lastId>>
  BY DEF Commit, CommitReplyLost, Goto, IInv, TransactionsAreSound
<1>2. row[r].id \in Ids /\ row[r].id \in Open
  BY <1>1, RowFields DEF IInv, TypeOK, Uncommitted, Open
<1>3. row[r].id \notin Committed
  BY <1>1 DEF Committed, IInv, TransactionsAreSound
<1>4. Committed' = Committed \cup {row[r].id}
  BY <1>1 DEF Committed
<1>5. /\ ~ Uncommitted(r)'
      /\ \A q \in Requests \ {r} : Uncommitted(q)' <=> Uncommitted(q)
  BY <1>1 DEF Uncommitted, IInv, TransactionsAreSound
<1>6. \A q \in Requests \ {r} : Uncommitted(q) => row[q].id # row[r].id
  BY <1>1 DEF IInv, TransactionsAreSound
<1>7. Open' = Open \ {row[r].id}
  BY <1>1, <1>5, <1>6 DEF Open
<1> QED BY <1>1, <1>2, <1>3, <1>4, <1>7 DEF Ends

\* A step of the intake uses up an id, ends a transaction or more, or does neither.
LEMMA IntakeTable ==
  ASSUME IInv, Next
  PROVE  TableUndisturbed \/ UsesUpId \/ LosesRows \/ \E i \in Ids : Ends(i)
<1>1. CASE UNCHANGED <<rows, row, lastId>>
  BY <1>1 DEF TableUndisturbed, Open, Uncommitted
<1>2. ASSUME NEW r \in Requests, Rollback(r)
      PROVE  LosesRows
  <2>1. row' = [q \in Requests |-> IF q \in {r} THEN NoRow ELSE row[q]]
    BY <1>2 DEF Rollback, IInv, TypeOK
  <2> QED BY <1>2, <2>1, RowsDropped DEF Rollback
<1>3. ASSUME NEW i \in Instances, Crash(i)
      PROVE  LosesRows
  BY <1>3, RowsDropped DEF Crash
<1>4. ASSUME NEW r \in Requests,
             \/ Send(r) \/ Throttle(r) \/ CacheAnswer(r) \/ Claiming(r) \/ Lookup(r) \/ Validate(r)
             \/ Begin(r) \/ CheckProperty(r) \/ EnqueueCrm(r) \/ EnqueueEmail(r) \/ Respond(r)
      PROVE  UNCHANGED <<rows, row, lastId>>
  BY <1>4 DEF dbVars, Send, Throttle, CacheAnswer, Claiming, Lookup, Validate, Begin,
              CheckProperty, EnqueueCrm, EnqueueEmail, Respond
<1>5. ASSUME NEW r \in Requests,
             \/ ConnectFails(r) \/ QueryFails(r) \/ ClaimResent(r) \/ StoreUnavailable(r)
             \/ EnqueueResent(r) \/ EnqueueFails(r) \/ CacheLost(r)
      PROVE  UNCHANGED <<rows, row, lastId>>
  BY <1>5 DEF dbVars, ConnectFails, QueryFails, ClaimResent, StoreUnavailable, EnqueueResent,
              EnqueueFails, CacheLost
<1>6. ASSUME NEW k, Expire(k) \/ SetPublication(k)
      PROVE  UNCHANGED <<rows, row, lastId>>
  BY <1>6 DEF dbVars, Expire, SetPublication
<1>7. ASSUME NEW r \in Requests,
             Send(r) \/ Throttle(r) \/ Progress(r) \/ CacheAnswer(r) \/ DatabaseFailure(r) \/ RedisFailure(r)
      PROVE  \/ UNCHANGED <<rows, row, lastId>>
             \/ UsesUpId \/ LosesRows \/ \E i \in Ids : Ends(i)
  BY <1>2, <1>4, <1>5, <1>7, InsertTable, CommitTable DEF Progress, DatabaseFailure, RedisFailure
<1> QED BY <1>1, <1>3, <1>6, <1>7 DEF Next

\* createEnquiry's steps move no status; the row that a COMMIT shows is "new".
LEMMA ArrivalTable ==
  ASSUME SystemInv, IntakeStep(Next)
  PROVE  [Table!TableNext]_Table!tableVars
<1>1. Next /\ UNCHANGED link
  BY DEF IntakeStep, unqueuedVars
<1>2. CASE UNCHANGED rows
  <2>1. UNCHANGED StatusOfRow
    BY <1>1, <1>2 DEF StatusOfRow, Committed
  <2>2. CASE TableUndisturbed
    BY <2>1, <2>2 DEF TableUndisturbed, Table!tableVars
  <2>3. CASE UsesUpId
    BY <2>1, <2>3 DEF UsesUpId, Table!TableNext, Table!Transaction, Table!Insert
  <2>4. CASE LosesRows
    <3>1. PICK lost \in SUBSET Open : Open' = Open \ lost
      BY <2>4 DEF LosesRows
    <3>2. CASE lost = {}
      BY <2>1, <2>4, <3>1, <3>2 DEF LosesRows, Table!tableVars
    <3>3. CASE lost # {}
      <4>1. Table!Rollback(lost)
        BY <2>1, <2>4, <3>1, <3>3 DEF LosesRows, Table!Rollback
      <4> QED BY <4>1 DEF Table!TableNext, Table!Transaction
    <3> QED BY <3>2, <3>3
  <2>5. ASSUME NEW i \in Ids, Ends(i)
        PROVE  FALSE
    BY <1>2, <2>5 DEF Ends, Committed
  <2> QED BY <1>1, <2>2, <2>3, <2>4, <2>5, IntakeTable DEF SystemInv
<1>3. ASSUME NEW i \in Ids, Ends(i)
      PROVE  Table!Commit(i)
  <2>1. link[i].status = "new"
    BY <1>3, SyncNewUntilThere DEF SystemInv, Ends
  <2>2. StatusOfRow' = [d \in Committed \cup {i} |-> link[d].status]
    BY <1>1, <1>3 DEF StatusOfRow, Ends
  <2>3. DOMAIN StatusOfRow = Committed /\ \A d \in Committed : StatusOfRow[d] = link[d].status
    BY DEF StatusOfRow
  <2>4. StatusOfRow' = [d \in DOMAIN StatusOfRow \cup {i} |-> IF d = i THEN "new" ELSE StatusOfRow[d]]
    BY <2>1, <2>2, <2>3
  <2> QED BY <1>3, <2>4 DEF Ends, Table!Commit
<1>4. ASSUME NEW i \in Ids, Ends(i)
      PROVE  Table!TableNext
  <2>1. i \in Open
    BY <1>4 DEF Ends
  <2> QED BY <1>3, <1>4, <2>1 DEF Table!TableNext, Table!Transaction
<1> QED BY <1>1, <1>2, <1>4, IntakeTable DEF SystemInv, TableUndisturbed, UsesUpId, LosesRows

\* The workers and the webhook touch no transaction, and move the status of one row
\* at a time.
LEMMA WorkTable ==
  ASSUME SystemInv, SyncStep(Crm!Work)
  PROVE  [Table!TableNext]_Table!tableVars
<1>1. UNCHANGED <<rows, row, lastId>> /\ Sync!Work
  BY SameWork DEF SyncStep, vars, dbVars
<1>2. UNCHANGED <<Open, Committed, lastId>>
  BY <1>1 DEF Open, Uncommitted, Committed
<1>3. Committed \subseteq Ids
  BY RowFields DEF SystemInv, IInv, TypeOK, Committed
<1>4. StatusOfRow' = [i \in Committed |-> link'[i].status]
  BY <1>2 DEF StatusOfRow
<1>5. CASE \A d \in Ids : link'[d].status = link[d].status
  <2>1. UNCHANGED StatusOfRow
    BY <1>3, <1>4, <1>5 DEF StatusOfRow
  <2> QED BY <1>2, <2>1 DEF Table!tableVars
<1>6. ASSUME NEW e \in Ids, NEW s \in Sync!Statuses,
             \A d \in Ids : link'[d].status = IF d = e THEN s ELSE link[d].status
      PROVE  [Table!TableNext]_Table!tableVars
  <2>1. CASE e \notin Committed
    <3>1. UNCHANGED StatusOfRow
      BY <1>3, <1>4, <1>6, <2>1 DEF StatusOfRow
    <3> QED BY <1>2, <3>1 DEF Table!tableVars
  <2>2. CASE e \in Committed
    <3>1. StatusOfRow' = [StatusOfRow EXCEPT ![e] = s]
      BY <1>3, <1>4, <1>6, <2>2 DEF StatusOfRow
    <3>2. e \in DOMAIN StatusOfRow
      BY <2>2 DEF StatusOfRow
    <3>3. Table!MarkCrmSynced(e, s)
      BY <1>2, <3>1, <3>2 DEF Table!MarkCrmSynced
    <3>4. s \in Crm!Statuses
      BY DEF Crm!Statuses, Sync!Statuses
    <3> QED BY <3>2, <3>3, <3>4 DEF Table!TableNext
  <2> QED BY <2>1, <2>2
<1>7. Sync!TypeOK /\ Sync!CallsAreOrdered
  BY DEF SystemInv, Sync!IInv
<1> QED BY <1>1, <1>5, <1>6, <1>7, SyncOneStatusMoves

\* The table is the one that listEnquiries is proved about, with the transactions of
\* createEnquiry and the webhook's updates as they really come about.
THEOREM SystemIsTable == SystemSpec => ImplementsTable
<1>1. SystemInit => Table!TableInit
  <2> SUFFICES ASSUME SystemInit
               PROVE  Table!TableInit
    OBVIOUS
  <2>1. rows = {} /\ lastId = 0 /\ row = [r \in Requests |-> NoRow]
    BY DEF SystemInit, Init
  <2>2. Committed = {} /\ Open = {}
    BY <2>1 DEF Committed, Open, Uncommitted
  <2>3. StatusOfRow = [e \in {} |-> "new"]
    BY <2>2 DEF StatusOfRow
  <2> QED BY <2>1, <2>2, <2>3 DEF Table!TableInit
<1>2. SystemInv /\ [SystemNext]_systemVars => [Table!TableNext]_Table!tableVars
  <2> SUFFICES ASSUME SystemInv, [SystemNext]_systemVars
               PROVE  [Table!TableNext]_Table!tableVars
    OBVIOUS
  <2>1. CASE UNCHANGED systemVars
    <3>1. UNCHANGED <<rows, row, lastId, link>>
      BY <2>1 DEF systemVars, vars, dbVars, unqueuedVars
    <3>2. UNCHANGED <<Open, StatusOfRow>>
      BY <3>1 DEF Open, Uncommitted, StatusOfRow, Committed
    <3> QED BY <3>1, <3>2 DEF Table!tableVars
  <2> QED BY <2>1, ArrivalTable, WorkTable DEF SystemNext
<1> QED BY <1>1, <1>2, SystemInvariance, PTL DEF SystemSpec, ImplementsTable, Table!TableSpec
=============================================================================
