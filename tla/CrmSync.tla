-------------------------------- MODULE CrmSync --------------------------------
(***************************************************************************)
(* What happens to an enquiry after it is committed: the sync-enquiry job  *)
(* that pushes it to the CRM and is retried, stalled or dead-lettered      *)
(* (crmSync.worker, queue.config, worker), and POST /api/webhook/crm, by   *)
(* which the CRM reports back (webhook.controller, crm.service).  Both     *)
(* write the same columns of the enquiry's row.                            *)
(*                                                                         *)
(* BullMQ, MySQL, Redis and the CRM are external: they are modelled from   *)
(* how the code uses them.                                                 *)
(***************************************************************************)
EXTENDS Naturals, FiniteSets

CONSTANTS Enquiries,       \* enquiry ids; one may be named before it exists
          Workers,         \* worker processes
          Concurrency,     \* jobs one process runs at a time
          Attempts,        \* defaultJobOptions.attempts
          MaxStalled,      \* BullMQ's maxStalledCount
          Calls,           \* requests to the webhook; a repeat is one of its own
          Bodies,          \* what a call can say
          CallRecords,     \* CRM record ids that calls report
          MaxStops,        \* bound on crashes and shutdowns of worker processes
          DatabaseMayFail, \* whether MySQL may refuse a query or lose its reply
          RedisMayFail,    \* whether the rate limiter may lose its store
          NoRecord,        \* crm_record_id IS NULL
          NoStatus,        \* a call without a status
          NoBody,          \* the call has not been sent
          NoSlot           \* nobody holds the job's lock

Statuses == {"new", "contacted", "converted", "closed"}

\* wellFormed: crmWebhookSchema accepts the body.  signed: X-CRM-Signature is
\* the HMAC of the body.  oversized: its JSON is longer than 60000 characters.
Body == [enquiry : Enquiries, record : CallRecords, status : Statuses \cup {NoStatus},
         wellFormed : BOOLEAN, signed : BOOLEAN, oversized : BOOLEAN]

Slots == Workers \X (1 .. Concurrency)
SlotsOf(w) == {w} \X (1 .. Concurrency)

\* crm_<enquiry>_<time>: every push makes a CRM record of its own.
PushRecords == Enquiries \X Nat
Records == CallRecords \cup PushRecords

ASSUME ConstantsAssumption ==
  /\ Bodies \subseteq Body
  /\ IsFiniteSet(Workers)
  /\ Concurrency \in Nat \ {0}
  /\ Attempts \in Nat \ {0}
  /\ MaxStalled \in Nat
  /\ MaxStops \in Nat
  /\ DatabaseMayFail \in BOOLEAN
  /\ RedisMayFail \in BOOLEAN
  /\ NoRecord \notin Records
  /\ NoSlot \notin Slots

\* A row of enquiries: crm_record_id and status.
Link == [record : Records \cup {NoRecord}, status : Statuses]

\* The job crm-sync-<enquiry> in Redis and who holds its lock.
JobStates == {"none", "waiting", "active", "delayed", "completed", "failed"}
Job == [state : JobStates, owner : Slots \cup {NoSlot}, attemptsMade : Nat, stalls : Nat]

\* What one of a process's slots does: nothing, or one execution of a job, which
\* has got a CRM record or not yet.
Idle == [at |-> "idle"]
Execution == [at : {"pushing", "marking", "completing", "failing"}, enquiry : Enquiries,
              record : Records \cup {NoRecord}]

Replies == {"none", "ok", "invalid", "unauthorized", "notFound", "rateLimited", "error"}

VARIABLES existing,     \* MySQL: the committed enquiries
          link,         \* MySQL: crm_record_id and status of each enquiry
          audit,        \* MySQL: crm_webhook_events, by call
          job,          \* Redis: the sync job of each enquiry
          deadLetters,  \* Redis: failed-job entries for each enquiry
          process,      \* whether each worker process runs
          slot,         \* what each slot does
          undelivered,  \* failed events on the way to each process's QueueEvents
          pushes,       \* records made in the CRM for each enquiry
          stops,        \* crashes and shutdowns so far
          at,           \* the await each call stands at
          body,         \* what each call says
          reply         \* how it was answered

workerVars == <<process, slot, undelivered, pushes, stops>>
queueVars == <<job, deadLetters>>
callVars == <<at, body, reply>>
vars == <<existing, link, audit, queueVars, workerVars, callVars>>

Init ==
  /\ existing = {}
  /\ link = [e \in Enquiries |-> [record |-> NoRecord, status |-> "new"]]
  /\ audit = [c \in Calls |-> "none"]
  /\ job = [e \in Enquiries |->
              [state |-> "none", owner |-> NoSlot, attemptsMade |-> 0, stalls |-> 0]]
  /\ deadLetters = [e \in Enquiries |-> 0]
  /\ process = [w \in Workers |-> "up"]
  /\ slot = [s \in Slots |-> Idle]
  /\ undelivered = [w \in Workers |-> {}]
  /\ pushes = [e \in Enquiries |-> 0]
  /\ stops = 0
  /\ at = [c \in Calls |-> "idle"]
  /\ body = [c \in Calls |-> NoBody]
  /\ reply = [c \in Calls |-> "none"]

\* createEnquiry commits the row ...
Commit(e) ==
  /\ e \notin existing
  /\ existing' = existing \cup {e}
  /\ UNCHANGED <<link, audit, queueVars, workerVars, callVars>>

\* ... and adds the job, unless it dies in between.
AddJob(e) ==
  /\ e \in existing
  /\ job[e].state = "none"
  /\ job' = [job EXCEPT ![e].state = "waiting"]
  /\ UNCHANGED <<existing, link, audit, deadLetters, workerVars, callVars>>
-----------------------------------------------------------------------------
(***************************************************************************)
(* markCrmSynced: the one UPDATE of both sides, last writer wins           *)
(***************************************************************************)
\* FAULT: an absent status is written all the same.
MarkCrmSyncedAsGiven(e, r, status) ==
  link' = [link EXCEPT ![e] = [record |-> r, status |-> status]]

MarkCrmSynced(e, r, status) ==
  link' = [link EXCEPT ![e].record = r,
                       ![e].status = IF status = NoStatus THEN @ ELSE status]
-----------------------------------------------------------------------------
(***************************************************************************)
(* The worker                                                              *)
(***************************************************************************)
Move(s, from, to) == slot[s].at = from /\ slot' = [slot EXCEPT ![s].at = to]
Leave(s, from) == slot[s].at = from /\ slot' = [slot EXCEPT ![s] = Idle]

\* A slot of a running process takes a waiting job and its lock.
Take(s, e) ==
  /\ process[s[1]] = "up"
  /\ slot[s] = Idle
  /\ job[e].state = "waiting"
  /\ slot' = [slot EXCEPT ![s] = [at |-> "pushing", enquiry |-> e, record |-> NoRecord]]
  /\ job' = [job EXCEPT ![e].state = "active", ![e].owner = s]
  /\ UNCHANGED <<existing, link, audit, deadLetters, process, undelivered, pushes, stops, callVars>>

\* pushEnquiryToCrm: the CRM answers with a new record ...
Push(s) ==
  LET e == slot[s].enquiry IN
  /\ slot[s].at = "pushing"
  /\ slot' = [slot EXCEPT ![s] = [@ EXCEPT !.at = "marking", !.record = <<e, pushes[e] + 1>>]]
  /\ pushes' = [pushes EXCEPT ![e] = @ + 1]
  /\ UNCHANGED <<existing, link, audit, queueVars, process, undelivered, stops, callVars>>

\* ... or times out.
PushFails(s) ==
  /\ Move(s, "pushing", "failing")
  /\ UNCHANGED <<existing, link, audit, queueVars, process, undelivered, pushes, stops, callVars>>

\* FAULT: markCrmSynced is not awaited and fails.
MarkNotAwaited(s) ==
  /\ Move(s, "marking", "completing")
  /\ UNCHANGED <<existing, link, audit, queueVars, process, undelivered, pushes, stops, callVars>>

\* The UPDATE, without a status.
Mark(s) ==
  /\ Move(s, "marking", "completing")
  /\ MarkCrmSynced(slot[s].enquiry, slot[s].record, NoStatus)
  /\ UNCHANGED <<existing, audit, queueVars, process, undelivered, pushes, stops, callVars>>

\* The UPDATE fails, with or without effect.
MarkFails(s) ==
  /\ DatabaseMayFail
  /\ Move(s, "marking", "failing")
  /\ UNCHANGED link \/ MarkCrmSynced(slot[s].enquiry, slot[s].record, NoStatus)
  /\ UNCHANGED <<existing, audit, queueVars, process, undelivered, pushes, stops, callVars>>

Owns(s) == job[slot[s].enquiry].state = "active" /\ job[slot[s].enquiry].owner = s

\* The execution returned; BullMQ ignores it if the lock was lost meanwhile.
Complete(s) ==
  /\ Leave(s, "completing")
  /\ job' = IF Owns(s)
            THEN [job EXCEPT ![slot[s].enquiry] = [@ EXCEPT !.state = "completed", !.owner = NoSlot]]
            ELSE job
  /\ UNCHANGED <<existing, link, audit, deadLetters, process, undelivered, pushes, stops, callVars>>

\* FAULT: the handler listens to the event of a retry.
RetryHeard(state) == state = "delayed"

\* attachDeadLetterHandler listens to the terminal failure.
GivenUp(state) == state = "failed"

\* A job's new state is announced to the processes that listen at that time:
\* QueueEvents read the stream from its end.
Announce(e, state) ==
  undelivered' = [w \in Workers |-> IF process[w] # "down" /\ GivenUp(state)
                                    THEN undelivered[w] \cup {e} ELSE undelivered[w]]

\* FAULT: a failed attempt is not counted.
AttemptNotCounted(e) == job[e].attemptsMade

AttemptsAfter(e) == job[e].attemptsMade + 1

\* The execution threw: retried after a backoff while attempts are left.
Fail(s) ==
  LET e == slot[s].enquiry
      next == IF AttemptsAfter(e) < Attempts THEN "delayed" ELSE "failed" IN
  /\ Leave(s, "failing")
  /\ \/ /\ Owns(s)
        /\ job' = [job EXCEPT ![e] = [@ EXCEPT !.state = next, !.owner = NoSlot,
                                               !.attemptsMade = AttemptsAfter(e)]]
        /\ Announce(e, next)
     \/ ~ Owns(s) /\ UNCHANGED <<job, undelivered>>
  /\ UNCHANGED <<existing, link, audit, deadLetters, process, pushes, stops, callVars>>

\* The backoff of a retry ends.
Promote(e) ==
  /\ job[e].state = "delayed"
  /\ \E w \in Workers : process[w] # "down"
  /\ job' = [job EXCEPT ![e].state = "waiting"]
  /\ UNCHANGED <<existing, link, audit, deadLetters, workerVars, callVars>>

ExecutionsOf(e) == {s \in Slots : slot[s] # Idle /\ slot[s].enquiry = e}

\* Nobody executes an active job any more.
Abandoned(e) == job[e].state = "active" /\ job[e].owner \notin ExecutionsOf(e)

\* The lock of an active job runs out, because its process died or was too slow
\* to renew it: some process puts the job back, MaxStalled times at most.
Stall(e) ==
  LET next == IF job[e].stalls < MaxStalled THEN "waiting" ELSE "failed" IN
  /\ job[e].state = "active"
  /\ \E w \in Workers : process[w] # "down"
  /\ job' = [job EXCEPT ![e].state = next, ![e].owner = NoSlot, ![e].stalls = @ + 1]
  /\ Announce(e, next)
  /\ UNCHANGED <<existing, link, audit, deadLetters, process, slot, pushes, stops, callVars>>

\* attachDeadLetterHandler: every listening process adds an entry of its own.
SendToDeadLetter(w, e) ==
  /\ process[w] # "down"
  /\ e \in undelivered[w]
  /\ undelivered' = [undelivered EXCEPT ![w] = @ \ {e}]
  /\ deadLetters' = [deadLetters EXCEPT ![e] = @ + 1]
  /\ UNCHANGED <<existing, link, audit, job, process, slot, pushes, stops, callVars>>

\* The process ends: its executions and the events it has not handled are gone.
\* A rejected sendToDeadLetter ends it too, by an unhandled rejection, and so does
\* PM2 with a process that takes longer to close than kill_timeout.
Crash(w) ==
  /\ stops < MaxStops
  /\ process[w] # "down"
  /\ stops' = stops + 1
  /\ process' = [process EXCEPT ![w] = "down"]
  /\ slot' = [s \in Slots |-> IF s \in SlotsOf(w) THEN Idle ELSE slot[s]]
  /\ undelivered' = [undelivered EXCEPT ![w] = {}]
  /\ UNCHANGED <<existing, link, audit, queueVars, pushes, callVars>>

\* SIGTERM: no new jobs, ...
Shutdown(w) ==
  /\ stops < MaxStops
  /\ process[w] = "up"
  /\ stops' = stops + 1
  /\ process' = [process EXCEPT ![w] = "closing"]
  /\ UNCHANGED <<existing, link, audit, queueVars, slot, undelivered, pushes, callVars>>

\* FAULT: no process.exit, and the open QueueEvents keep the process alive.
ExitForgotten(w) == FALSE /\ process[w] = "closing" /\ UNCHANGED vars

\* FAULT: process.exit does not await the workers' close().
ExitAtOnce(w) ==
  /\ process[w] = "closing"
  /\ process' = [process EXCEPT ![w] = "down"]
  /\ slot' = [s \in Slots |-> IF s \in SlotsOf(w) THEN Idle ELSE slot[s]]
  /\ undelivered' = [undelivered EXCEPT ![w] = {}]
  /\ UNCHANGED <<existing, link, audit, queueVars, pushes, stops, callVars>>

\* ... and process.exit once the running ones have ended, whatever events wait.
Exit(w) ==
  /\ process[w] = "closing"
  /\ \A s \in SlotsOf(w) : slot[s] = Idle
  /\ process' = [process EXCEPT ![w] = "down"]
  /\ undelivered' = [undelivered EXCEPT ![w] = {}]
  /\ UNCHANGED <<existing, link, audit, queueVars, slot, pushes, stops, callVars>>

\* PM2 starts the process again.
Restart(w) ==
  /\ process[w] = "down"
  /\ process' = [process EXCEPT ![w] = "up"]
  /\ UNCHANGED <<existing, link, audit, queueVars, slot, undelivered, pushes, stops, callVars>>
-----------------------------------------------------------------------------
(***************************************************************************)
(* POST /api/webhook/crm                                                   *)
(***************************************************************************)
Step(c, from, to) == at[c] = from /\ at' = [at EXCEPT ![c] = to]
Answer(c, kind) == reply' = [reply EXCEPT ![c] = kind]

Receive(c) ==
  /\ Step(c, "idle", "arrived")
  /\ \E b \in Bodies : body' = [body EXCEPT ![c] = b]
  /\ UNCHANGED <<existing, link, audit, queueVars, workerVars, reply>>

\* webhookRateLimiter, or validate(crmWebhookSchema): before the handler runs.
Refuse(c) ==
  /\ Step(c, "arrived", "done")
  /\ \/ Answer(c, "rateLimited")
     \/ RedisMayFail /\ Answer(c, "error")
     \/ ~ body[c].wellFormed /\ Answer(c, "invalid")
  /\ UNCHANGED <<existing, link, audit, queueVars, workerVars, body>>

\* crm_webhook_events refers to enquiries, and a payload cut at 60000 characters
\* is no JSON any more: both make logWebhookEvent's INSERT fail.
Recordable(c) == body[c].enquiry \in existing /\ ~ body[c].oversized

\* FAULT: a wrong signature is let through.
SignatureIgnored(c) == TRUE

\* verifyWebhookSignature
SignatureValid(c) == body[c].signed

\* FAULT: a call that cannot be logged is processed all the same.
LogFailureIgnored(c) ==
  /\ body[c] # NoBody
  /\ body[c].wellFormed
  /\ SignatureValid(c)
  /\ Step(c, "arrived", "select")
  /\ audit' \in {audit, [audit EXCEPT ![c] = "received"]}
  /\ UNCHANGED <<existing, link, queueVars, workerVars, body, reply>>

\* logWebhookEvent, awaited before anything is decided.
LogWebhookEvent(c) ==
  /\ body[c] # NoBody
  /\ body[c].wellFormed
  /\ \/ /\ Recordable(c) /\ SignatureValid(c)
        /\ Step(c, "arrived", "select")
        /\ audit' = [audit EXCEPT ![c] = "received"]
        /\ UNCHANGED reply
     \/ /\ Recordable(c) /\ ~ SignatureValid(c)
        /\ Step(c, "arrived", "done")
        /\ audit' = [audit EXCEPT ![c] = "rejected"]
        /\ Answer(c, "unauthorized")
     \/ /\ ~ Recordable(c)
        /\ Step(c, "arrived", "done")
        /\ UNCHANGED audit
        /\ Answer(c, "error")
  /\ UNCHANGED <<existing, link, queueVars, workerVars, body>>

\* processCrmWebhook looks the enquiry up ...
FindEnquiry(c) ==
  LET found == body[c].enquiry \in existing IN
  /\ Step(c, "select", IF found THEN "update" ELSE "done")
  /\ Answer(c, IF found THEN reply[c] ELSE "notFound")
  /\ UNCHANGED <<existing, link, audit, queueVars, workerVars, body>>

\* ... and updates it.
Apply(c) ==
  /\ Step(c, "update", "done")
  /\ MarkCrmSynced(body[c].enquiry, body[c].record, body[c].status)
  /\ Answer(c, "ok")
  /\ UNCHANGED <<existing, audit, queueVars, workerVars, body>>

\* A query of the handler fails, with or without effect: a 500.
QueryFails(c) ==
  /\ DatabaseMayFail
  /\ \/ /\ Step(c, "arrived", "done")
        /\ body[c].wellFormed
        /\ audit' \in {audit, [audit EXCEPT ![c] = IF ~ Recordable(c) THEN @ ELSE
                                 IF SignatureValid(c) THEN "received" ELSE "rejected"]}
        /\ UNCHANGED link
     \/ /\ Step(c, "select", "done")
        /\ UNCHANGED <<audit, link>>
     \/ /\ Step(c, "update", "done")
        /\ UNCHANGED link \/ MarkCrmSynced(body[c].enquiry, body[c].record, body[c].status)
        /\ UNCHANGED audit
  /\ Answer(c, "error")
  /\ UNCHANGED <<existing, queueVars, workerVars, body>>

\* The API process that serves the call dies.
Drop(c) ==
  /\ at[c] \in {"arrived", "select", "update"}
  /\ at' = [at EXCEPT ![c] = "dropped"]
  /\ UNCHANGED <<existing, link, audit, queueVars, workerVars, body, reply>>
-----------------------------------------------------------------------------
Execute(s) ==
  Push(s) \/ PushFails(s) \/ Mark(s) \/ MarkFails(s) \/ Complete(s) \/ Fail(s)

Handling(c) == LogWebhookEvent(c) \/ FindEnquiry(c) \/ Apply(c)

\* What createEnquiry does to an enquiry ...
Arrive(e) == Commit(e) \/ AddJob(e)

\* ... and what happens to it afterwards.
Work ==
  \/ \E e \in Enquiries : Promote(e) \/ Stall(e)
  \/ \E s \in Slots : Execute(s) \/ \E e \in Enquiries : Take(s, e)
  \/ \E w \in Workers :
       \/ Crash(w) \/ Shutdown(w) \/ Exit(w) \/ Restart(w)
       \/ \E e \in Enquiries : SendToDeadLetter(w, e)
  \/ \E c \in Calls : Receive(c) \/ Refuse(c) \/ Handling(c) \/ QueryFails(c) \/ Drop(c)

Next == (\E e \in Enquiries : Arrive(e)) \/ Work

Spec == Init /\ [][Next]_vars

\* PM2 restarts what ends, a process that runs works on, BullMQ's timers fire;
\* new enquiries, calls, crashes and deployments are under no obligation.
Fairness ==
  /\ \A e \in Enquiries :
       /\ WF_vars(\E s \in Slots : Take(s, e))
       /\ WF_vars(Promote(e))
       /\ WF_vars(Abandoned(e) /\ Stall(e))
  /\ \A s \in Slots : WF_vars(Execute(s))
  /\ \A w \in Workers :
       /\ WF_vars(Exit(w))
       /\ WF_vars(Restart(w))
       /\ \A e \in Enquiries : WF_vars(SendToDeadLetter(w, e))
  /\ \A c \in Calls : WF_vars(Handling(c))

FairSpec == Spec /\ Fairness
=============================================================================
