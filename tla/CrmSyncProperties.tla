--------------------------- MODULE CrmSyncProperties ---------------------------
(***************************************************************************)
(* What the synchronisation with the CRM must never do, and what it must   *)
(* eventually do.                                                          *)
(***************************************************************************)
EXTENDS CrmSync

\* Every variable keeps its type; a job is held by a slot exactly while it is active.
TypeOK ==
  /\ existing \subseteq Enquiries
  /\ link \in [Enquiries -> Link]
  /\ audit \in [Calls -> {"none", "received", "rejected"}]
  /\ job \in [Enquiries -> Job]
  /\ \A e \in Enquiries : job[e].state = "active" <=> job[e].owner \in Slots
  /\ deadLetters \in [Enquiries -> Nat]
  /\ process \in [Workers -> {"up", "closing", "down"}]
  /\ slot \in [Slots -> Execution \cup {Idle}]
  /\ \A s \in Slots : slot[s] # Idle => process[s[1]] # "down"
  /\ undelivered \in [Workers -> SUBSET Enquiries]
  /\ pushes \in [Enquiries -> Nat]
  /\ stops \in Nat
  /\ at \in [Calls -> {"idle", "arrived", "select", "update", "done", "dropped"}]
  /\ body \in [Calls -> Body \cup {NoBody}]
  /\ reply \in [Calls -> Replies]

\* A call the audit log holds as authentic, for this enquiry.
Vouched(c, e) == audit[c] = "received" /\ body[c].signed /\ body[c].enquiry = e

\* crmWebhookHandler logs before it trusts: what an enquiry says about the CRM
\* comes from a push of that enquiry or from a signed call about it that is in
\* crm_webhook_events, and its status from such a call only.  The worker's
\* UPDATE, late or repeated, never moves the status.
LinksAreVouchedFor ==
  \A e \in Enquiries :
    /\ link[e].record # NoRecord =>
         \/ link[e].record \in {e} \X (1 .. pushes[e])
         \/ \E c \in Calls : Vouched(c, e) /\ body[c].record = link[e].record
    /\ link[e].status # "new" =>
         \E c \in Calls : Vouched(c, e) /\ body[c].status = link[e].status

\* What the CRM is told and what the audit log holds tell the same story: 200 and
\* 404 are for calls logged as received, 401 is for calls logged as rejected, and
\* a call logged as rejected is never told anything else but an error.
AnswersMatchAudit ==
  \A c \in Calls :
    /\ reply[c] \in {"ok", "notFound"} => audit[c] = "received"
    /\ reply[c] = "unauthorized" => audit[c] = "rejected"
    /\ audit[c] = "rejected" => reply[c] \in {"none", "unauthorized", "error"}

\* The processor awaits markCrmSynced: a sync job that BullMQ counts as completed
\* has left a CRM record in its enquiry's row, whoever writes after it.
CompletedIsSynced ==
  \A e \in Enquiries : job[e].state = "completed" => link[e].record # NoRecord

\* attachDeadLetterHandler listens to the terminal failure only: no entry for a
\* job that is still to be retried, or succeeds later, and from each process at
\* most one.
DeadLettersAreFinal ==
  \A e \in Enquiries :
    deadLetters[e] > 0 => job[e].state = "failed" /\ deadLetters[e] <= Cardinality(Workers)

\* One job makes at most Attempts + MaxStalled records in the CRM, whatever
\* retries, stalls and late executions come together.
PushesAreBounded == \A e \in Enquiries : pushes[e] <= Attempts + MaxStalled

\* The shutdown of worker.ts awaits the workers' close(): unless a process crashes,
\* an execution that holds its job's lock goes on until it has ended the job, retried
\* it or lost the lock to a stall.  A deployment leaves no job to a lock that must run
\* out first, which costs a stall and perhaps another record in the CRM.
ShutdownAbandonsNoJob ==
  [][\A e \in Enquiries :
       Abandoned(e)' => Abandoned(e) \/ \E w \in Workers : Crash(w)]_vars

\* An attempt that fails is retried and a job whose process is lost is taken over
\* until it is done or given up: no job stays in the queue for ever.
EveryJobEnds ==
  \A e \in Enquiries :
    job[e].state = "waiting" ~> job[e].state \in {"completed", "failed"}

\* A job that is given up reaches the dead-letter queue, unless a worker process
\* ends at some time.
FailedIsDeadLettered ==
  \A e \in Enquiries : job[e].state = "failed" ~> deadLetters[e] > 0 \/ stops > 0
-----------------------------------------------------------------------------
(***************************************************************************)
(* What the documentation says and the code does not do                    *)
(***************************************************************************)
\* THREAT_SCENARIOS.md: "Every inbound call - valid or not - is persisted to
\* crm_webhook_events": at the least one that passed rate limit and validation
\* is in the log when it is answered.
EveryCallIsAudited ==
  \A c \in Calls :
    at[c] = "done" /\ body[c].wellFormed /\ reply[c] # "rateLimited" => audit[c] # "none"

\* queue.config.ts: "jobs that exhausted all retry attempts land here for manual
\* review/replay" - worker processes that stop and come back notwithstanding.
ExhaustedIsDeadLettered ==
  \A e \in Enquiries : job[e].attemptsMade = Attempts ~> deadLetters[e] > 0
=============================================================================
