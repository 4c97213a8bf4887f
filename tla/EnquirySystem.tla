----------------------------- MODULE EnquirySystem -----------------------------
(***************************************************************************)
(* An enquiry from POST /api/enquiry to the CRM: EnquiryIntake and CrmSync *)
(* over one enquiries table and one queue.  The table is the rows that     *)
(* EnquiryIntake commits; the jobs are those it adds, and for the columns  *)
(* that CrmSync writes nobody else cares.                                  *)
(*                                                                         *)
(* createEnquiry's steps are EnquiryIntake's, with their effect on the     *)
(* queue; the workers' and the webhook's are CrmSync's.                    *)
(***************************************************************************)
EXTENDS EnquiryIntakeProperties

CONSTANTS Workers, Concurrency, Attempts, MaxStalled, Calls, Bodies, CallRecords,
          MaxStops, DatabaseMayFail, NoRecord, NoStatus, NoBody, NoSlot

VARIABLES link, audit, job, deadLetters, process, slot, undelivered, pushes, stops,
          at, body, reply

\* The enquiries a query outside their own transaction finds.
Committed == {e.id : e \in rows}

Crm == INSTANCE CrmSync WITH Enquiries <- Ids, existing <- Committed

\* What CrmSync assumes of its constants.
ASSUME SyncAssumption ==
  /\ Bodies \subseteq Crm!Body
  /\ IsFiniteSet(Workers)
  /\ Concurrency \in Nat \ {0}
  /\ Attempts \in Nat \ {0}
  /\ MaxStalled \in Nat
  /\ MaxStops \in Nat
  /\ DatabaseMayFail \in BOOLEAN
  /\ NoRecord \notin Crm!Records
  /\ NoSlot \notin Crm!Slots

unqueuedVars ==
  <<link, audit, deadLetters, process, slot, undelivered, pushes, stops, at, body, reply>>
systemVars == <<vars, job, unqueuedVars>>

SystemInit == Init /\ Crm!Init

\* enqueueCrmSync's add puts the job in the queue.
Queued(i) == IF crmJobs'[i] > crmJobs[i] THEN [job[i] EXCEPT !.state = "waiting"] ELSE job[i]

IntakeStep(step) ==
  /\ step
  /\ job' = [i \in Ids |-> Queued(i)]
  /\ UNCHANGED unqueuedVars

SyncStep(step) == UNCHANGED vars /\ step

SystemNext == IntakeStep(Next) \/ SyncStep(Crm!Work)

SystemSpec == SystemInit /\ [][SystemNext]_systemVars

\* As EnquiryIntake's: a live instance keeps running its event loop.
SystemFairness == \A r \in Requests : WF_systemVars(IntakeStep(Progress(r)))

FairSystem == SystemSpec /\ SystemFairness

-----------------------------------------------------------------------------
(* Properties *)

\* What CrmSync takes for granted is what createEnquiry does: enquiries appear for
\* good, each at most once, and a job is added once, after its enquiry (COMMIT, then
\* enqueueCrmSync with its jobId); and nothing the workers do looks like an arrival.
ImplementsCrmSync == Crm!Spec

\* The table that listEnquiries reads page by page is this one: createEnquiry gives
\* out ids in order, whatever fails or dies its transactions end once, and of the
\* worker and the webhook only the latter moves the status of a row, a committed one.
Open == {row[r].id : r \in {q \in Requests : Uncommitted(q)}}
StatusOfRow == [i \in Committed |-> link[i].status]

Table == INSTANCE EnquiryTable
           WITH Statuses <- Crm!Statuses, open <- Open, status <- StatusOfRow

ImplementsTable == Table!TableSpec

\* However often a client sends an enquiry, with whatever keys, and whatever fails,
\* restarts or is sent again on the way: the CRM gets records for one enquiry with
\* this content, no more than one job can make, and none for an enquiry that was
\* rolled back.
ContentIsSyncedOnce ==
  /\ \A i \in Ids : pushes[i] > 0 => i \in Committed
  /\ \A e, other \in rows :
       e.fingerprint = other.fingerprint /\ pushes[e.id] > 0 /\ pushes[other.id] > 0 =>
         e = other
  /\ \A i \in Ids : pushes[i] <= Attempts + MaxStalled

\* A 201, fresh or replayed, holds all the way: the enquiry it names is in the
\* database and its job in the queue, and once the job is completed the row has a
\* record of the CRM.
AcknowledgedIsTracked ==
  \A r \in Requests :
    Answered(r) /\ outcome[r].kind = "created" =>
      LET i == outcome[r].id IN
      /\ i \in Committed
      /\ job[i].state # "none"
      /\ job[i].state = "completed" => link[i].record # NoRecord
=============================================================================
