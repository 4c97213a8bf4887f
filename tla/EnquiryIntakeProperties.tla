------------------------ MODULE EnquiryIntakeProperties ------------------------
(***************************************************************************)
(* What POST /api/enquiry must never do, what it must eventually do, and   *)
(* the register of enquiries it implements.                                *)
(***************************************************************************)
EXTENDS EnquiryIntake

Answered(r) == pc[r] = "done"

\* Every variable keeps its type.  In particular an answered request has a real
\* answer: idempotencyMiddleware never replays a marker without one.
TypeOK ==
  /\ pc \in [Requests -> Locations]
  /\ submission \in [Requests -> Submission \cup {NoSubmission}]
  /\ \A r \in Requests : pc[r] # "idle" => submission[r] \in Submission
  /\ outcome \in [Requests -> Answer \cup {NoAnswer}]
  /\ \A r \in Requests : pc[r] \in {"respond", "done"} => outcome[r] \in Answer
  /\ claimed \subseteq Requests
  /\ caching \subseteq Requests
  /\ store \in [Keys -> Marker]
  /\ crmJobs \in [Ids -> Nat]
  /\ emailJobs \in [Ids -> Nat]
  /\ published \subseteq PropertyIds
  /\ rows \subseteq Row
  /\ row \in [Requests -> Row \cup {NoRow}]
  /\ lastId \in Nat

\* withTransaction and the unique index on fingerprint: however the inserts of
\* identical submissions interleave across instances, at most one of them is
\* ever committed, and no two rows share an id.
UniqueEnquiries ==
  \A e, other \in rows :
    e.fingerprint = other.fingerprint \/ e.id = other.id => e = other

\* idempotencyMiddleware, SET NX: of the requests with one Idempotency-Key at
\* most one at a time is worked on or has its answer on the way to Redis, and
\* until that answer arrives the key is marked as processing.
OneClaimantPerKey ==
  \A r \in claimed \cup caching :
    /\ store[KeyOf(r)] = Processing
    /\ \A q \in claimed \cup caching : KeyOf(q) = KeyOf(r) => q = r

\* createEnquiry's answers, fresh or replayed: a 201 names a row that has been
\* committed with the content it answers for, and a 409 for duplicate content is
\* given only if a committed row carries that content, never because of a
\* transaction that may still be rolled back.
TruthfulAnswers ==
  \A r \in Requests :
    Answered(r) =>
      /\ outcome[r].kind = "created" =>
           [id |-> outcome[r].id, fingerprint |-> outcome[r].about] \in rows
      /\ outcome[r].kind = "duplicate" => Taken(outcome[r].about)

\* createEnquiry awaits both adds before it returns: an enquiry whose client was
\* told 201 is on its way to the CRM and to the confirmation email.
CreatedHasJobs ==
  \A r \in Requests :
    Answered(r) /\ outcome[r].kind = "created" =>
      crmJobs[outcome[r].id] > 0 /\ emailJobs[outcome[r].id] > 0

\* The jobs are added after COMMIT: no worker ever gets a job for an enquiry
\* that is not in the database.
JobsFollowCommits ==
  \A i \in Ids : crmJobs[i] + emailJobs[i] > 0 => \E e \in rows : e.id = i

\* enqueueCrmSync's jobId: an add that is sent again does not sync an enquiry twice.
OneSyncJobPerEnquiry == \A i \in Ids : crmJobs[i] <= 1

\* An answer is about the client's own submission or, when it carries a key,
\* about one sent under that key: a replay never crosses keys.
AnswerMatchesSubmission ==
  \A r \in Requests :
    Answered(r) =>
      \/ outcome[r].about = FingerprintOf(r)
      \/ /\ KeyOf(r) # NoKey
         /\ \E q \in Requests \ {r} :
              Answered(q) /\ KeyOf(q) = KeyOf(r) /\ outcome[r].about = FingerprintOf(q)

\* idempotencyMiddleware replays "the original response": what a request that
\* lost the claim is told is, status included, what the request that won it was
\* told before.
ReplayRepeatsAnswer ==
  [][\A r \in Requests :
       pc[r] = "lookup" /\ pc'[r] = "done" =>
         \E q \in Requests \ {r} :
           Answered(q) /\ KeyOf(q) = KeyOf(r) /\ outcome[q] = outcome'[r]]_vars

\* Every request that was accepted is settled: answered, dropped by a crash or lost
\* to the unhandled rejection in idempotencyMiddleware (which InFlightKeyRefused is
\* about).  withTransaction gives its connection back on every path and a wait for a
\* row lock ends, so that nobody waits for ever.
Settles ==
  \A r \in Requests : pc[r] = "arrived" ~> pc[r] \in {"done", "hung", "dropped"}

\* With every failure, crash and retry, the service implements the register:
\* enquiries appear once and for good, answers are given once and tell the truth.
Register == INSTANCE EnquiryRegister
              WITH registered <- rows,
                   answers <- [r \in Requests |-> IF Answered(r) THEN outcome[r] ELSE NoAnswer]

ImplementsRegister == Register!Spec
-----------------------------------------------------------------------------
(***************************************************************************)
(* The inductive invariant: why the safety properties hold                 *)
(***************************************************************************)
\* Between the claim and the response.
Working ==
  {"validate", "connect", "check", "insert", "inserted", "rollback", "enqueueCrm",
   "enqueueEmail", "respond"}

\* An answer that may be given now and repeated at any later time.
Sound(a) ==
  a \in Answer /\ Register!Truthful(a, rows) /\ (a.kind = "created" =>
    crmJobs[a.id] > 0 /\ emailJobs[a.id] > 0)

\* A decided answer is sound, and until it is sent it is about the request's own
\* submission; what a replay may repeat is the answer of another request.
AnswersAreSound ==
  \A r \in Requests :
    /\ pc[r] \in {"rollback", "respond", "done"} => Sound(outcome[r])
    /\ pc[r] \in {"rollback", "respond"} \/ r \in caching =>
         outcome[r].about = FingerprintOf(r)

\* A completed marker holds the answer somebody got for a submission under its key.
MarkersAreSound ==
  \A k \in Keys : store[k].state = "completed" =>
    \E q \in Requests :
      /\ Answered(q)
      /\ KeyOf(q) = k
      /\ outcome[q] = store[k].answer
      /\ outcome[q].about = FingerprintOf(q)

\* Only a request with a key looks for a marker, and only one between claim and
\* response holds a claim.
ClaimsAreHeld ==
  /\ \A r \in Requests : pc[r] = "lookup" => KeyOf(r) \in Keys
  /\ \A r \in claimed : pc[r] \in Working /\ KeyOf(r) \in Keys
  /\ \A r \in caching : Answered(r) /\ KeyOf(r) \in Keys

\* A row is open to doubt only while its transaction lasts, a row that is not
\* yet committed has its fingerprint and its id to itself, and the jobs are
\* added only for committed rows.
TransactionsAreSound ==
  /\ \A r \in Requests :
       /\ row[r] # NoRow => pc[r] # "idle" /\ row[r].fingerprint = FingerprintOf(r)
       /\ pc[r] = "inserted" => Uncommitted(r)
       /\ pc[r] \in {"enqueueCrm", "enqueueEmail"} => row[r] \in rows
       /\ pc[r] = "enqueueEmail" => crmJobs[row[r].id] > 0
       /\ Uncommitted(r) =>
            /\ pc[r] \in {"inserted", "rollback"}
            /\ row[r].id <= lastId
            /\ \A e \in rows : e.id # row[r].id /\ e.fingerprint # row[r].fingerprint
            /\ \A q \in Requests \ {r} : Uncommitted(q) =>
                 row[q].id # row[r].id /\ row[q].fingerprint # row[r].fingerprint
  /\ \A e \in rows : e.id <= lastId

\* Everything above holds together, whatever interleaving, failure or crash:
\* the strengthening from which the safety properties of createEnquiry and
\* idempotencyMiddleware follow step by step.
IInv ==
  /\ TypeOK
  /\ TransactionsAreSound
  /\ UniqueEnquiries
  /\ JobsFollowCommits
  /\ OneSyncJobPerEnquiry
  /\ AnswersAreSound
  /\ ClaimsAreHeld
  /\ OneClaimantPerKey
  /\ MarkersAreSound
  /\ AnswerMatchesSubmission
-----------------------------------------------------------------------------
(***************************************************************************)
(* What the documentation says and the code does not do                    *)
(***************************************************************************)
\* PERFORMANCE.md: the queue "ensures nothing is silently lost", so an enquiry
\* that was committed has its sync job once nobody is working on it any more.
CommittedIsQueued ==
  (\A r \in Requests : ~ InFlight(r)) => \A e \in rows : crmJobs[e.id] > 0

\* API_DOCS.md: a request whose Idempotency-Key is still being processed gets a
\* 409; at the least it gets an answer.
InFlightKeyRefused ==
  \A r \in Requests : pc[r] = "lookup" ~> pc[r] \in {"done", "dropped"}
=============================================================================
