------------------------- MODULE EnquiryIntakeProofs -------------------------
(***************************************************************************)
(* What TLAPS proves of EnquiryIntake, for every number of requests,       *)
(* instances, keys and properties and every value of the other constants   *)
(* that satisfies ConstantsAssumption and NoRowAssumption: the inductive   *)
(* invariant IInv, the safety properties it implies, that replays are      *)
(* faithful, and that the service implements EnquiryRegister.              *)
(***************************************************************************)
EXTENDS EnquiryIntakeProperties, TLAPS

-----------------------------------------------------------------------------
(***************************************************************************)
(* Types                                                                   *)
(***************************************************************************)

\* contentFingerprint of a submission is a fingerprint.
LEMMA FingerprintType ==
  ASSUME NEW r \in Requests, submission[r] \in Submission
  PROVE  FingerprintOf(r) \in Fingerprints
  BY DEF FingerprintOf, Fingerprints, Submission

\* What createEnquiryHandler and errorHandler send is an answer.
LEMMA AnswerForType ==
  ASSUME NEW r \in Requests, submission[r] \in Submission,
         NEW kind \in Kinds, NEW id \in Ids \cup {0}
  PROVE  AnswerFor(r, kind, id) \in Answer
  BY FingerprintType DEF AnswerFor, Answer

\* What idempotency.ts writes under a key is a marker it can read back.
LEMMA MarkerType ==
  /\ Absent \in Marker
  /\ Processing \in Marker
  /\ \A a \in Answer : Completed(a) \in Marker
  BY DEF Absent, Processing, Completed, Marker

\* An id and a fingerprint make a row of enquiries.
LEMMA RowType ==
  ASSUME NEW id \in Ids, NEW f \in Fingerprints
  PROVE  [id |-> id, fingerprint |-> f] \in Row
  BY DEF Row

\* A row of enquiries has an id and a fingerprint.
LEMMA RowFields ==
  ASSUME NEW e \in Row
  PROVE  e.id \in Ids /\ e.fingerprint \in Fingerprints
  BY DEF Row

\* AUTO_INCREMENT stays within the ids while it is below the bound.
LEMMA NextId ==
  ASSUME NEW n \in Nat, n < MaxId
  PROVE  n + 1 \in Ids
  BY ConstantsAssumption DEF Ids

\* Adding a job, under a job id of its own or of the enquiry, counts jobs.
LEMMA AddJobType ==
  ASSUME NEW jobs \in [Ids -> Nat], NEW id \in Ids
  PROVE  AddJob(jobs, id) \in [Ids -> Nat] /\ AddJobOnce(jobs, id) \in [Ids -> Nat]
  BY DEF AddJob, AddJobOnce

-----------------------------------------------------------------------------
(***************************************************************************)
(* Each step keeps the invariant                                           *)
(***************************************************************************)
\* A step that touches neither MySQL nor the queues keeps what is said of them.
LEMMA EnquiriesUndisturbed ==
  ASSUME IInv, UNCHANGED <<rows, crmJobs, emailJobs>>
  PROVE  UniqueEnquiries' /\ JobsFollowCommits' /\ OneSyncJobPerEnquiry'
  BY DEF IInv, UniqueEnquiries, JobsFollowCommits, OneSyncJobPerEnquiry

\* A request that is sent has claimed nothing yet.
LEMMA SendStep ==
  ASSUME IInv, NEW r \in Requests, Send(r)
  PROVE  IInv'
<1> USE DEF IInv, Send, Goto, jobVars, dbVars
<1>1. TypeOK'
  BY DEF TypeOK, Locations
<1>2. TransactionsAreSound'
  BY DEF TransactionsAreSound, Uncommitted, FingerprintOf
<1>3. UniqueEnquiries' /\ JobsFollowCommits' /\ OneSyncJobPerEnquiry'
  BY EnquiriesUndisturbed
<1>4. AnswersAreSound'
  BY DEF AnswersAreSound, Sound, FingerprintOf, ClaimsAreHeld, Answered, KeyOf, Working
<1>5. ClaimsAreHeld' /\ OneClaimantPerKey'
  BY DEF ClaimsAreHeld, OneClaimantPerKey, Working, Answered, KeyOf, Submission, RedisKey
<1>6. MarkersAreSound'
  BY DEF MarkersAreSound, Answered, KeyOf, FingerprintOf
<1>7. AnswerMatchesSubmission'
  BY DEF AnswerMatchesSubmission, Answered, KeyOf, FingerprintOf
<1>8. QED
  BY <1>1, <1>2, <1>3, <1>4, <1>5, <1>6, <1>7

\* An answer of the rate limiter claims nothing about the database.
LEMMA ThrottleStep ==
  ASSUME IInv, NEW r \in Requests, Throttle(r)
  PROVE  IInv'
<1> USE DEF IInv, Throttle, Goto, Decide, jobVars, dbVars
<1>1. TypeOK'
  BY AnswerForType DEF TypeOK, Locations, Kinds
<1>2. TransactionsAreSound'
  BY DEF TransactionsAreSound, Uncommitted, FingerprintOf
<1>3. UniqueEnquiries' /\ JobsFollowCommits' /\ OneSyncJobPerEnquiry'
  BY EnquiriesUndisturbed
<1>4. AnswersAreSound'
  BY AnswerForType DEF TypeOK, AnswersAreSound, Sound, Register!Truthful, FingerprintOf,
     AnswerFor, Kinds, ClaimsAreHeld, Answered, KeyOf, Working
<1>5. ClaimsAreHeld' /\ OneClaimantPerKey'
  BY DEF ClaimsAreHeld, OneClaimantPerKey, Working, Answered, KeyOf, Submission, RedisKey
<1>6. MarkersAreSound'
  BY DEF MarkersAreSound, Answered, KeyOf, FingerprintOf
<1>7. AnswerMatchesSubmission'
  BY DEF TypeOK, AnswerMatchesSubmission, Answered, KeyOf, FingerprintOf, AnswerFor
<1>8. QED
  BY <1>1, <1>2, <1>3, <1>4, <1>5, <1>6, <1>7

\* SET NX: a claim succeeds only where nobody works under the key and no answer
\* waits to be cached, so the claimant is alone.
LEMMA ClaimingStep ==
  ASSUME IInv, NEW r \in Requests, Claiming(r)
  PROVE  IInv'
<1> USE DEF IInv, Claiming, Claim, Goto, jobVars, dbVars
<1>1. TypeOK'
  BY MarkerType DEF TypeOK, Locations
<1>2. TransactionsAreSound'
  BY DEF TypeOK, TransactionsAreSound, Uncommitted, FingerprintOf
<1>3. UniqueEnquiries' /\ JobsFollowCommits' /\ OneSyncJobPerEnquiry'
  BY EnquiriesUndisturbed
<1>4. AnswersAreSound'
  BY DEF TypeOK, AnswersAreSound, Sound, FingerprintOf, ClaimsAreHeld, Answered, KeyOf, Working
<1>5. ClaimsAreHeld' /\ OneClaimantPerKey'
  <2>1. CASE UNCHANGED <<claimed, store>>
    BY <2>1 DEF TypeOK, ClaimsAreHeld, OneClaimantPerKey, Working, Answered, KeyOf, Submission
  <2>2. CASE /\ pc' = [pc EXCEPT ![r] = "validate"]
             /\ KeyOf(r) \in Keys
             /\ store[KeyOf(r)] = Absent
             /\ store' = [store EXCEPT ![KeyOf(r)] = Processing]
             /\ claimed' = claimed \cup {r}
    <3>1. \A q \in claimed \cup caching : KeyOf(q) # KeyOf(r)
      BY <2>2 DEF OneClaimantPerKey, Absent, Processing
    <3>2. ClaimsAreHeld'
      BY <2>2 DEF TypeOK, ClaimsAreHeld, Working, Answered, KeyOf
    <3>3. OneClaimantPerKey'
      BY <2>2, <3>1 DEF TypeOK, OneClaimantPerKey, KeyOf
    <3>4. QED
      BY <3>2, <3>3
  <2>3. QED
    BY <2>1, <2>2 DEF TypeOK, Claimable, RedisKey, KeyOf, Submission
<1>6. MarkersAreSound'
  BY DEF TypeOK, MarkersAreSound, Answered, KeyOf, FingerprintOf, RedisKey, Absent, Processing,
     Completed, ClaimsAreHeld, AnswersAreSound
<1>7. AnswerMatchesSubmission'
  BY DEF TypeOK, AnswerMatchesSubmission, Answered, KeyOf, FingerprintOf
<1>8. QED
  BY <1>1, <1>2, <1>3, <1>4, <1>5, <1>6, <1>7

\* A claim whose reply was lost leaves the key marked by nobody: harmless.
LEMMA ClaimResentStep ==
  ASSUME IInv, NEW r \in Requests, ClaimResent(r)
  PROVE  IInv'
<1> USE DEF IInv, ClaimResent, Goto, jobVars, dbVars
<1>1. TypeOK'
  BY MarkerType DEF TypeOK, Locations
<1>2. TransactionsAreSound'
  BY DEF TransactionsAreSound, Uncommitted, FingerprintOf
<1>3. UniqueEnquiries' /\ JobsFollowCommits' /\ OneSyncJobPerEnquiry'
  BY EnquiriesUndisturbed
<1>4. AnswersAreSound'
  BY DEF AnswersAreSound, Sound, FingerprintOf
<1>5. ClaimsAreHeld' /\ OneClaimantPerKey'
  BY DEF TypeOK, ClaimsAreHeld, OneClaimantPerKey, Answered, KeyOf, Submission, RedisKey, Absent,
     Processing, Completed
<1>6. MarkersAreSound'
  BY DEF MarkersAreSound, Answered, KeyOf, FingerprintOf, RedisKey, Absent, Processing,
     Completed, ClaimsAreHeld, AnswersAreSound
<1>7. AnswerMatchesSubmission'
  BY DEF AnswerMatchesSubmission, Answered, KeyOf, FingerprintOf
<1>8. QED
  BY <1>1, <1>2, <1>3, <1>4, <1>5, <1>6, <1>7

\* Without Redis the request waits and nothing is claimed.
LEMMA StoreUnavailableStep ==
  ASSUME IInv, NEW r \in Requests, StoreUnavailable(r)
  PROVE  IInv'
<1> USE DEF IInv, StoreUnavailable, jobVars, dbVars
<1>1. TypeOK'
  BY DEF TypeOK, Locations
<1>2. TransactionsAreSound'
  BY DEF TransactionsAreSound, Uncommitted, FingerprintOf
<1>3. UniqueEnquiries' /\ JobsFollowCommits' /\ OneSyncJobPerEnquiry'
  BY EnquiriesUndisturbed
<1>4. AnswersAreSound'
  BY DEF AnswersAreSound, Sound, FingerprintOf
<1>5. ClaimsAreHeld' /\ OneClaimantPerKey'
  BY DEF ClaimsAreHeld, OneClaimantPerKey, Working, Answered, KeyOf, Submission, RedisKey
<1>6. MarkersAreSound'
  BY DEF MarkersAreSound, Answered, KeyOf, FingerprintOf
<1>7. AnswerMatchesSubmission'
  BY DEF AnswerMatchesSubmission, Answered, KeyOf, FingerprintOf
<1>8. QED
  BY <1>1, <1>2, <1>3, <1>4, <1>5, <1>6, <1>7

\* A request that lost the claim either gets the stored answer, which some other
\* answered request with its key was given, or hangs.
LEMMA LookupCases ==
  ASSUME IInv, NEW r \in Requests, Lookup(r)
  PROVE  \/ pc' = [pc EXCEPT ![r] = "hung"] /\ UNCHANGED outcome
         \/ \E q \in Requests \ {r} :
              /\ Answered(q)
              /\ KeyOf(q) = KeyOf(r)
              /\ outcome[q].about = FingerprintOf(q)
              /\ KeyOf(r) # NoKey
              /\ pc' = [pc EXCEPT ![r] = "done"]
              /\ outcome' = [outcome EXCEPT ![r] = outcome[q]]
<1>1. KeyOf(r) \in Keys
  BY DEF IInv, ClaimsAreHeld, Lookup, Goto
<1>2. CASE store[KeyOf(r)].state = "completed"
  <2>1. PICK q \in Requests :
          /\ Answered(q)
          /\ KeyOf(q) = KeyOf(r)
          /\ outcome[q] = store[KeyOf(r)].answer
          /\ outcome[q].about = FingerprintOf(q)
    BY <1>1, <1>2 DEF IInv, MarkersAreSound
  <2>2. QED
    BY <1>1, <2>1, ConstantsAssumption DEF Lookup, Goto, RedisKey, Answered
<1>3. QED
  BY <1>2 DEF Lookup, Goto, RedisKey

\* A replayed answer is as sound as the first one was.
LEMMA LookupStep ==
  ASSUME IInv, NEW r \in Requests, Lookup(r)
  PROVE  IInv'
<1> USE DEF IInv, Lookup, Goto, jobVars, dbVars
<1>1. TypeOK'
  BY LookupCases DEF TypeOK, Locations, Answered, Sound
<1>2. TransactionsAreSound'
  BY DEF TypeOK, TransactionsAreSound, Uncommitted, FingerprintOf
<1>3. UniqueEnquiries' /\ JobsFollowCommits' /\ OneSyncJobPerEnquiry'
  BY EnquiriesUndisturbed
<1>4. AnswersAreSound'
  BY LookupCases DEF TypeOK, AnswersAreSound, Answered, ClaimsAreHeld, Sound, Register!Truthful,
     FingerprintOf
<1>5. ClaimsAreHeld' /\ OneClaimantPerKey'
  BY DEF TypeOK, ClaimsAreHeld, OneClaimantPerKey, Working, Answered, KeyOf, Submission, RedisKey
<1>6. MarkersAreSound'
  BY DEF TypeOK, MarkersAreSound, Answered, KeyOf, FingerprintOf
<1>7. AnswerMatchesSubmission'
  BY LookupCases DEF TypeOK, AnswerMatchesSubmission, Answered, KeyOf, FingerprintOf
<1>8. QED
  BY <1>1, <1>2, <1>3, <1>4, <1>5, <1>6, <1>7

\* A 400 claims nothing about the database.
LEMMA ValidateStep ==
  ASSUME IInv, NEW r \in Requests, Validate(r)
  PROVE  IInv'
<1> USE DEF IInv, Validate, Goto, Decide, jobVars, dbVars
<1>1. TypeOK'
  BY AnswerForType DEF TypeOK, Locations, Kinds
<1>2. TransactionsAreSound'
  BY DEF TypeOK, TransactionsAreSound, Uncommitted, FingerprintOf
<1>3. UniqueEnquiries' /\ JobsFollowCommits' /\ OneSyncJobPerEnquiry'
  BY EnquiriesUndisturbed
<1>4. AnswersAreSound'
  BY AnswerForType DEF TypeOK, AnswersAreSound, Sound, Register!Truthful, FingerprintOf,
     AnswerFor, Kinds, ClaimsAreHeld, Answered, KeyOf, Working
<1>5. ClaimsAreHeld' /\ OneClaimantPerKey'
  BY DEF TypeOK, ClaimsAreHeld, OneClaimantPerKey, Working, Answered, KeyOf
<1>6. MarkersAreSound'
  BY DEF TypeOK, MarkersAreSound, Answered, KeyOf, FingerprintOf
<1>7. AnswerMatchesSubmission'
  BY DEF TypeOK, AnswerMatchesSubmission, Answered, KeyOf, FingerprintOf
<1>8. QED
  BY <1>1, <1>2, <1>3, <1>4, <1>5, <1>6, <1>7

\* BEGIN takes a connection and nothing else.
LEMMA BeginStep ==
  ASSUME IInv, NEW r \in Requests, Begin(r)
  PROVE  IInv'
<1> USE DEF IInv, Begin, Goto, jobVars, dbVars
<1>1. TypeOK'
  BY DEF TypeOK, Locations
<1>2. TransactionsAreSound'
  BY DEF TransactionsAreSound, Uncommitted, FingerprintOf
<1>3. UniqueEnquiries' /\ JobsFollowCommits' /\ OneSyncJobPerEnquiry'
  BY EnquiriesUndisturbed
<1>4. AnswersAreSound'
  BY DEF AnswersAreSound, Sound, FingerprintOf
<1>5. ClaimsAreHeld' /\ OneClaimantPerKey'
  BY DEF ClaimsAreHeld, OneClaimantPerKey, Working, Answered, KeyOf
<1>6. MarkersAreSound'
  BY DEF MarkersAreSound, Answered, KeyOf, FingerprintOf
<1>7. AnswerMatchesSubmission'
  BY DEF AnswerMatchesSubmission, Answered, KeyOf, FingerprintOf
<1>8. QED
  BY <1>1, <1>2, <1>3, <1>4, <1>5, <1>6, <1>7

\* A 500 without a connection claims nothing about the database.
LEMMA ConnectFailsStep ==
  ASSUME IInv, NEW r \in Requests, ConnectFails(r)
  PROVE  IInv'
<1> USE DEF IInv, ConnectFails, Goto, Decide, jobVars, dbVars
<1>1. TypeOK'
  BY AnswerForType DEF TypeOK, Locations, Kinds
<1>2. TransactionsAreSound'
  BY DEF TransactionsAreSound, Uncommitted, FingerprintOf
<1>3. UniqueEnquiries' /\ JobsFollowCommits' /\ OneSyncJobPerEnquiry'
  BY EnquiriesUndisturbed
<1>4. AnswersAreSound'
  BY AnswerForType DEF TypeOK, AnswersAreSound, Sound, Register!Truthful, FingerprintOf,
     AnswerFor, Kinds
<1>5. ClaimsAreHeld' /\ OneClaimantPerKey'
  BY DEF ClaimsAreHeld, OneClaimantPerKey, Working, Answered, KeyOf
<1>6. MarkersAreSound'
  BY DEF MarkersAreSound, Answered, KeyOf, FingerprintOf
<1>7. AnswerMatchesSubmission'
  BY DEF AnswerMatchesSubmission, Answered, KeyOf, FingerprintOf
<1>8. QED
  BY <1>1, <1>2, <1>3, <1>4, <1>5, <1>6, <1>7

\* Neither the 404 nor the way on says anything of the rows.
LEMMA CheckPropertyStep ==
  ASSUME IInv, NEW r \in Requests, CheckProperty(r)
  PROVE  IInv'
<1> USE DEF IInv, CheckProperty, Goto, Decide, jobVars, dbVars
<1>1. TypeOK'
  BY AnswerForType DEF TypeOK, Locations, Kinds
<1>2. TransactionsAreSound'
  BY DEF TypeOK, TransactionsAreSound, Uncommitted, FingerprintOf
<1>3. UniqueEnquiries' /\ JobsFollowCommits' /\ OneSyncJobPerEnquiry'
  BY EnquiriesUndisturbed
<1>4. AnswersAreSound'
  BY AnswerForType DEF TypeOK, AnswersAreSound, Sound, Register!Truthful, FingerprintOf,
     AnswerFor, Kinds
<1>5. ClaimsAreHeld' /\ OneClaimantPerKey'
  BY DEF TypeOK, ClaimsAreHeld, OneClaimantPerKey, Working, Answered, KeyOf
<1>6. MarkersAreSound'
  BY DEF TypeOK, MarkersAreSound, Answered, KeyOf, FingerprintOf
<1>7. AnswerMatchesSubmission'
  BY DEF TypeOK, AnswerMatchesSubmission, Answered, KeyOf, FingerprintOf
<1>8. QED
  BY <1>1, <1>2, <1>3, <1>4, <1>5, <1>6, <1>7

\* The INSERT takes the next id and a fingerprint that no committed row and no
\* open transaction has; a duplicate is one of a committed row.
LEMMA InsertStep ==
  ASSUME IInv, NEW r \in Requests, Insert(r)
  PROVE  IInv'
<1> USE DEF IInv, Insert, Goto, Decide, jobVars, dbVars
<1>1. TypeOK'
  BY AnswerForType, RowType, NextId, FingerprintType DEF TypeOK, Locations, Kinds,
     TransactionsAreSound, Uncommitted
<1>2. TransactionsAreSound'
  <2>1. CASE pc' = [pc EXCEPT ![r] = "rollback"] /\ UNCHANGED row
    BY <2>1, RowFields DEF TypeOK, TransactionsAreSound, Uncommitted, FingerprintOf, Ids
  <2>2. CASE /\ pc' = [pc EXCEPT ![r] = "inserted"]
             /\ row' = [row EXCEPT ![r] = [id |-> lastId + 1, fingerprint |-> FingerprintOf(r)]]
             /\ ~ Taken(FingerprintOf(r))
    <3> DEFINE new == [id |-> lastId + 1, fingerprint |-> FingerprintOf(r)]
    <3>1. new \in Row /\ new.id = lastId + 1 /\ new.fingerprint = FingerprintOf(r)
      BY NextId, RowType, FingerprintType DEF TypeOK
    <3>2. row'[r] = new /\ \A q \in Requests \ {r} : row'[q] = row[q]
      BY <2>2 DEF TypeOK
    <3>3. \A e \in rows : e.id # new.id /\ e.fingerprint # new.fingerprint
      BY <2>2 DEF TypeOK, TransactionsAreSound, Taken, Ids
    <3>4. \A q \in Requests \ {r} : Uncommitted(q) =>
            row[q].id # new.id /\ row[q].fingerprint # new.fingerprint
      BY DEF TypeOK, TransactionsAreSound, LockedByOther, Uncommitted, Ids
    <3>5. QED
      BY <2>2, <3>1, <3>2, <3>3, <3>4, RowFields, NoRowAssumption
      DEF TypeOK, TransactionsAreSound, Uncommitted, FingerprintOf, Ids
  <2>3. QED
    BY <2>1, <2>2
<1>3. UniqueEnquiries' /\ JobsFollowCommits' /\ OneSyncJobPerEnquiry'
  BY EnquiriesUndisturbed
<1>4. AnswersAreSound'
  BY AnswerForType DEF TypeOK, AnswersAreSound, Sound, Register!Truthful, FingerprintOf,
     AnswerFor, Kinds, Taken
<1>5. ClaimsAreHeld' /\ OneClaimantPerKey'
  BY DEF TypeOK, ClaimsAreHeld, OneClaimantPerKey, Working, Answered, KeyOf
<1>6. MarkersAreSound'
  BY DEF TypeOK, MarkersAreSound, Answered, KeyOf, FingerprintOf
<1>7. AnswerMatchesSubmission'
  BY DEF TypeOK, AnswerMatchesSubmission, Answered, KeyOf, FingerprintOf
<1>8. QED
  BY <1>1, <1>2, <1>3, <1>4, <1>5, <1>6, <1>7

\* COMMIT adds a row whose id and fingerprint are new.
LEMMA CommitStep ==
  ASSUME IInv, NEW r \in Requests, Commit(r)
  PROVE  IInv'
<1> USE DEF IInv, Commit, Goto, jobVars, dbVars
<1>1. TypeOK'
  BY DEF TypeOK, Locations, TransactionsAreSound, Uncommitted
<1>2. TransactionsAreSound'
  BY DEF TypeOK, TransactionsAreSound, Uncommitted, FingerprintOf
<1>3. UniqueEnquiries'
  BY DEF TransactionsAreSound, UniqueEnquiries
<1>4. JobsFollowCommits' /\ OneSyncJobPerEnquiry'
  BY DEF JobsFollowCommits, OneSyncJobPerEnquiry, Uncommitted
<1>5. AnswersAreSound'
  BY DEF AnswersAreSound, Sound, Register!Truthful, FingerprintOf, TransactionsAreSound, Row
<1>6. ClaimsAreHeld' /\ OneClaimantPerKey'
  BY DEF ClaimsAreHeld, OneClaimantPerKey, Working, Answered, KeyOf
<1>7. MarkersAreSound'
  BY DEF MarkersAreSound, Answered, KeyOf, FingerprintOf
<1>8. AnswerMatchesSubmission'
  BY DEF AnswerMatchesSubmission, Answered, KeyOf, FingerprintOf
<1>9. QED
  BY <1>1, <1>2, <1>3, <1>4, <1>5, <1>6, <1>7, <1>8

\* A COMMIT whose reply is lost adds the same row, and its 500 claims nothing.
LEMMA CommitReplyLostStep ==
  ASSUME IInv, NEW r \in Requests, CommitReplyLost(r)
  PROVE  IInv'
<1> USE DEF IInv, CommitReplyLost, Goto, Decide, jobVars, dbVars
<1>1. TypeOK'
  BY AnswerForType DEF TypeOK, Locations, Kinds, TransactionsAreSound, Uncommitted
<1>2. TransactionsAreSound'
  BY DEF TypeOK, TransactionsAreSound, Uncommitted, FingerprintOf
<1>3. UniqueEnquiries'
  BY DEF TransactionsAreSound, UniqueEnquiries
<1>4. JobsFollowCommits' /\ OneSyncJobPerEnquiry'
  BY DEF JobsFollowCommits, OneSyncJobPerEnquiry, Uncommitted
<1>5. AnswersAreSound'
  BY AnswerForType DEF TypeOK, AnswersAreSound, Sound, Register!Truthful, FingerprintOf,
     AnswerFor, Kinds, TransactionsAreSound, Row
<1>6. ClaimsAreHeld' /\ OneClaimantPerKey'
  BY DEF ClaimsAreHeld, OneClaimantPerKey, Working, Answered, KeyOf
<1>7. MarkersAreSound'
  BY DEF MarkersAreSound, Answered, KeyOf, FingerprintOf
<1>8. AnswerMatchesSubmission'
  BY DEF AnswerMatchesSubmission, Answered, KeyOf, FingerprintOf
<1>9. QED
  BY <1>1, <1>2, <1>3, <1>4, <1>5, <1>6, <1>7, <1>8

\* A 500 after a failed query claims nothing about the database.
LEMMA QueryFailsStep ==
  ASSUME IInv, NEW r \in Requests, QueryFails(r)
  PROVE  IInv'
<1> USE DEF IInv, QueryFails, Decide, jobVars, dbVars
<1>1. TypeOK'
  BY AnswerForType DEF TypeOK, Locations, Kinds
<1>2. TransactionsAreSound'
  BY DEF TransactionsAreSound, Uncommitted, FingerprintOf
<1>3. UniqueEnquiries' /\ JobsFollowCommits' /\ OneSyncJobPerEnquiry'
  BY EnquiriesUndisturbed
<1>4. AnswersAreSound'
  BY AnswerForType DEF TypeOK, AnswersAreSound, Sound, Register!Truthful, FingerprintOf,
     AnswerFor, Kinds
<1>5. ClaimsAreHeld' /\ OneClaimantPerKey'
  BY DEF ClaimsAreHeld, OneClaimantPerKey, Working, Answered, KeyOf
<1>6. MarkersAreSound'
  BY DEF MarkersAreSound, Answered, KeyOf, FingerprintOf
<1>7. AnswerMatchesSubmission'
  BY DEF AnswerMatchesSubmission, Answered, KeyOf, FingerprintOf
<1>8. QED
  BY <1>1, <1>2, <1>3, <1>4, <1>5, <1>6, <1>7

\* ROLLBACK drops the row; a 409 is then about a committed row.
LEMMA RollbackStep ==
  ASSUME IInv, NEW r \in Requests, Rollback(r)
  PROVE  IInv'
<1> USE DEF IInv, Rollback, Goto, Decide, jobVars, dbVars
<1>1. TypeOK'
  <2>1. outcome' \in [Requests -> Answer \cup {NoAnswer}] /\ outcome'[r] \in Answer
    BY AnswerForType DEF TypeOK, Kinds, AnswersAreSound, Sound
  <2>2. QED
    BY <2>1 DEF TypeOK, Locations
<1>2. TransactionsAreSound'
  BY DEF TypeOK, TransactionsAreSound, Uncommitted, FingerprintOf
<1>3. UniqueEnquiries' /\ JobsFollowCommits' /\ OneSyncJobPerEnquiry'
  BY EnquiriesUndisturbed
<1>4. AnswersAreSound'
  BY AnswerForType DEF TypeOK, AnswersAreSound, Sound, Register!Truthful, FingerprintOf,
     AnswerFor, Kinds
<1>5. ClaimsAreHeld' /\ OneClaimantPerKey'
  BY DEF ClaimsAreHeld, OneClaimantPerKey, Working, Answered, KeyOf
<1>6. MarkersAreSound'
  BY DEF TypeOK, MarkersAreSound, Answered, KeyOf, FingerprintOf
<1>7. AnswerMatchesSubmission'
  BY DEF TypeOK, AnswerMatchesSubmission, Answered, KeyOf, FingerprintOf
<1>8. QED
  BY <1>1, <1>2, <1>3, <1>4, <1>5, <1>6, <1>7

\* The sync job is added for the committed row, under the id crm-sync-<id>.
LEMMA EnqueueCrmStep ==
  ASSUME IInv, NEW r \in Requests, EnqueueCrm(r)
  PROVE  IInv'
<1> USE DEF IInv, EnqueueCrm, Goto, jobVars, dbVars, AddJob, AddJobOnce
<1>1. TypeOK'
  BY AddJobType DEF TypeOK, Locations, Uncommitted
<1>2. TransactionsAreSound'
  BY RowFields DEF TypeOK, TransactionsAreSound, Uncommitted, FingerprintOf
<1>3. UniqueEnquiries'
  BY DEF UniqueEnquiries
<1>4. JobsFollowCommits' /\ OneSyncJobPerEnquiry'
  BY DEF TransactionsAreSound, JobsFollowCommits, OneSyncJobPerEnquiry, Uncommitted
<1>5. AnswersAreSound'
  BY DEF AnswersAreSound, Sound, FingerprintOf, TransactionsAreSound, Row
<1>6. ClaimsAreHeld' /\ OneClaimantPerKey'
  BY DEF ClaimsAreHeld, OneClaimantPerKey, Working, Answered, KeyOf
<1>7. MarkersAreSound'
  BY DEF MarkersAreSound, Answered, KeyOf, FingerprintOf
<1>8. AnswerMatchesSubmission'
  BY DEF AnswerMatchesSubmission, Answered, KeyOf, FingerprintOf
<1>9. QED
  BY <1>1, <1>2, <1>3, <1>4, <1>5, <1>6, <1>7, <1>8

\* With the second job added, the 201 names a committed row that has both jobs.
LEMMA EnqueueEmailStep ==
  ASSUME IInv, NEW r \in Requests, EnqueueEmail(r)
  PROVE  IInv'
<1> USE DEF IInv, EnqueueEmail, Goto, Decide, jobVars, dbVars, AddJob
<1>1. TypeOK'
  BY AnswerForType, RowFields DEF TypeOK, Locations, Kinds, TransactionsAreSound, Uncommitted
<1>2. TransactionsAreSound'
  BY DEF TransactionsAreSound, Uncommitted, FingerprintOf
<1>3. UniqueEnquiries'
  BY DEF UniqueEnquiries
<1>4. JobsFollowCommits' /\ OneSyncJobPerEnquiry'
  BY DEF TransactionsAreSound, JobsFollowCommits, OneSyncJobPerEnquiry, Uncommitted
<1>5. AnswersAreSound'
  <2>1. outcome' = [outcome EXCEPT ![r] =
                      [kind |-> "created", id |-> row[r].id, about |-> FingerprintOf(r)]]
    BY DEF AnswerFor
  <2>2. /\ row[r].id \in Ids
        /\ [id |-> row[r].id, fingerprint |-> FingerprintOf(r)] \in rows
        /\ crmJobs[row[r].id] > 0
    BY NoRowAssumption DEF TypeOK, TransactionsAreSound, Row
  <2>3. /\ outcome'[r] = [kind |-> "created", id |-> row[r].id, about |-> FingerprintOf(r)]
        /\ outcome'[r] \in Answer
    BY <2>2, AnswerForType DEF TypeOK, Kinds, AnswerFor
  <2>4. crmJobs'[row[r].id] > 0 /\ emailJobs'[row[r].id] > 0
    BY <2>2 DEF TypeOK
  <2>5. Sound(outcome[r])'
    BY <2>2, <2>3, <2>4 DEF Sound, Register!Truthful
  <2>6. \A q \in Requests \ {r} : Sound(outcome[q]) => Sound(outcome[q])'
    BY DEF TypeOK, Sound, Register!Truthful
  <2>7. QED
    BY <2>3, <2>5, <2>6 DEF AnswersAreSound, FingerprintOf, ClaimsAreHeld, Answered
<1>6. ClaimsAreHeld' /\ OneClaimantPerKey'
  BY DEF ClaimsAreHeld, OneClaimantPerKey, Working, Answered, KeyOf
<1>7. MarkersAreSound'
  BY DEF MarkersAreSound, Answered, KeyOf, FingerprintOf
<1>8. AnswerMatchesSubmission'
  BY DEF AnswerMatchesSubmission, Answered, KeyOf, FingerprintOf
<1>9. QED
  BY <1>1, <1>2, <1>3, <1>4, <1>5, <1>6, <1>7, <1>8

\* An add whose reply was lost is sent again, and the job id makes it one job.
LEMMA EnqueueResentStep ==
  ASSUME IInv, NEW r \in Requests, EnqueueResent(r)
  PROVE  IInv'
<1> USE DEF IInv, EnqueueResent, jobVars, dbVars, requestVars, AddJob, AddJobOnce
<1>1. TypeOK'
  BY DEF TypeOK
<1>2. TransactionsAreSound'
  BY RowFields DEF TypeOK, TransactionsAreSound, Uncommitted, FingerprintOf
<1>3. UniqueEnquiries'
  BY DEF UniqueEnquiries
<1>4. JobsFollowCommits' /\ OneSyncJobPerEnquiry'
  BY DEF TypeOK, TransactionsAreSound, JobsFollowCommits, OneSyncJobPerEnquiry, Uncommitted
<1>5. AnswersAreSound'
  BY DEF TypeOK, AnswersAreSound, Sound, Register!Truthful, FingerprintOf, TransactionsAreSound, Row
<1>6. ClaimsAreHeld' /\ OneClaimantPerKey'
  BY DEF ClaimsAreHeld, OneClaimantPerKey, Answered, KeyOf
<1>7. MarkersAreSound'
  BY DEF MarkersAreSound, Answered, KeyOf, FingerprintOf
<1>8. AnswerMatchesSubmission'
  BY DEF AnswerMatchesSubmission, Answered, KeyOf, FingerprintOf
<1>9. QED
  BY <1>1, <1>2, <1>3, <1>4, <1>5, <1>6, <1>7, <1>8

\* A 500 after a failed add claims nothing about the database.
LEMMA EnqueueFailsStep ==
  ASSUME IInv, NEW r \in Requests, EnqueueFails(r)
  PROVE  IInv'
<1> USE DEF IInv, EnqueueFails, Decide, jobVars, dbVars
<1>1. TypeOK'
  BY AnswerForType DEF TypeOK, Locations, Kinds
<1>2. TransactionsAreSound'
  BY DEF TransactionsAreSound, Uncommitted, FingerprintOf
<1>3. UniqueEnquiries' /\ JobsFollowCommits' /\ OneSyncJobPerEnquiry'
  BY EnquiriesUndisturbed
<1>4. AnswersAreSound'
  BY AnswerForType DEF TypeOK, AnswersAreSound, Sound, Register!Truthful, FingerprintOf,
     AnswerFor, Kinds, ClaimsAreHeld, Answered, KeyOf, Working
<1>5. ClaimsAreHeld' /\ OneClaimantPerKey'
  BY DEF ClaimsAreHeld, OneClaimantPerKey, Working, Answered, KeyOf
<1>6. MarkersAreSound'
  BY DEF MarkersAreSound, Answered, KeyOf, FingerprintOf
<1>7. AnswerMatchesSubmission'
  BY DEF AnswerMatchesSubmission, Answered, KeyOf, FingerprintOf
<1>8. QED
  BY <1>1, <1>2, <1>3, <1>4, <1>5, <1>6, <1>7

\* From res.json on the request is answered, and its answer is still to be cached.
LEMMA RespondStep ==
  ASSUME IInv, NEW r \in Requests, Respond(r)
  PROVE  IInv'
<1> USE DEF IInv, Respond, Goto, jobVars, dbVars
<1>1. TypeOK'
  BY DEF TypeOK, Locations, Sound
<1>2. TransactionsAreSound'
  BY DEF TransactionsAreSound, Uncommitted, FingerprintOf
<1>3. UniqueEnquiries' /\ JobsFollowCommits' /\ OneSyncJobPerEnquiry'
  BY EnquiriesUndisturbed
<1>4. AnswersAreSound'
  BY DEF AnswersAreSound, Sound, FingerprintOf, ClaimsAreHeld, Answered, KeyOf, Working
<1>5. ClaimsAreHeld' /\ OneClaimantPerKey'
  BY DEF TypeOK, ClaimsAreHeld, OneClaimantPerKey, Answered, KeyOf
<1>6. MarkersAreSound'
  BY DEF MarkersAreSound, Answered, KeyOf, FingerprintOf
<1>7. AnswerMatchesSubmission'
  BY DEF AnswerMatchesSubmission, Answered, KeyOf, FingerprintOf, AnswersAreSound
<1>8. QED
  BY <1>1, <1>2, <1>3, <1>4, <1>5, <1>6, <1>7

\* The answer cached under a key is the one that the request with that claim gave.
LEMMA CacheAnswerStep ==
  ASSUME IInv, NEW r \in Requests, CacheAnswer(r)
  PROVE  IInv'
<1> USE DEF IInv, CacheAnswer, jobVars, dbVars
<1>1. TypeOK'
  BY MarkerType DEF TypeOK, ClaimsAreHeld, Answered, Sound
<1>2. TransactionsAreSound'
  BY DEF TransactionsAreSound, Uncommitted, FingerprintOf
<1>3. UniqueEnquiries' /\ JobsFollowCommits' /\ OneSyncJobPerEnquiry'
  BY EnquiriesUndisturbed
<1>4. AnswersAreSound'
  BY DEF AnswersAreSound, Sound, FingerprintOf, ClaimsAreHeld, Answered, KeyOf, Working
<1>5. ClaimsAreHeld' /\ OneClaimantPerKey'
  BY DEF ClaimsAreHeld, OneClaimantPerKey, Working, Answered, KeyOf, Submission, RedisKey,
     Absent, Processing, Completed
<1>6. MarkersAreSound'
  BY DEF MarkersAreSound, Answered, KeyOf, FingerprintOf, RedisKey, Absent, Processing,
     Completed, ClaimsAreHeld, AnswersAreSound
<1>7. AnswerMatchesSubmission'
  BY DEF AnswerMatchesSubmission, Answered, KeyOf, FingerprintOf
<1>8. QED
  BY <1>1, <1>2, <1>3, <1>4, <1>5, <1>6, <1>7

\* A failed caching leaves the key marked as processing.
LEMMA CacheLostStep ==
  ASSUME IInv, NEW r \in Requests, CacheLost(r)
  PROVE  IInv'
<1> USE DEF IInv, CacheLost, jobVars, dbVars
<1>1. TypeOK'
  BY DEF TypeOK
<1>2. TransactionsAreSound'
  BY DEF TransactionsAreSound, Uncommitted, FingerprintOf
<1>3. UniqueEnquiries' /\ JobsFollowCommits' /\ OneSyncJobPerEnquiry'
  BY EnquiriesUndisturbed
<1>4. AnswersAreSound'
  BY DEF AnswersAreSound, Sound, FingerprintOf, ClaimsAreHeld, Answered, KeyOf, Working
<1>5. ClaimsAreHeld' /\ OneClaimantPerKey'
  BY DEF ClaimsAreHeld, OneClaimantPerKey, Answered, KeyOf
<1>6. MarkersAreSound'
  BY DEF MarkersAreSound, Answered, KeyOf, FingerprintOf
<1>7. AnswerMatchesSubmission'
  BY DEF AnswerMatchesSubmission, Answered, KeyOf, FingerprintOf
<1>8. QED
  BY <1>1, <1>2, <1>3, <1>4, <1>5, <1>6, <1>7

\* A crash drops requests; their claims stay in Redis and their transactions end.
LEMMA CrashStep ==
  ASSUME IInv, NEW i \in Instances, Crash(i)
  PROVE  IInv'
<1> USE DEF IInv, Crash, jobVars, dbVars, InFlight
<1>1. TypeOK'
  BY DEF TypeOK, Locations, Sound
<1>2. TransactionsAreSound'
  BY DEF TransactionsAreSound, Uncommitted, FingerprintOf
<1>3. UniqueEnquiries' /\ JobsFollowCommits' /\ OneSyncJobPerEnquiry'
  BY EnquiriesUndisturbed
<1>4. AnswersAreSound'
  BY DEF AnswersAreSound, Sound, FingerprintOf, ClaimsAreHeld, Answered, KeyOf, Working
<1>5. ClaimsAreHeld' /\ OneClaimantPerKey'
  BY DEF TypeOK, ClaimsAreHeld, OneClaimantPerKey, Answered, KeyOf
<1>6. MarkersAreSound'
  BY DEF MarkersAreSound, Answered, KeyOf, FingerprintOf
<1>7. AnswerMatchesSubmission'
  BY DEF AnswerMatchesSubmission, Answered, KeyOf, FingerprintOf
<1>8. QED
  BY <1>1, <1>2, <1>3, <1>4, <1>5, <1>6, <1>7

\* A key expires only when no request is at work under it or about to cache.
LEMMA ExpireStep ==
  ASSUME IInv, NEW k \in Keys, Expire(k)
  PROVE  IInv'
<1> USE DEF IInv, Expire, jobVars, dbVars, requestVars
<1>1. TypeOK'
  BY MarkerType DEF TypeOK, Sound
<1>2. TransactionsAreSound'
  BY DEF TransactionsAreSound, Uncommitted, FingerprintOf
<1>3. UniqueEnquiries' /\ JobsFollowCommits' /\ OneSyncJobPerEnquiry'
  BY EnquiriesUndisturbed
<1>4. AnswersAreSound'
  BY DEF AnswersAreSound, Sound, FingerprintOf
<1>5. ClaimsAreHeld' /\ OneClaimantPerKey'
  BY DEF ClaimsAreHeld, OneClaimantPerKey, Answered, KeyOf, Submission, RedisKey, Absent,
     Processing, Completed
<1>6. MarkersAreSound'
  BY DEF MarkersAreSound, Answered, KeyOf, FingerprintOf, RedisKey, Absent, Processing,
     Completed, ClaimsAreHeld, AnswersAreSound
<1>7. AnswerMatchesSubmission'
  BY DEF AnswerMatchesSubmission, Answered, KeyOf, FingerprintOf
<1>8. QED
  BY <1>1, <1>2, <1>3, <1>4, <1>5, <1>6, <1>7

\* Publishing a property touches no enquiry.
LEMMA SetPublicationStep ==
  ASSUME IInv, NEW p \in PropertyIds, SetPublication(p)
  PROVE  IInv'
<1> USE DEF IInv, SetPublication, jobVars, dbVars, requestVars
<1>1. TypeOK'
  BY DEF TypeOK
<1>2. TransactionsAreSound'
  BY DEF TransactionsAreSound, Uncommitted, FingerprintOf
<1>3. UniqueEnquiries' /\ JobsFollowCommits' /\ OneSyncJobPerEnquiry'
  BY EnquiriesUndisturbed
<1>4. AnswersAreSound'
  BY DEF AnswersAreSound, Sound, FingerprintOf
<1>5. ClaimsAreHeld' /\ OneClaimantPerKey'
  BY DEF ClaimsAreHeld, OneClaimantPerKey, Answered, KeyOf
<1>6. MarkersAreSound'
  BY DEF MarkersAreSound, Answered, KeyOf, FingerprintOf
<1>7. AnswerMatchesSubmission'
  BY DEF AnswerMatchesSubmission, Answered, KeyOf, FingerprintOf
<1>8. QED
  BY <1>1, <1>2, <1>3, <1>4, <1>5, <1>6, <1>7

-----------------------------------------------------------------------------
(***************************************************************************)
(* The invariant holds in every reachable state                            *)
(***************************************************************************)
\* An empty service satisfies the invariant.
LEMMA InitStep ==
  ASSUME Init
  PROVE  IInv
<1> USE DEF Init
<1>1. TypeOK
  BY MarkerType DEF TypeOK, Locations
<1>2. TransactionsAreSound /\ UniqueEnquiries
  BY DEF TransactionsAreSound, UniqueEnquiries, Uncommitted
<1>3. JobsFollowCommits /\ OneSyncJobPerEnquiry
  BY DEF JobsFollowCommits, OneSyncJobPerEnquiry
<1>4. AnswersAreSound /\ ClaimsAreHeld /\ OneClaimantPerKey
  BY DEF AnswersAreSound, ClaimsAreHeld, OneClaimantPerKey
<1>5. MarkersAreSound /\ AnswerMatchesSubmission
  BY DEF MarkersAreSound, AnswerMatchesSubmission, Answered, Absent
<1>6. QED
  BY <1>1, <1>2, <1>3, <1>4, <1>5 DEF IInv

\* A step that changes nothing keeps the invariant.
LEMMA StutterStep ==
  ASSUME IInv, UNCHANGED vars
  PROVE  IInv'
<1> USE DEF IInv, vars, requestVars, jobVars, dbVars
<1>1. TypeOK'
  BY DEF TypeOK
<1>2. TransactionsAreSound'
  BY DEF TransactionsAreSound, Uncommitted, FingerprintOf
<1>3. UniqueEnquiries' /\ JobsFollowCommits' /\ OneSyncJobPerEnquiry'
  BY EnquiriesUndisturbed
<1>4. AnswersAreSound'
  BY DEF AnswersAreSound, Sound, FingerprintOf
<1>5. ClaimsAreHeld' /\ OneClaimantPerKey'
  BY DEF ClaimsAreHeld, OneClaimantPerKey, Answered, KeyOf
<1>6. MarkersAreSound' /\ AnswerMatchesSubmission'
  BY DEF MarkersAreSound, AnswerMatchesSubmission, Answered, KeyOf, FingerprintOf
<1>7. QED
  BY <1>1, <1>2, <1>3, <1>4, <1>5, <1>6

\* Every step keeps the invariant.
LEMMA NextStep ==
  ASSUME IInv, [Next]_vars
  PROVE  IInv'
<1>1. ASSUME NEW r \in Requests, Send(r) \/ Throttle(r) \/ CacheAnswer(r)
      PROVE  IInv'
  BY <1>1, SendStep, ThrottleStep, CacheAnswerStep
<1>2. ASSUME NEW r \in Requests, Progress(r)
      PROVE  IInv'
  BY <1>2, ClaimingStep, LookupStep, ValidateStep, BeginStep, CheckPropertyStep, InsertStep,
     CommitStep, RollbackStep, EnqueueCrmStep, EnqueueEmailStep, RespondStep
  DEF Progress
<1>3. ASSUME NEW r \in Requests, DatabaseFailure(r) \/ RedisFailure(r)
      PROVE  IInv'
  BY <1>3, ConnectFailsStep, QueryFailsStep, CommitReplyLostStep, ClaimResentStep,
     StoreUnavailableStep, EnqueueResentStep, EnqueueFailsStep, CacheLostStep
  DEF DatabaseFailure, RedisFailure
<1>4. QED
  BY <1>1, <1>2, <1>3, CrashStep, ExpireStep, SetPublicationStep, StutterStep DEF Next

\* Whatever the numbers of requests, instances and keys, and however requests,
\* failures and crashes interleave, the inductive invariant holds.
THEOREM Invariance == Spec => []IInv
<1>1. Init => IInv
  BY InitStep
<1>2. IInv /\ [Next]_vars => IInv'
  BY NextStep
<1>3. QED
  BY <1>1, <1>2, PTL DEF Spec

\* Type correctness; an answered request always has a real answer, so
\* idempotencyMiddleware never replays a marker that has none.
THEOREM TypeCorrect == Spec => []TypeOK
<1>1. IInv => TypeOK
  BY DEF IInv
<1>2. QED
  BY <1>1, Invariance, PTL

\* The unique index and withTransaction never let two rows share a fingerprint
\* or an id, for any number of concurrent identical submissions.
THEOREM EnquiriesAreUnique == Spec => []UniqueEnquiries
<1>1. IInv => UniqueEnquiries
  BY DEF IInv
<1>2. QED
  BY <1>1, Invariance, PTL

\* No two requests ever work under one Idempotency-Key, and the key of one that
\* does stays marked until its answer is stored.
THEOREM ClaimsAreExclusive == Spec => []OneClaimantPerKey
<1>1. IInv => OneClaimantPerKey
  BY DEF IInv
<1>2. QED
  BY <1>1, Invariance, PTL

\* A 201, fresh or replayed, names a committed row, and a 409 for duplicate
\* content is given only when a committed row has that content.
THEOREM AnswersAreTruthful == Spec => []TruthfulAnswers
<1>1. IInv => TruthfulAnswers
  BY DEF IInv, TruthfulAnswers, AnswersAreSound, Answered, Sound, Register!Truthful, Taken
<1>2. QED
  BY <1>1, Invariance, PTL

\* A client that was told 201 has both jobs of its enquiry in the queues.
THEOREM CreatedEnquiriesHaveJobs == Spec => []CreatedHasJobs
<1>1. IInv => CreatedHasJobs
  BY DEF IInv, CreatedHasJobs, AnswersAreSound, Answered, Sound
<1>2. QED
  BY <1>1, Invariance, PTL

\* No worker is given a job for an enquiry the database does not have.
THEOREM JobsAreForCommitted == Spec => []JobsFollowCommits
<1>1. IInv => JobsFollowCommits
  BY DEF IInv
<1>2. QED
  BY <1>1, Invariance, PTL

\* However often the add is sent, an enquiry gets one sync-enquiry job.
THEOREM SyncedOnce == Spec => []OneSyncJobPerEnquiry
<1>1. IInv => OneSyncJobPerEnquiry
  BY DEF IInv
<1>2. QED
  BY <1>1, Invariance, PTL

\* An answer is about the client's own submission or about one sent under its key.
THEOREM AnswersStayWithTheirKey == Spec => []AnswerMatchesSubmission
<1>1. IInv => AnswerMatchesSubmission
  BY DEF IInv
<1>2. QED
  BY <1>1, Invariance, PTL
-----------------------------------------------------------------------------
(***************************************************************************)
(* Replays                                                                 *)
(***************************************************************************)
\* A request that lost the claim is told, status included, what a request with
\* the same key was told before.
THEOREM ReplaysAreFaithful == Spec => ReplayRepeatsAnswer
<1> DEFINE Replayed(r) ==
      pc[r] = "lookup" /\ pc'[r] = "done" =>
        \E q \in Requests \ {r} :
          Answered(q) /\ KeyOf(q) = KeyOf(r) /\ outcome[q] = outcome'[r]
<1>1. ASSUME IInv, [Next]_vars, NEW r \in Requests
      PROVE  Replayed(r)
  <2> SUFFICES ASSUME pc[r] = "lookup", pc'[r] = "done"
               PROVE  \E q \in Requests \ {r} :
                        Answered(q) /\ KeyOf(q) = KeyOf(r) /\ outcome[q] = outcome'[r]
    OBVIOUS
  <2>1. Lookup(r)
    <3>1. ~ UNCHANGED pc
      OBVIOUS
    <3>2. ASSUME NEW q \in Requests, Send(q) \/ Throttle(q) \/ CacheAnswer(q)
          PROVE  FALSE
      BY <1>1, <3>2 DEF Send, Throttle, CacheAnswer, Goto, IInv, TypeOK
    <3>3. ASSUME NEW q \in Requests, Progress(q)
          PROVE  Lookup(r)
      BY <1>1, <3>3 DEF Progress, Claiming, Claim, Lookup, Validate, Begin, CheckProperty,
         Insert, Commit, Rollback, EnqueueCrm, EnqueueEmail, Respond, Goto, IInv, TypeOK
    <3>4. ASSUME NEW q \in Requests, DatabaseFailure(q) \/ RedisFailure(q)
          PROVE  FALSE
      BY <1>1, <3>4 DEF DatabaseFailure, RedisFailure, ConnectFails, QueryFails, CommitReplyLost,
         ClaimResent, StoreUnavailable, EnqueueResent, EnqueueFails, CacheLost, requestVars, Goto,
         IInv, TypeOK
    <3>5. ASSUME NEW i \in Instances, Crash(i)
          PROVE  FALSE
      BY <3>5 DEF Crash
    <3>6. ASSUME NEW k, Expire(k) \/ SetPublication(k)
          PROVE  FALSE
      BY <3>6 DEF Expire, SetPublication, requestVars
    <3>7. QED
      BY <1>1, <3>2, <3>3, <3>4, <3>5, <3>6 DEF Next, vars, requestVars
  <2>2. QED
    BY <1>1, <2>1, LookupCases DEF IInv, TypeOK
<1>2. IInv /\ [Next]_vars => [\A r \in Requests : Replayed(r)]_vars
  BY <1>1
<1>3. QED
  BY <1>2, Invariance, PTL DEF Spec, ReplayRepeatsAnswer
-----------------------------------------------------------------------------
(***************************************************************************)
(* The service implements the register                                     *)
(***************************************************************************)
\* Given once and for good: what an answered request was told does not change.
AnswersStay(r) ==
  \A q \in Requests \ {r} :
    Answered(q)' = Answered(q) /\ (Answered(q) => outcome'[q] = outcome[q])

\* A step that answers nobody and commits nothing is a stutter of the register.
LEMMA RegisterUndisturbed ==
  ASSUME NEW r, AnswersStay(r), ~ Answered(r), ~ Answered(r)', UNCHANGED rows
  PROVE  UNCHANGED Register!vars
  BY DEF AnswersStay, Register!vars

\* Answering a request is the register's Reply, because the answer is truthful.
LEMMA ReplyStep ==
  ASSUME IInv', NEW r \in Requests, AnswersStay(r), ~ Answered(r), Answered(r)', UNCHANGED rows
  PROVE  Register!Next
<1>1. Sound(outcome[r])'
  BY DEF IInv, AnswersAreSound, Answered
<1>2. outcome'[r] \in Register!Answer /\ Register!Truthful(outcome'[r], rows)
  BY <1>1 DEF Sound, Answer, Kinds, Register!Answer, Register!Kinds
<1>3. QED
  BY <1>2 DEF AnswersStay, Register!Reply, Register!Next

\* A COMMIT is the register's Register, because the row is new.
LEMMA RegisterStep ==
  ASSUME IInv, NEW r \in Requests, Uncommitted(r), rows' = rows \cup {row[r]},
         \A q \in Requests : Answered(q)' = Answered(q) /\ (Answered(q) => outcome'[q] = outcome[q])
  PROVE  Register!Next
<1>1. row[r] \in Register!Enquiry
  BY DEF IInv, TypeOK, Uncommitted, Row, Register!Enquiry
<1>2. Register!Register(row[r])
  BY DEF IInv, TransactionsAreSound, Register!Register
<1>3. QED
  BY <1>1, <1>2 DEF Register!Next

\* Every step is one of the register's or a stutter.
LEMMA RefinementStep ==
  ASSUME IInv, IInv', [Next]_vars
  PROVE  [Register!Next]_Register!vars
<1>1. ASSUME NEW r \in Requests, Throttle(r) \/ Lookup(r) \/ Respond(r)
      PROVE  [Register!Next]_Register!vars
  <2>1. AnswersStay(r) /\ ~ Answered(r) /\ UNCHANGED rows
    BY <1>1 DEF Throttle, Lookup, Respond, Goto, Decide, dbVars, AnswersStay, Answered, IInv, TypeOK
  <2>2. QED
    BY <2>1, RegisterUndisturbed, ReplyStep
<1>2. ASSUME NEW r \in Requests, Commit(r) \/ CommitReplyLost(r)
      PROVE  [Register!Next]_Register!vars
  <2>1. Uncommitted(r) /\ rows' = rows \cup {row[r]}
    BY <1>2 DEF Commit, CommitReplyLost, Goto, IInv, TransactionsAreSound
  <2>2. \A q \in Requests : Answered(q)' = Answered(q) /\ (Answered(q) => outcome'[q] = outcome[q])
    BY <1>2 DEF Commit, CommitReplyLost, Goto, Decide, Answered, IInv, TypeOK
  <2>3. QED
    BY <2>1, <2>2, RegisterStep
<1>3. ASSUME NEW r \in Requests,
             \/ Send(r) \/ Claiming(r) \/ Validate(r) \/ Begin(r) \/ CheckProperty(r) \/ Insert(r)
             \/ Rollback(r) \/ EnqueueCrm(r) \/ EnqueueEmail(r)
      PROVE  UNCHANGED Register!vars
  <2>1. AnswersStay(r) /\ ~ Answered(r) /\ ~ Answered(r)' /\ UNCHANGED rows
    BY <1>3 DEF Send, Claiming, Claim, Validate, Begin, CheckProperty, Insert, Rollback, EnqueueCrm,
       EnqueueEmail, Goto, Decide, dbVars, AnswersStay, Answered, IInv, TypeOK
  <2>2. QED
    BY <2>1, RegisterUndisturbed
<1>4. ASSUME NEW r \in Requests,
             \/ ClaimResent(r) \/ StoreUnavailable(r) \/ ConnectFails(r) \/ QueryFails(r)
             \/ EnqueueFails(r) \/ EnqueueResent(r)
      PROVE  UNCHANGED Register!vars
  <2>1. AnswersStay(r) /\ ~ Answered(r) /\ ~ Answered(r)' /\ UNCHANGED rows
    BY <1>4 DEF ClaimResent, StoreUnavailable, ConnectFails, QueryFails, EnqueueFails,
       EnqueueResent,
       requestVars, Goto, Decide, dbVars, AnswersStay, Answered, IInv, TypeOK
  <2>2. QED
    BY <2>1, RegisterUndisturbed
<1>5. ASSUME UNCHANGED <<pc, outcome, rows>>
      PROVE  UNCHANGED Register!vars
  BY <1>5 DEF Register!vars, Answered
<1>6. ASSUME NEW i \in Instances, Crash(i)
      PROVE  UNCHANGED Register!vars
  BY <1>6 DEF Crash, InFlight, Answered, Register!vars
<1>7. ASSUME NEW r, CacheAnswer(r) \/ CacheLost(r) \/ Expire(r) \/ SetPublication(r)
      PROVE  UNCHANGED <<pc, outcome, rows>>
  BY <1>7 DEF CacheAnswer, CacheLost, Expire, SetPublication, requestVars, dbVars
<1>8. CASE Next
  BY <1>1, <1>2, <1>3, <1>4, <1>5, <1>6, <1>7, <1>8
  DEF Next, Progress, DatabaseFailure, RedisFailure
<1>9. QED
  BY <1>5, <1>8 DEF vars, requestVars, dbVars

\* POST /api/enquiry with all its middleware, transactions, queues, failures and
\* crashes implements the register: every state change is one of the register's.
THEOREM Implementation == Spec => ImplementsRegister
<1>1. Init => Register!Init
  BY DEF Init, Register!Init
<1>2. IInv /\ IInv' /\ [Next]_vars => [Register!Next]_Register!vars
  BY RefinementStep
<1>3. QED
  BY <1>1, <1>2, Invariance, PTL DEF Spec, ImplementsRegister, Register!Spec
=============================================================================
