----------------------------- MODULE CrmSyncProofs -----------------------------
(***************************************************************************)
(* Proofs about CrmSync: its safety properties, for any number of          *)
(* enquiries, worker processes and calls, any concurrency, any number of   *)
(* attempts and stalls and any number of crashes and deployments.          *)
(***************************************************************************)
EXTENDS CrmSyncProperties, FiniteSetTheorems, TLAPS

-----------------------------------------------------------------------------
(* The inductive invariant *)

\* What a call has got so far depends on the await it stands at; a call that is in
\* the log as received carries a valid signature.
CallsAreOrdered ==
  \A c \in Calls :
    /\ at[c] # "idle" => body[c] \in Body
    /\ at[c] \in {"idle", "arrived"} => audit[c] = "none"
    /\ at[c] \in {"select", "update"} => audit[c] = "received"
    /\ at[c] # "done" => reply[c] = "none"
    /\ audit[c] = "received" => body[c].signed

\* An execution marks with a record that was pushed for its enquiry, and returns
\* when the row has a record.
ExecutionsAreSound ==
  \A s \in Slots :
    /\ slot[s].at = "marking" =>
         slot[s].record \in {slot[s].enquiry} \X (1 .. pushes[slot[s].enquiry])
    /\ slot[s].at = "completing" => link[slot[s].enquiry].record # NoRecord

\* The executions that may still push.
Pushing(e) == {s \in Slots : slot[s].at = "pushing" /\ slot[s].enquiry = e}

\* Each time a job is taken costs it an attempt or a stall, apart from the last.
Counted(e) ==
  LET used == pushes[e] + Cardinality(Pushing(e))
      spent == job[e].attemptsMade + job[e].stalls
  IN /\ IsFiniteSet(Pushing(e))
     /\ job[e].state = "none" => used = 0 /\ spent = 0
     /\ job[e].state \in {"waiting", "delayed"} => used <= spent
     /\ job[e].state \in {"active", "completed"} => used <= spent + 1
     /\ job[e].state = "failed" => used <= spent /\ spent <= Attempts + MaxStalled
     /\ job[e].state # "failed" => job[e].attemptsMade < Attempts /\ job[e].stalls <= MaxStalled

PushesAreCounted == \A e \in Enquiries : Counted(e)

\* The processes that have not handled the failure of e's job yet.
Hearing(e) == {w \in Workers : e \in undelivered[w]}

HeardOnce(e) ==
  /\ deadLetters[e] + Cardinality(Hearing(e)) <= Cardinality(Workers)
  /\ deadLetters[e] > 0 \/ Hearing(e) # {} => job[e].state = "failed"

FailuresAreHeardOnce == \A e \in Enquiries : HeardOnce(e)

IInv ==
  /\ TypeOK
  /\ CallsAreOrdered
  /\ AnswersMatchAudit
  /\ ExecutionsAreSound
  /\ LinksAreVouchedFor
  /\ CompletedIsSynced
  /\ PushesAreCounted
  /\ FailuresAreHeardOnce

USE ConstantsAssumption

LEMMA InitOK == Init => IInv
<1> SUFFICES ASSUME Init PROVE IInv
  OBVIOUS
<1>1. TypeOK
  BY DEF Init, TypeOK, Link, Job, JobStates, Statuses, Records, Idle, Replies
<1>2. CallsAreOrdered /\ AnswersMatchAudit
  BY DEF Init, CallsAreOrdered, AnswersMatchAudit
<1>3. ExecutionsAreSound /\ LinksAreVouchedFor /\ CompletedIsSynced
  BY DEF Init, ExecutionsAreSound, LinksAreVouchedFor, CompletedIsSynced, Idle
<1>4. PushesAreCounted
  <2>1. \A e \in Enquiries : Pushing(e) = {}
    BY DEF Init, Pushing, Idle
  <2>2. ASSUME NEW e \in Enquiries
        PROVE  /\ IsFiniteSet(Pushing(e)) /\ Cardinality(Pushing(e)) = 0
               /\ pushes[e] = 0 /\ job[e].state = "none"
               /\ job[e].attemptsMade = 0 /\ job[e].stalls = 0
    BY <2>1, FS_EmptySet DEF Init
  <2> QED BY <2>2 DEF PushesAreCounted, Counted
<1>5. FailuresAreHeardOnce
  <2>1. \A e \in Enquiries : Hearing(e) = {}
    BY DEF Init, Hearing
  <2>2. \A e \in Enquiries : Cardinality(Hearing(e)) = 0 /\ deadLetters[e] = 0
    BY <2>1, FS_EmptySet DEF Init
  <2>3. Cardinality(Workers) \in Nat
    BY FS_CardinalityType
  <2> QED BY <2>1, <2>2, <2>3 DEF FailuresAreHeardOnce, HeardOnce
<1> QED BY <1>1, <1>2, <1>3, <1>4, <1>5 DEF IInv

-----------------------------------------------------------------------------
(* Types *)

LEMMA SlotOfWorker == \A s \in Slots, w \in Workers : s \in SlotsOf(w) <=> s[1] = w
BY DEF Slots, SlotsOf

LEMMA ExecutingSlot ==
  ASSUME TypeOK, NEW s \in Slots, slot[s].at # "idle"
  PROVE  slot[s] \in Execution /\ slot[s] # Idle /\ slot[s].enquiry \in Enquiries
         /\ s[1] \in Workers /\ process[s[1]] # "down"
BY DEF TypeOK, Idle, Execution, Slots

LEMMA JobChange ==
  ASSUME TypeOK, NEW e \in Enquiries, NEW j \in Job, j.state = "active" <=> j.owner \in Slots,
         job' = [job EXCEPT ![e] = j]
  PROVE  /\ job' \in [Enquiries -> Job]
         /\ \A d \in Enquiries : job'[d].state = "active" <=> job'[d].owner \in Slots
BY DEF TypeOK

\* What the failure of an execution makes of its job.
LEMMA Failed ==
  ASSUME TypeOK, NEW s \in Slots, Fail(s), NEW e, e = slot[s].enquiry
  PROVE  /\ e \in Enquiries
         /\ \/ UNCHANGED <<job, undelivered>>
            \/ /\ job[e].state = "active"
               /\ job'[e].state = IF job[e].attemptsMade + 1 < Attempts THEN "delayed" ELSE "failed"
               /\ job'[e].state \in {"delayed", "failed"}
               /\ job'[e].attemptsMade = job[e].attemptsMade + 1
               /\ job'[e].stalls = job[e].stalls
               /\ \A d \in Enquiries : d # e => job'[d] = job[d]
               /\ Announce(e, job'[e].state)
<1>1. e \in Enquiries
  BY ExecutingSlot DEF Fail, Leave
<1>2. CASE UNCHANGED <<job, undelivered>>
  BY <1>1, <1>2
<1>3. CASE Owns(s)
  <2> DEFINE next == IF AttemptsAfter(e) < Attempts THEN "delayed" ELSE "failed"
  <2>1. /\ job[e].state = "active" /\ job[e] \in Job
        /\ job' = [job EXCEPT ![e] = [job[e] EXCEPT !.state = next, !.owner = NoSlot,
                                                    !.attemptsMade = AttemptsAfter(e)]]
        /\ Announce(e, next)
    BY <1>1, <1>3 DEF TypeOK, Fail, Owns
  <2>2. next = IF job[e].attemptsMade + 1 < Attempts THEN "delayed" ELSE "failed"
    BY DEF AttemptsAfter
  <2> HIDE DEF next
  <2>3. /\ job'[e].state = next /\ job'[e].attemptsMade = AttemptsAfter(e)
        /\ job'[e].stalls = job[e].stalls
        /\ \A d \in Enquiries : d # e => job'[d] = job[d]
    BY <1>1, <2>1 DEF TypeOK, Job
  <2> QED BY <1>1, <2>1, <2>2, <2>3 DEF AttemptsAfter
<1> QED BY <1>2, <1>3 DEF Fail

\* What a lost lock makes of its job.
LEMMA Stalled ==
  ASSUME TypeOK, NEW e \in Enquiries, Stall(e)
  PROVE  /\ job[e].state = "active"
         /\ job'[e].state = IF job[e].stalls < MaxStalled THEN "waiting" ELSE "failed"
         /\ job'[e].attemptsMade = job[e].attemptsMade
         /\ job'[e].stalls = job[e].stalls + 1
         /\ \A d \in Enquiries : d # e => job'[d] = job[d]
         /\ Announce(e, job'[e].state)
<1> DEFINE next == IF job[e].stalls < MaxStalled THEN "waiting" ELSE "failed"
<1>1. /\ job[e].state = "active" /\ job[e] \in Job
      /\ job' = [job EXCEPT ![e].state = next, ![e].owner = NoSlot, ![e].stalls = job[e].stalls + 1]
      /\ Announce(e, next)
  BY DEF TypeOK, Stall
<1> HIDE DEF next
<1>2. /\ job'[e].state = next /\ job'[e].stalls = job[e].stalls + 1
      /\ job'[e].attemptsMade = job[e].attemptsMade
      /\ \A d \in Enquiries : d # e => job'[d] = job[d]
  BY <1>1 DEF TypeOK, Job
<1> QED BY <1>1, <1>2 DEF next

LEMMA JobTypes ==
  ASSUME TypeOK, NEW e \in Enquiries,
         \/ Commit(e) \/ AddJob(e) \/ Promote(e) \/ Stall(e)
  PROVE  TypeOK'
<1>1. CASE Commit(e)
  BY <1>1 DEF TypeOK, Commit, workerVars, queueVars, callVars
<1>2. CASE AddJob(e)
  BY <1>2 DEF TypeOK, AddJob, Job, JobStates, workerVars, queueVars, callVars
<1>3. CASE Promote(e)
  BY <1>3 DEF TypeOK, Promote, Job, JobStates, workerVars, queueVars, callVars
<1>4. CASE Stall(e)
  <2> DEFINE next == IF job[e].stalls < MaxStalled THEN "waiting" ELSE "failed"
             j == [job[e] EXCEPT !.state = next, !.owner = NoSlot, !.stalls = @ + 1]
  <2>1. j \in Job /\ j.state # "active" /\ j.owner \notin Slots
    <3>1. job[e] \in Job
      BY DEF TypeOK
    <3>2. next \in JobStates /\ next # "active" /\ job[e].stalls + 1 \in Nat
      BY <3>1 DEF Job, JobStates
    <3> HIDE DEF next
    <3> QED BY <3>1, <3>2 DEF Job
  <2>2. job' = [job EXCEPT ![e] = j] /\ Announce(e, next)
    BY <1>4 DEF TypeOK, Stall
  <2> HIDE DEF next, j
  <2>3. /\ job' \in [Enquiries -> Job]
        /\ \A d \in Enquiries : job'[d].state = "active" <=> job'[d].owner \in Slots
    BY <2>1, <2>2, JobChange
  <2>4. undelivered' \in [Workers -> SUBSET Enquiries]
    BY <2>2 DEF TypeOK, Announce
  <2> QED BY <1>4, <2>3, <2>4 DEF TypeOK, Stall, callVars
<1> QED BY <1>1, <1>2, <1>3, <1>4

LEMMA SlotTypes ==
  ASSUME TypeOK, NEW s \in Slots, Execute(s) \/ \E e \in Enquiries : Take(s, e)
  PROVE  TypeOK'
<1> DEFINE e == slot[s].enquiry
<1>1. CASE \E d \in Enquiries : Take(s, d)
  BY <1>1 DEF TypeOK, Take, Job, JobStates, Execution, Idle, callVars
<1>2. CASE Push(s)
  <2>1. slot[s] \in Execution /\ e \in Enquiries /\ process[s[1]] # "down"
    BY <1>2, ExecutingSlot DEF Push
  <2>2. <<e, pushes[e] + 1>> \in Records
    BY <2>1 DEF TypeOK, Records, PushRecords
  <2>3. slot' \in [Slots -> Execution \cup {Idle}] /\ pushes' \in [Enquiries -> Nat]
    <3>1. [slot[s] EXCEPT !.at = "marking", !.record = <<e, pushes[e] + 1>>] \in Execution
      BY <2>1, <2>2 DEF Execution
    <3> QED BY <1>2, <2>1, <3>1 DEF TypeOK, Push
  <2>4. \A t \in Slots : slot'[t] # Idle => process'[t[1]] # "down"
    BY <1>2, <2>1 DEF TypeOK, Push
  <2> QED BY <1>2, <2>3, <2>4 DEF TypeOK, Push, queueVars, callVars
<1>3. CASE PushFails(s)
  <2>1. slot[s] \in Execution /\ process[s[1]] # "down"
    BY <1>3, ExecutingSlot DEF PushFails, Move
  <2> QED BY <1>3, <2>1 DEF TypeOK, PushFails, Move, Execution, queueVars, callVars
<1>4. CASE Mark(s) \/ MarkFails(s)
  <2>1. slot[s] \in Execution /\ e \in Enquiries /\ process[s[1]] # "down"
    BY <1>4, ExecutingSlot DEF Mark, MarkFails, Move
  <2>2. slot' \in [Slots -> Execution \cup {Idle}]
    BY <1>4, <2>1 DEF TypeOK, Mark, MarkFails, Move, Execution
  <2>3. \A t \in Slots : slot'[t] # Idle => process'[t[1]] # "down"
    BY <1>4, <2>1 DEF TypeOK, Mark, MarkFails, Move
  <2>4. link' \in [Enquiries -> Link]
    BY <1>4, <2>1 DEF TypeOK, Mark, MarkFails, MarkCrmSynced, Link, Execution
  <2> QED BY <1>4, <2>2, <2>3, <2>4 DEF TypeOK, Mark, MarkFails, Move, queueVars, callVars
<1>5. CASE Complete(s)
  <2>1. e \in Enquiries
    BY <1>5, ExecutingSlot DEF Complete, Leave
  <2>2. job' \in [Enquiries -> Job] /\ \A d \in Enquiries : job'[d].state = "active" <=> job'[d].owner \in Slots
    <3>1. CASE Owns(s)
      <4> DEFINE j == [job[e] EXCEPT !.state = "completed", !.owner = NoSlot]
      <4>1. j \in Job /\ j.state # "active" /\ j.owner \notin Slots
        <5>1. job[e] \in Job
          BY <2>1 DEF TypeOK
        <5> QED BY <5>1 DEF Job, JobStates
      <4>2. job' = [job EXCEPT ![e] = j]
        BY <1>5, <3>1 DEF Complete
      <4> HIDE DEF j, e
      <4> QED BY <2>1, <4>1, <4>2, JobChange
    <3>2. CASE ~Owns(s)
      BY <1>5, <3>2 DEF TypeOK, Complete
    <3> QED BY <3>1, <3>2
  <2> QED BY <1>5, <2>2 DEF TypeOK, Complete, Leave, callVars
<1>6. CASE Fail(s)
  <2>1. e \in Enquiries
    BY <1>6, ExecutingSlot DEF Fail, Leave
  <2>2. job' \in [Enquiries -> Job] /\ \A d \in Enquiries : job'[d].state = "active" <=> job'[d].owner \in Slots
    <3>1. CASE Owns(s)
      <4> DEFINE next == IF AttemptsAfter(e) < Attempts THEN "delayed" ELSE "failed"
                 j == [job[e] EXCEPT !.state = next, !.owner = NoSlot,
                                     !.attemptsMade = AttemptsAfter(e)]
      <4>1. j \in Job /\ j.state # "active" /\ j.owner \notin Slots
        <5>1. job[e] \in Job
          BY <2>1 DEF TypeOK
        <5>2. next \in JobStates /\ next # "active" /\ AttemptsAfter(e) \in Nat
          BY <5>1 DEF Job, JobStates, AttemptsAfter
        <5> HIDE DEF next, e
        <5> QED BY <5>1, <5>2 DEF Job
      <4>2. job' = [job EXCEPT ![e] = j]
        BY <1>6, <3>1 DEF Fail
      <4> HIDE DEF j, e
      <4> QED BY <2>1, <4>1, <4>2, JobChange
    <3>2. CASE ~Owns(s)
      BY <1>6, <3>2 DEF TypeOK, Fail
    <3> QED BY <3>1, <3>2
  <2>3. undelivered' \in [Workers -> SUBSET Enquiries]
    BY <1>6, <2>1 DEF TypeOK, Fail, Announce
  <2> QED BY <1>6, <2>2, <2>3 DEF TypeOK, Fail, Leave, callVars
<1> QED BY <1>1, <1>2, <1>3, <1>4, <1>5, <1>6 DEF Execute

LEMMA WorkerTypes ==
  ASSUME TypeOK, NEW w \in Workers,
         \/ Crash(w) \/ Shutdown(w) \/ Exit(w) \/ Restart(w)
         \/ \E e \in Enquiries : SendToDeadLetter(w, e)
  PROVE  TypeOK'
<1>1. CASE Crash(w)
  BY <1>1, SlotOfWorker DEF TypeOK, Crash, Slots, queueVars, callVars
<1>2. CASE Shutdown(w)
  BY <1>2 DEF TypeOK, Shutdown, queueVars, callVars
<1>3. CASE Exit(w)
  BY <1>3, SlotOfWorker DEF TypeOK, Exit, Slots, queueVars, callVars
<1>4. CASE Restart(w)
  BY <1>4 DEF TypeOK, Restart, queueVars, callVars
<1>5. CASE \E e \in Enquiries : SendToDeadLetter(w, e)
  BY <1>5 DEF TypeOK, SendToDeadLetter, callVars
<1> QED BY <1>1, <1>2, <1>3, <1>4, <1>5

LEMMA CallTypes ==
  ASSUME TypeOK, CallsAreOrdered, NEW c \in Calls,
         Receive(c) \/ Refuse(c) \/ Handling(c) \/ QueryFails(c) \/ Drop(c)
  PROVE  TypeOK'
<1>1. CASE Receive(c)
  BY <1>1 DEF TypeOK, Receive, Step, queueVars, workerVars
<1>2. CASE Refuse(c)
  BY <1>2 DEF TypeOK, Refuse, Step, Answer, Replies, queueVars, workerVars
<1>3. CASE LogWebhookEvent(c)
  BY <1>3 DEF TypeOK, LogWebhookEvent, Step, Answer, Replies, queueVars, workerVars
<1>4. CASE FindEnquiry(c)
  BY <1>4 DEF TypeOK, FindEnquiry, Step, Answer, Replies, queueVars, workerVars
<1>5. CASE Apply(c)
  <2>1. link' \in [Enquiries -> Link]
    BY <1>5 DEF TypeOK, CallsAreOrdered, Apply, Step, MarkCrmSynced, Link, Body, Records
  <2> QED BY <1>5, <2>1 DEF TypeOK, Apply, Step, Answer, Replies, queueVars, workerVars
<1>6. CASE QueryFails(c)
  <2>1. link' \in [Enquiries -> Link]
    BY <1>6 DEF TypeOK, CallsAreOrdered, QueryFails, Step, MarkCrmSynced, Link, Body, Records
  <2>2. at' \in [Calls -> {"idle", "arrived", "select", "update", "done", "dropped"}]
    BY <1>6 DEF TypeOK, QueryFails, Step
  <2>3. audit' \in [Calls -> {"none", "received", "rejected"}]
    BY <1>6 DEF TypeOK, QueryFails
  <2> QED BY <1>6, <2>1, <2>2, <2>3 DEF TypeOK, QueryFails, Answer, Replies, queueVars, workerVars
<1>7. CASE Drop(c)
  BY <1>7 DEF TypeOK, Drop, queueVars, workerVars
<1> QED BY <1>1, <1>2, <1>3, <1>4, <1>5, <1>6, <1>7 DEF Handling

-----------------------------------------------------------------------------
(* Calls and what they vouch for *)

LEMMA CallsKept ==
  ASSUME CallsAreOrdered, AnswersMatchAudit, UNCHANGED <<audit, callVars>>
  PROVE  (CallsAreOrdered /\ AnswersMatchAudit)'
BY DEF CallsAreOrdered, AnswersMatchAudit, callVars

\* A call moves on by one await, and its entry in the log is made once.
LEMMA CallSteps ==
  ASSUME TypeOK, CallsAreOrdered, AnswersMatchAudit, NEW c \in Calls,
         Receive(c) \/ Refuse(c) \/ Handling(c) \/ QueryFails(c) \/ Drop(c)
  PROVE  (CallsAreOrdered /\ AnswersMatchAudit)'
<1>1. CASE Receive(c)
  BY <1>1 DEF TypeOK, Receive, Step, CallsAreOrdered, AnswersMatchAudit
<1>2. CASE Refuse(c)
  BY <1>2 DEF TypeOK, Refuse, Step, Answer, CallsAreOrdered, AnswersMatchAudit
<1>3. CASE LogWebhookEvent(c)
  BY <1>3 DEF TypeOK, LogWebhookEvent, SignatureValid, Step, Answer, CallsAreOrdered, AnswersMatchAudit
<1>4. CASE FindEnquiry(c)
  BY <1>4 DEF TypeOK, FindEnquiry, Step, Answer, CallsAreOrdered, AnswersMatchAudit
<1>5. CASE Apply(c)
  BY <1>5 DEF TypeOK, Apply, Step, Answer, CallsAreOrdered, AnswersMatchAudit
<1>6. CASE QueryFails(c)
  BY <1>6 DEF TypeOK, QueryFails, SignatureValid, Step, Answer, CallsAreOrdered, AnswersMatchAudit
<1>7. CASE Drop(c)
  BY <1>7 DEF TypeOK, Drop, CallsAreOrdered, AnswersMatchAudit
<1> QED BY <1>1, <1>2, <1>3, <1>4, <1>5, <1>6, <1>7 DEF Handling

\* What is vouched for once, stays so.
VouchingStays ==
  \A c \in Calls, e \in Enquiries : Vouched(c, e) => Vouched(c, e)' /\ body'[c] = body[c]

LEMMA VouchingKept == UNCHANGED <<audit, callVars>> => VouchingStays
BY DEF VouchingStays, Vouched, callVars

LEMMA VouchingSteps ==
  ASSUME TypeOK, CallsAreOrdered, NEW c \in Calls,
         Receive(c) \/ Refuse(c) \/ Handling(c) \/ QueryFails(c) \/ Drop(c)
  PROVE  VouchingStays
<1>1. CASE Receive(c)
  BY <1>1 DEF TypeOK, Receive, Step, CallsAreOrdered, VouchingStays, Vouched
<1>2. CASE Refuse(c) \/ FindEnquiry(c) \/ Apply(c) \/ Drop(c)
  BY <1>2 DEF Refuse, FindEnquiry, Apply, Drop, VouchingStays, Vouched
<1>3. CASE LogWebhookEvent(c)
  BY <1>3 DEF TypeOK, LogWebhookEvent, Step, CallsAreOrdered, VouchingStays, Vouched
<1>4. CASE QueryFails(c)
  BY <1>4 DEF TypeOK, QueryFails, Step, CallsAreOrdered, VouchingStays, Vouched
<1> QED BY <1>1, <1>2, <1>3, <1>4 DEF Handling

-----------------------------------------------------------------------------
(* Rows *)

RowInv == ExecutionsAreSound /\ LinksAreVouchedFor /\ CompletedIsSynced

\* A row is written with a record pushed for it or with what a vouched call says.
LEMMA LinkStep ==
  ASSUME LinksAreVouchedFor, VouchingStays,
         \A e \in Enquiries : pushes[e] \in Nat /\ pushes'[e] \in Nat /\ pushes'[e] >= pushes[e],
         \A e \in Enquiries :
           \/ link'[e] = link[e]
           \/ /\ link'[e].record \in {e} \X (1 .. pushes'[e])
              /\ link'[e].status = link[e].status
           \/ \E c \in Calls : /\ Vouched(c, e)'
                               /\ body'[c].record = link'[e].record
                               /\ link'[e].status \in {link[e].status, body'[c].status}
  PROVE  LinksAreVouchedFor'
<1> SUFFICES ASSUME NEW e \in Enquiries
             PROVE  /\ link'[e].record # NoRecord =>
                         \/ link'[e].record \in {e} \X (1 .. pushes'[e])
                         \/ \E c \in Calls : Vouched(c, e)' /\ body'[c].record = link'[e].record
                    /\ link'[e].status # "new" =>
                         \E c \in Calls : Vouched(c, e)' /\ body'[c].status = link'[e].status
  BY DEF LinksAreVouchedFor
<1>1. /\ link[e].record # NoRecord =>
           \/ link[e].record \in {e} \X (1 .. pushes'[e])
           \/ \E c \in Calls : Vouched(c, e)' /\ body'[c].record = link[e].record
      /\ link[e].status # "new" =>
           \E c \in Calls : Vouched(c, e)' /\ body'[c].status = link[e].status
  BY DEF LinksAreVouchedFor, VouchingStays
<1> QED BY <1>1

\* A row that has a record never loses it, whoever writes.
LEMMA RecordsStay ==
  ASSUME TypeOK, NEW e \in Enquiries, NEW r \in Records, NEW status,
         MarkCrmSynced(e, r, status)
  PROVE  /\ \A d \in Enquiries : d # e => link'[d] = link[d]
         /\ link'[e].record = r
         /\ link'[e].status = IF status = NoStatus THEN link[e].status ELSE status
         /\ \A d \in Enquiries : link[d].record # NoRecord => link'[d].record # NoRecord
BY DEF TypeOK, MarkCrmSynced, Link

LEMMA RowsKept ==
  ASSUME RowInv, VouchingStays, UNCHANGED <<link, slot, pushes>>, TypeOK,
         \A e \in Enquiries : job'[e].state = "completed" => job[e].state = "completed"
  PROVE  RowInv'
<1>1. LinksAreVouchedFor'
  BY LinkStep DEF RowInv, TypeOK
<1> QED BY <1>1 DEF RowInv, ExecutionsAreSound, CompletedIsSynced

LEMMA JobRows ==
  ASSUME TypeOK, RowInv, NEW e \in Enquiries,
         \/ Commit(e) \/ AddJob(e) \/ Promote(e) \/ Stall(e)
  PROVE  RowInv'
<1>1. UNCHANGED <<link, slot, pushes, audit, callVars>>
  BY DEF Commit, AddJob, Promote, Stall, workerVars
<1>2. \A d \in Enquiries : job'[d].state = "completed" => job[d].state = "completed"
  <2>1. CASE Commit(e)
    BY <2>1 DEF Commit, queueVars
  <2>2. CASE AddJob(e) \/ Promote(e)
    BY <2>2 DEF TypeOK, Job, AddJob, Promote
  <2>3. CASE Stall(e)
    BY <2>3 DEF TypeOK, Job, Stall
  <2> QED BY <2>1, <2>2, <2>3
<1> QED BY <1>1, <1>2, VouchingKept, RowsKept

LEMMA WorkerRows ==
  ASSUME TypeOK, RowInv, NEW w \in Workers,
         \/ Crash(w) \/ Shutdown(w) \/ Exit(w) \/ Restart(w)
         \/ \E e \in Enquiries : SendToDeadLetter(w, e)
  PROVE  RowInv'
<1>1. UNCHANGED <<link, pushes, audit, callVars, job>>
  BY DEF Crash, Shutdown, Exit, Restart, SendToDeadLetter, queueVars
<1>2. \A s \in Slots : slot'[s] \in {slot[s], Idle}
  BY DEF Crash, Shutdown, Exit, Restart, SendToDeadLetter
<1>3. LinksAreVouchedFor'
  BY <1>1, VouchingKept, LinkStep DEF RowInv, TypeOK
<1>4. ExecutionsAreSound'
  BY <1>1, <1>2 DEF RowInv, ExecutionsAreSound, Idle
<1> QED BY <1>1, <1>3, <1>4 DEF RowInv, CompletedIsSynced

LEMMA CallRows ==
  ASSUME TypeOK, CallsAreOrdered, RowInv, NEW c \in Calls,
         Receive(c) \/ Refuse(c) \/ Handling(c) \/ QueryFails(c) \/ Drop(c)
  PROVE  RowInv'
<1>0. PICK e : e = body[c].enquiry
  OBVIOUS
<1>1. UNCHANGED <<slot, pushes, job>>
  BY DEF Receive, Refuse, Handling, LogWebhookEvent, FindEnquiry, Apply, QueryFails, Drop,
         workerVars, queueVars
<1>2. VouchingStays
  BY VouchingSteps
<1>3. CASE UNCHANGED link
  BY <1>1, <1>2, <1>3, RowsKept
<1>4. CASE link' # link
  <2>1. /\ at[c] = "update" /\ UNCHANGED <<audit, body>>
        /\ MarkCrmSynced(e, body[c].record, body[c].status)
    BY <1>0, <1>4 DEF Receive, Refuse, Handling, LogWebhookEvent, FindEnquiry, Apply, QueryFails, Drop, Step
  <2>2. Vouched(c, e) /\ e \in Enquiries /\ body[c].record \in Records
    BY <1>0, <2>1 DEF CallsAreOrdered, Vouched, Body, Records
  <2>3. Vouched(c, e)' /\ body' = body
    BY <2>1, <2>2 DEF Vouched
  <2>4. /\ \A d \in Enquiries : d # e => link'[d] = link[d]
        /\ link'[e].record = body[c].record
        /\ link'[e].status \in {link[e].status, body[c].status}
        /\ \A d \in Enquiries : link[d].record # NoRecord => link'[d].record # NoRecord
    BY <2>1, <2>2, RecordsStay
  <2>5. LinksAreVouchedFor'
    <3>1. \A d \in Enquiries :
            \/ link'[d] = link[d]
            \/ \E k \in Calls : /\ Vouched(k, d)'
                                /\ body'[k].record = link'[d].record
                                /\ link'[d].status \in {link[d].status, body'[k].status}
      BY <2>2, <2>3, <2>4
    <3>2. \A d \in Enquiries : pushes[d] \in Nat /\ pushes'[d] \in Nat /\ pushes'[d] >= pushes[d]
      BY <1>1 DEF TypeOK
    <3> QED BY <1>2, <3>1, <3>2, LinkStep DEF RowInv
  <2>6. ExecutionsAreSound'
    BY <1>1, <2>4, ExecutingSlot DEF RowInv, ExecutionsAreSound
  <2>7. CompletedIsSynced'
    BY <1>1, <2>4 DEF RowInv, CompletedIsSynced
  <2> QED BY <2>5, <2>6, <2>7 DEF RowInv
<1> QED BY <1>3, <1>4

LEMMA SlotRows ==
  ASSUME TypeOK, RowInv, NEW s \in Slots, Execute(s) \/ \E d \in Enquiries : Take(s, d)
  PROVE  RowInv'
<1> DEFINE e == slot[s].enquiry
<1>1. UNCHANGED <<audit, callVars>> /\ VouchingStays
  <2>1. UNCHANGED <<audit, callVars>>
    BY DEF Execute, Take, Push, PushFails, Mark, MarkFails, Complete, Fail
  <2> QED BY <2>1, VouchingKept
<1>2. CASE \E d \in Enquiries : Take(s, d)
  <2>1. UNCHANGED <<link, pushes>>
    BY <1>2 DEF Take
  <2>2. \A d \in Enquiries : job'[d].state = "completed" => job[d].state = "completed"
    BY <1>2 DEF TypeOK, Job, Take
  <2>3. ExecutionsAreSound'
    BY <1>2 DEF TypeOK, RowInv, ExecutionsAreSound, Take
  <2>4. LinksAreVouchedFor'
    BY <1>1, <2>1, LinkStep DEF RowInv, TypeOK
  <2> QED BY <2>1, <2>2, <2>3, <2>4 DEF RowInv, CompletedIsSynced
<1>3. CASE Push(s)
  <2>1. e \in Enquiries /\ slot[s] \in Execution
    BY <1>3, ExecutingSlot DEF Push
  <2>2. UNCHANGED <<link, job>>
    BY <1>3 DEF Push, queueVars
  <2>3. /\ slot'[s].at = "marking" /\ slot'[s].enquiry = e /\ slot'[s].record = <<e, pushes[e] + 1>>
        /\ \A t \in Slots : t # s => slot'[t] = slot[t]
    BY <1>3, <2>1 DEF TypeOK, Push, Execution
  <2> HIDE DEF e
  <2>4. /\ pushes'[e] = pushes[e] + 1
        /\ \A d \in Enquiries : pushes[d] \in Nat /\ pushes'[d] \in Nat /\ pushes'[d] >= pushes[d]
    BY <1>3, <2>1 DEF TypeOK, Push, e
  <2>5. ExecutionsAreSound'
    <3>1. ASSUME NEW t \in Slots, t # s, slot'[t].at = "marking"
          PROVE  slot'[t].record \in {slot'[t].enquiry} \X (1 .. pushes'[slot'[t].enquiry])
      <4>1. slot[t].enquiry \in Enquiries
        BY <2>3, <3>1, ExecutingSlot
      <4>2. slot[t].record \in {slot[t].enquiry} \X (1 .. pushes[slot[t].enquiry])
        BY <2>3, <3>1 DEF RowInv, ExecutionsAreSound
      <4> QED BY <2>3, <2>4, <3>1, <4>1, <4>2
    <3>2. slot'[s].record \in {slot'[s].enquiry} \X (1 .. pushes'[slot'[s].enquiry])
      BY <2>1, <2>3, <2>4
    <3>3. ASSUME NEW t \in Slots, slot'[t].at = "completing"
          PROVE  link'[slot'[t].enquiry].record # NoRecord
      BY <2>2, <2>3, <3>3 DEF RowInv, ExecutionsAreSound
    <3> QED BY <3>1, <3>2, <3>3 DEF ExecutionsAreSound
  <2>6. LinksAreVouchedFor'
    BY <1>1, <2>2, <2>4, LinkStep DEF RowInv
  <2> QED BY <2>2, <2>5, <2>6 DEF RowInv, CompletedIsSynced
<1>4. CASE PushFails(s)
  <2>1. UNCHANGED <<link, pushes, job>>
    BY <1>4 DEF PushFails, queueVars
  <2>2. ExecutionsAreSound'
    <3>1. slot[s] \in Execution
      BY <1>4, ExecutingSlot DEF PushFails, Move
    <3> QED BY <1>4, <2>1, <3>1 DEF TypeOK, Execution, PushFails, Move, RowInv, ExecutionsAreSound
  <2>3. LinksAreVouchedFor'
    BY <1>1, <2>1, LinkStep DEF RowInv, TypeOK
  <2> QED BY <2>1, <2>2, <2>3 DEF RowInv, CompletedIsSynced
<1>5. CASE Mark(s) \/ MarkFails(s)
  <2>1. /\ slot[s] \in Execution /\ e \in Enquiries
        /\ slot[s].record \in {e} \X (1 .. pushes[e])
    BY <1>5, ExecutingSlot DEF Mark, MarkFails, Move, RowInv, ExecutionsAreSound
  <2>2. slot[s].record \in Records
    BY <2>1 DEF TypeOK, Records, PushRecords
  <2>3. UNCHANGED <<pushes, job>>
    BY <1>5 DEF Mark, MarkFails, queueVars
  <2>4. /\ slot'[s].at = "completing" => Mark(s)
        /\ slot'[s].at \in {"completing", "failing"}
        /\ slot'[s].enquiry = e
        /\ \A t \in Slots : t # s => slot'[t] = slot[t]
    BY <1>5, <2>1 DEF TypeOK, Execution, Mark, MarkFails, Move
  <2>5. /\ \A d \in Enquiries :
             \/ link'[d] = link[d]
             \/ d = e /\ link'[d].record = slot[s].record /\ link'[d].status = link[d].status
        /\ \A d \in Enquiries : link[d].record # NoRecord => link'[d].record # NoRecord
        /\ Mark(s) => link'[e].record # NoRecord
    <3>1. CASE link' = link /\ ~Mark(s)
      BY <3>1
    <3>2. CASE MarkCrmSynced(e, slot[s].record, NoStatus)
      <4> HIDE DEF e
      <4>1. /\ \A d \in Enquiries : d # e => link'[d] = link[d]
            /\ link'[e].record = slot[s].record
            /\ link'[e].status = link[e].status
            /\ \A d \in Enquiries : link[d].record # NoRecord => link'[d].record # NoRecord
        BY <2>1, <2>2, <3>2, RecordsStay
      <4> QED BY <2>2, <4>1
    <3> QED BY <1>5, <3>1, <3>2 DEF Mark, MarkFails
  <2> HIDE DEF e
  <2>6. LinksAreVouchedFor'
    BY <1>1, <2>1, <2>3, <2>5, LinkStep DEF RowInv, TypeOK
  <2>7. ExecutionsAreSound'
    <3>1. ASSUME NEW t \in Slots, t # s, slot'[t].at = "completing"
          PROVE  link'[slot'[t].enquiry].record # NoRecord
      BY <2>4, <2>5, <3>1, ExecutingSlot DEF RowInv, ExecutionsAreSound
    <3>2. slot'[s].at = "completing" => link'[slot'[s].enquiry].record # NoRecord
      BY <2>4, <2>5
    <3>3. ASSUME NEW t \in Slots, slot'[t].at = "marking"
          PROVE  slot'[t].record \in {slot'[t].enquiry} \X (1 .. pushes'[slot'[t].enquiry])
      BY <2>3, <2>4, <3>3 DEF RowInv, ExecutionsAreSound
    <3> QED BY <3>1, <3>2, <3>3 DEF ExecutionsAreSound
  <2>8. CompletedIsSynced'
    BY <2>3, <2>5 DEF RowInv, CompletedIsSynced
  <2> QED BY <2>6, <2>7, <2>8 DEF RowInv
<1>6. CASE Complete(s) \/ Fail(s)
  <2>1. UNCHANGED <<link, pushes>> /\ slot' = [slot EXCEPT ![s] = Idle] /\ slot[s].at # "idle"
    BY <1>6 DEF Complete, Fail, Leave
  <2>2. e \in Enquiries
    BY <2>1, ExecutingSlot
  <2>3. LinksAreVouchedFor'
    BY <1>1, <2>1, LinkStep DEF RowInv, TypeOK
  <2>4. ExecutionsAreSound'
    BY <2>1 DEF TypeOK, RowInv, ExecutionsAreSound, Idle
  <2>5. CompletedIsSynced'
    <3>1. CASE Complete(s)
      <4>1. link[e].record # NoRecord
        BY <3>1 DEF RowInv, ExecutionsAreSound, Complete, Leave
      <4>2. \A d \in Enquiries : d # e => job'[d] = job[d]
        BY <2>2, <3>1 DEF TypeOK, Complete
      <4> QED BY <2>1, <4>1, <4>2 DEF RowInv, CompletedIsSynced
    <3>2. CASE Fail(s)
      <4>1. \A d \in Enquiries : job'[d].state = "completed" => job[d].state = "completed"
        <5> HIDE DEF e
        <5>1. CASE UNCHANGED job
          BY <5>1
        <5>2. CASE job'[e].state \in {"delayed", "failed"} /\ \A d \in Enquiries : d # e => job'[d] = job[d]
          BY <5>2
        <5> QED BY <3>2, <5>1, <5>2, Failed DEF e
      <4> QED BY <2>1, <4>1 DEF RowInv, CompletedIsSynced
    <3> QED BY <1>6, <3>1, <3>2
  <2> QED BY <2>3, <2>4, <2>5 DEF RowInv
<1> QED BY <1>2, <1>3, <1>4, <1>5, <1>6 DEF Execute

-----------------------------------------------------------------------------
(* Pushes *)

LEMMA PushingShrinks ==
  ASSUME NEW e, IsFiniteSet(Pushing(e)), Pushing(e)' \subseteq Pushing(e)
  PROVE  /\ IsFiniteSet(Pushing(e)') /\ Cardinality(Pushing(e)') <= Cardinality(Pushing(e))
         /\ Cardinality(Pushing(e)) \in Nat /\ Cardinality(Pushing(e)') \in Nat
BY FS_Subset, FS_CardinalityType

\* Nothing that leaves an enquiry's job alone and starts no execution counts.
LEMMA CountedKept ==
  ASSUME TypeOK, TypeOK', NEW e \in Enquiries, Counted(e), Pushing(e)' \subseteq Pushing(e),
         pushes'[e] = pushes[e], job'[e] = job[e]
  PROVE  Counted(e)'
<1>1. /\ IsFiniteSet(Pushing(e)') /\ Cardinality(Pushing(e)') <= Cardinality(Pushing(e))
      /\ Cardinality(Pushing(e)) \in Nat /\ Cardinality(Pushing(e)') \in Nat
  BY PushingShrinks DEF Counted
<1>2. /\ pushes[e] \in Nat /\ job[e].attemptsMade \in Nat /\ job[e].stalls \in Nat
  BY DEF TypeOK, Job
<1> QED BY <1>1, <1>2 DEF Counted

LEMMA JobCounts ==
  ASSUME TypeOK, TypeOK', PushesAreCounted, NEW e \in Enquiries,
         \/ Commit(e) \/ AddJob(e) \/ Promote(e) \/ Stall(e)
  PROVE  PushesAreCounted'
<1>1. UNCHANGED <<slot, pushes>>
  BY DEF Commit, AddJob, Promote, Stall, workerVars
<1>2. \A d \in Enquiries : Pushing(d)' = Pushing(d)
  BY <1>1 DEF Pushing
<1>3. \A d \in Enquiries : d # e => job'[d] = job[d]
  BY Stalled DEF TypeOK, Commit, AddJob, Promote, queueVars
<1>4. \A d \in Enquiries : d # e => Counted(d)'
  BY <1>1, <1>2, <1>3, CountedKept DEF PushesAreCounted
<1>5. /\ pushes[e] \in Nat /\ job[e].attemptsMade \in Nat /\ job[e].stalls \in Nat
      /\ Cardinality(Pushing(e)) \in Nat
  BY FS_CardinalityType DEF TypeOK, Job, PushesAreCounted, Counted
<1>6. Counted(e)
  BY DEF PushesAreCounted
<1>7. Counted(e)'
  <2>1. CASE Commit(e)
    BY <1>1, <1>2, <1>6, <2>1, CountedKept DEF Commit, queueVars
  <2>2. CASE AddJob(e) \/ Promote(e)
    <3>1. /\ job[e].state \in {"none", "delayed"} /\ job'[e].state = "waiting"
          /\ job'[e].attemptsMade = job[e].attemptsMade /\ job'[e].stalls = job[e].stalls
      BY <2>2 DEF TypeOK, Job, AddJob, Promote
    <3> QED BY <1>1, <1>2, <1>5, <1>6, <3>1 DEF Counted
  <2>3. CASE Stall(e)
    <3>1. /\ job[e].state = "active"
          /\ job'[e].state = IF job[e].stalls < MaxStalled THEN "waiting" ELSE "failed"
          /\ job'[e].attemptsMade = job[e].attemptsMade
          /\ job'[e].stalls = job[e].stalls + 1
      BY <2>3, Stalled
    <3> QED BY <1>1, <1>2, <1>5, <1>6, <3>1 DEF Counted
  <2> QED BY <2>1, <2>2, <2>3
<1> QED BY <1>4, <1>7 DEF PushesAreCounted

LEMMA WorkerCounts ==
  ASSUME TypeOK, TypeOK', PushesAreCounted, NEW w \in Workers,
         \/ Crash(w) \/ Shutdown(w) \/ Exit(w) \/ Restart(w)
         \/ \E e \in Enquiries : SendToDeadLetter(w, e)
  PROVE  PushesAreCounted'
<1>1. UNCHANGED <<job, pushes>>
  BY DEF Crash, Shutdown, Exit, Restart, SendToDeadLetter, queueVars
<1>2. \A s \in Slots : slot'[s] \in {slot[s], Idle}
  BY DEF Crash, Shutdown, Exit, Restart, SendToDeadLetter
<1>3. \A d \in Enquiries : Pushing(d)' \subseteq Pushing(d)
  BY <1>2 DEF Pushing, Idle
<1> QED BY <1>1, <1>3, CountedKept DEF PushesAreCounted

LEMMA CallCounts ==
  ASSUME TypeOK, TypeOK', PushesAreCounted, NEW c \in Calls,
         Receive(c) \/ Refuse(c) \/ Handling(c) \/ QueryFails(c) \/ Drop(c)
  PROVE  PushesAreCounted'
<1>1. UNCHANGED <<slot, job, pushes>>
  BY DEF Receive, Refuse, Handling, LogWebhookEvent, FindEnquiry, Apply, QueryFails, Drop,
         workerVars, queueVars
<1>2. \A d \in Enquiries : Pushing(d)' \subseteq Pushing(d)
  BY <1>1 DEF Pushing
<1> QED BY <1>1, <1>2, CountedKept DEF PushesAreCounted

LEMMA SlotCounts ==
  ASSUME TypeOK, TypeOK', PushesAreCounted,
         NEW s \in Slots, Execute(s) \/ \E d \in Enquiries : Take(s, d)
  PROVE  PushesAreCounted'
<1>1. ASSUME NEW e \in Enquiries, Take(s, e) PROVE PushesAreCounted'
  <2>1. /\ slot[s] = Idle /\ slot' = [slot EXCEPT ![s] = [at |-> "pushing", enquiry |-> e, record |-> NoRecord]]
        /\ UNCHANGED pushes
        /\ job[e].state = "waiting" /\ job'[e].state = "active"
        /\ job'[e].attemptsMade = job[e].attemptsMade /\ job'[e].stalls = job[e].stalls
        /\ \A d \in Enquiries : d # e => job'[d] = job[d]
    BY <1>1 DEF TypeOK, Job, Take
  <2>2. \A d \in Enquiries : d # e => Pushing(d)' \subseteq Pushing(d)
    BY <2>1 DEF TypeOK, Pushing
  <2>3. \A d \in Enquiries : d # e => Counted(d)'
    BY <2>1, <2>2, CountedKept DEF PushesAreCounted
  <2>4. Pushing(e)' = Pushing(e) \cup {s} /\ s \notin Pushing(e)
    BY <2>1 DEF TypeOK, Pushing, Idle
  <2>5. Counted(e) /\ IsFiniteSet(Pushing(e)) /\ Cardinality(Pushing(e)) \in Nat
    BY FS_CardinalityType DEF PushesAreCounted, Counted
  <2>6. IsFiniteSet(Pushing(e)') /\ Cardinality(Pushing(e)') = Cardinality(Pushing(e)) + 1
    BY <2>4, <2>5, FS_AddElement
  <2>7. pushes[e] \in Nat /\ job[e].attemptsMade \in Nat /\ job[e].stalls \in Nat
    BY DEF TypeOK, Job
  <2>8. Counted(e)'
    BY <2>1, <2>5, <2>6, <2>7 DEF Counted
  <2> QED BY <2>3, <2>8 DEF PushesAreCounted
<1>2. ASSUME slot[s].at # "idle", NEW e \in Enquiries, e = slot[s].enquiry,
             slot'[s].at # "pushing", \A t \in Slots : t # s => slot'[t] = slot[t]
      PROVE  /\ \A d \in Enquiries : Pushing(d)' \subseteq Pushing(d)
             /\ s \notin Pushing(e)'
  BY <1>2 DEF Pushing
<1>3. CASE Push(s)
  <2>1. PICK e \in Enquiries : e = slot[s].enquiry
    BY <1>3, ExecutingSlot DEF Push
  <2>2. /\ slot'[s].at = "marking" /\ \A t \in Slots : t # s => slot'[t] = slot[t]
        /\ pushes'[e] = pushes[e] + 1 /\ \A d \in Enquiries : d # e => pushes'[d] = pushes[d]
        /\ UNCHANGED job
    <3>1. slot[s] \in Execution
      BY <1>3, ExecutingSlot DEF Push
    <3> QED BY <1>3, <2>1, <3>1 DEF TypeOK, Execution, Push, queueVars
  <2>3. /\ \A d \in Enquiries : Pushing(d)' \subseteq Pushing(d)
        /\ s \notin Pushing(e)'
    BY <1>2, <1>3, <2>1, <2>2 DEF Push
  <2>4. \A d \in Enquiries : d # e => Counted(d)'
    BY <2>2, <2>3, CountedKept DEF PushesAreCounted
  <2>5. Counted(e) /\ IsFiniteSet(Pushing(e)) /\ Cardinality(Pushing(e)) \in Nat
    BY FS_CardinalityType DEF PushesAreCounted, Counted
  <2>6. /\ IsFiniteSet(Pushing(e)') /\ Cardinality(Pushing(e)') \in Nat
        /\ Cardinality(Pushing(e)') <= Cardinality(Pushing(e)) - 1
    <3>1. s \in Pushing(e)
      BY <1>3, <2>1 DEF Push, Pushing
    <3>2. IsFiniteSet(Pushing(e) \ {s}) /\ Cardinality(Pushing(e) \ {s}) = Cardinality(Pushing(e)) - 1
      BY <2>5, <3>1, FS_RemoveElement
    <3>3. Pushing(e)' \in SUBSET (Pushing(e) \ {s})
      BY <2>3
    <3> QED BY <3>2, <3>3, FS_Subset, FS_CardinalityType
  <2>7. pushes[e] \in Nat /\ job[e].attemptsMade \in Nat /\ job[e].stalls \in Nat
    BY DEF TypeOK, Job
  <2>8. Counted(e)'
    BY <2>2, <2>5, <2>6, <2>7 DEF Counted
  <2> QED BY <2>4, <2>8 DEF PushesAreCounted
<1>4. CASE PushFails(s) \/ Mark(s) \/ MarkFails(s) \/ Complete(s) \/ Fail(s)
  <2>1. PICK e \in Enquiries : e = slot[s].enquiry
    BY <1>4, ExecutingSlot DEF PushFails, Mark, MarkFails, Complete, Fail, Move, Leave
  <2>2. /\ slot[s].at # "idle" /\ slot'[s].at # "pushing"
        /\ \A t \in Slots : t # s => slot'[t] = slot[t]
        /\ UNCHANGED pushes
    <3>1. slot[s] \in Execution
      BY <1>4, ExecutingSlot DEF PushFails, Mark, MarkFails, Complete, Fail, Move, Leave
    <3> QED BY <1>4, <3>1 DEF TypeOK, Execution, Idle, PushFails, Mark, MarkFails, Complete, Fail, Move, Leave
  <2>3. \A d \in Enquiries : Pushing(d)' \subseteq Pushing(d)
    BY <1>2, <2>1, <2>2
  <2>4. CASE UNCHANGED job
    BY <2>2, <2>3, <2>4, CountedKept DEF PushesAreCounted
  <2>5. CASE job' # job
    <3>1. Complete(s) \/ Fail(s)
      BY <1>4, <2>5 DEF PushFails, Mark, MarkFails, queueVars
    <3>2. \A d \in Enquiries : d # e => job'[d] = job[d]
      BY <2>1, <2>5, <3>1, Failed DEF TypeOK, Complete
    <3>3. \A d \in Enquiries : d # e => Counted(d)'
      BY <2>2, <2>3, <3>2, CountedKept DEF PushesAreCounted
    <3>4. /\ Counted(e) /\ IsFiniteSet(Pushing(e)') /\ Cardinality(Pushing(e)') <= Cardinality(Pushing(e))
          /\ Cardinality(Pushing(e)) \in Nat /\ Cardinality(Pushing(e)') \in Nat
      BY <2>3, PushingShrinks DEF PushesAreCounted, Counted
    <3>5. pushes[e] \in Nat /\ job[e].attemptsMade \in Nat /\ job[e].stalls \in Nat
      BY DEF TypeOK, Job
    <3>6. CASE Complete(s)
      <4>1. /\ job[e].state = "active" /\ job'[e].state = "completed"
            /\ job'[e].attemptsMade = job[e].attemptsMade /\ job'[e].stalls = job[e].stalls
        BY <2>1, <2>5, <3>6 DEF TypeOK, Job, Complete, Owns
      <4>2. Counted(e)'
        BY <2>2, <3>4, <3>5, <4>1 DEF Counted
      <4> QED BY <3>3, <4>2 DEF PushesAreCounted
    <3>7. CASE Fail(s)
      <4>1. /\ job[e].state = "active"
            /\ job'[e].state = IF job[e].attemptsMade + 1 < Attempts THEN "delayed" ELSE "failed"
            /\ job'[e].attemptsMade = job[e].attemptsMade + 1
            /\ job'[e].stalls = job[e].stalls
        BY <2>1, <2>5, <3>7, Failed
      <4>2. Counted(e)'
        BY <2>2, <3>4, <3>5, <4>1 DEF Counted
      <4> QED BY <3>3, <4>2 DEF PushesAreCounted
    <3> QED BY <3>1, <3>6, <3>7
  <2> QED BY <2>4, <2>5
<1> QED BY <1>1, <1>3, <1>4 DEF Execute

-----------------------------------------------------------------------------
(* Failures and dead letters *)

LEMMA WorkersCount ==
  ASSUME NEW W \in SUBSET Workers
  PROVE  /\ IsFiniteSet(W) /\ Cardinality(W) \in Nat
         /\ Cardinality(W) <= Cardinality(Workers) /\ Cardinality(Workers) \in Nat
BY FS_Subset, FS_CardinalityType

\* Nobody can start to hear of a job that does not fail now.
LEMMA HeardKept ==
  ASSUME TypeOK, NEW e \in Enquiries, HeardOnce(e), Hearing(e)' \subseteq Hearing(e),
         deadLetters'[e] = deadLetters[e],
         job[e].state = "failed" => job'[e].state = "failed"
  PROVE  HeardOnce(e)'
<1>1. Hearing(e) \in SUBSET Workers
  BY DEF Hearing
<1>2. /\ Cardinality(Hearing(e)') \in Nat /\ Cardinality(Hearing(e)) \in Nat
      /\ Cardinality(Hearing(e)') <= Cardinality(Hearing(e)) /\ Cardinality(Workers) \in Nat
  BY <1>1, WorkersCount, FS_Subset, FS_CardinalityType
<1>3. deadLetters[e] \in Nat
  BY DEF TypeOK
<1> QED BY <1>2, <1>3 DEF HeardOnce

\* A job that comes to an end is announced, to each process once, if it has failed.
LEMMA HeardNow ==
  ASSUME TypeOK, FailuresAreHeardOnce, NEW e \in Enquiries,
         UNCHANGED deadLetters, job[e].state = "active",
         \A d \in Enquiries : d # e => job'[d] = job[d],
         Announce(e, job'[e].state)
  PROVE  FailuresAreHeardOnce'
<1>1. ASSUME NEW d \in Enquiries, d # e PROVE HeardOnce(d)'
  <2>1. Hearing(d)' = Hearing(d)
    BY <1>1 DEF TypeOK, Hearing, Announce
  <2> QED BY <1>1, <2>1, HeardKept DEF FailuresAreHeardOnce
<1>2. Hearing(e) = {} /\ deadLetters[e] = 0
  BY DEF TypeOK, FailuresAreHeardOnce, HeardOnce
<1>3. CASE job'[e].state = "failed"
  <2>1. Hearing(e)' \in SUBSET Workers
    BY DEF Hearing
  <2> QED BY <1>1, <1>2, <1>3, <2>1, WorkersCount DEF FailuresAreHeardOnce, HeardOnce
<1>4. CASE job'[e].state # "failed"
  <2>1. Hearing(e)' = {}
    BY <1>2, <1>4 DEF TypeOK, Hearing, Announce, GivenUp
  <2>2. HeardOnce(e)'
    BY <1>2, <2>1, HeardKept DEF FailuresAreHeardOnce
  <2> QED BY <1>1, <2>2 DEF FailuresAreHeardOnce
<1> QED BY <1>3, <1>4

LEMMA JobHearing ==
  ASSUME TypeOK, FailuresAreHeardOnce, NEW e \in Enquiries,
         \/ Commit(e) \/ AddJob(e) \/ Promote(e) \/ Stall(e)
  PROVE  FailuresAreHeardOnce'
<1>1. CASE Commit(e) \/ AddJob(e) \/ Promote(e)
  <2>1. UNCHANGED <<deadLetters, undelivered>>
    BY <1>1 DEF Commit, AddJob, Promote, queueVars, workerVars
  <2>2. \A d \in Enquiries : job[d].state = "failed" => job'[d].state = "failed"
    BY <1>1 DEF TypeOK, Job, Commit, AddJob, Promote, queueVars
  <2>3. \A d \in Enquiries : Hearing(d)' = Hearing(d)
    BY <2>1 DEF Hearing
  <2> QED BY <2>1, <2>2, <2>3, HeardKept DEF FailuresAreHeardOnce
<1>2. CASE Stall(e)
  <2>1. UNCHANGED deadLetters
    BY <1>2 DEF Stall
  <2> QED BY <1>2, <2>1, Stalled, HeardNow
<1> QED BY <1>1, <1>2

LEMMA SlotHearing ==
  ASSUME TypeOK, FailuresAreHeardOnce,
         NEW s \in Slots, Execute(s) \/ \E d \in Enquiries : Take(s, d)
  PROVE  FailuresAreHeardOnce'
<1>1. UNCHANGED deadLetters
  BY DEF Execute, Take, Push, PushFails, Mark, MarkFails, Complete, Fail, queueVars
<1>2. CASE ~Fail(s)
  <2>1. UNCHANGED undelivered
    BY <1>2 DEF Execute, Take, Push, PushFails, Mark, MarkFails, Complete
  <2>2. \A d \in Enquiries : job[d].state = "failed" => job'[d].state = "failed"
    <3>1. CASE UNCHANGED job
      BY <3>1
    <3>2. CASE \E d \in Enquiries : Take(s, d)
      BY <3>2 DEF TypeOK, Job, Take
    <3>3. CASE Complete(s)
      <4>1. slot[s].enquiry \in Enquiries
        BY <3>3, ExecutingSlot DEF Complete, Leave
      <4> QED BY <3>3, <4>1 DEF TypeOK, Job, Complete, Owns
    <3> QED BY <1>2, <3>1, <3>2, <3>3 DEF Execute, Push, PushFails, Mark, MarkFails, queueVars
  <2>3. \A d \in Enquiries : Hearing(d)' = Hearing(d)
    BY <2>1 DEF Hearing
  <2> QED BY <1>1, <2>2, <2>3, HeardKept DEF FailuresAreHeardOnce
<1>3. CASE Fail(s)
  <2>1. PICK e : e = slot[s].enquiry
    OBVIOUS
  <2>2. CASE UNCHANGED <<job, undelivered>>
    <3>1. \A d \in Enquiries : Hearing(d)' = Hearing(d)
      BY <2>2 DEF Hearing
    <3> QED BY <1>1, <2>2, <3>1, HeardKept DEF FailuresAreHeardOnce
  <2>3. CASE ~UNCHANGED <<job, undelivered>>
    <3>1. /\ e \in Enquiries /\ job[e].state = "active"
          /\ \A d \in Enquiries : d # e => job'[d] = job[d]
          /\ Announce(e, job'[e].state)
      BY <1>3, <2>1, <2>3, Failed
    <3> QED BY <1>1, <3>1, HeardNow
  <2> QED BY <2>2, <2>3
<1> QED BY <1>2, <1>3

LEMMA WorkerHearing ==
  ASSUME TypeOK, FailuresAreHeardOnce, NEW w \in Workers,
         \/ Crash(w) \/ Shutdown(w) \/ Exit(w) \/ Restart(w)
         \/ \E e \in Enquiries : SendToDeadLetter(w, e)
  PROVE  FailuresAreHeardOnce'
<1>1. CASE Crash(w) \/ Shutdown(w) \/ Exit(w) \/ Restart(w)
  <2>1. UNCHANGED <<deadLetters, job>>
    BY <1>1 DEF Crash, Shutdown, Exit, Restart, queueVars
  <2>2. \A d \in Enquiries : Hearing(d)' \subseteq Hearing(d)
    BY <1>1 DEF TypeOK, Crash, Shutdown, Exit, Restart, Hearing
  <2> QED BY <2>1, <2>2, HeardKept DEF FailuresAreHeardOnce
<1>2. ASSUME NEW e \in Enquiries, SendToDeadLetter(w, e) PROVE FailuresAreHeardOnce'
  <2>1. /\ UNCHANGED job /\ deadLetters'[e] = deadLetters[e] + 1 /\ w \in Hearing(e)
        /\ \A d \in Enquiries : d # e => deadLetters'[d] = deadLetters[d]
    BY <1>2 DEF TypeOK, SendToDeadLetter, Hearing
  <2>2. /\ Hearing(e)' = Hearing(e) \ {w}
        /\ \A d \in Enquiries : d # e => Hearing(d)' = Hearing(d)
    BY <1>2 DEF TypeOK, SendToDeadLetter, Hearing
  <2>3. \A d \in Enquiries : d # e => HeardOnce(d)'
    BY <2>1, <2>2, HeardKept DEF FailuresAreHeardOnce
  <2>4. IsFiniteSet(Hearing(e)) /\ Cardinality(Hearing(e)) \in Nat
    <3>1. Hearing(e) \in SUBSET Workers
      BY DEF Hearing
    <3> QED BY <3>1, WorkersCount
  <2>5. Cardinality(Hearing(e)') = Cardinality(Hearing(e)) - 1
    <3>1. Cardinality(Hearing(e) \ {w}) = Cardinality(Hearing(e)) - 1
      BY <2>1, <2>4, FS_RemoveElement
    <3> QED BY <2>2, <3>1
  <2>6. HeardOnce(e)'
    <3>1. HeardOnce(e) /\ deadLetters[e] \in Nat
      BY DEF TypeOK, FailuresAreHeardOnce
    <3> QED BY <2>1, <2>4, <2>5, <3>1 DEF HeardOnce
  <2> QED BY <2>3, <2>6 DEF FailuresAreHeardOnce
<1> QED BY <1>1, <1>2

LEMMA CallHearing ==
  ASSUME TypeOK, FailuresAreHeardOnce, NEW c \in Calls,
         Receive(c) \/ Refuse(c) \/ Handling(c) \/ QueryFails(c) \/ Drop(c)
  PROVE  FailuresAreHeardOnce'
<1>1. UNCHANGED <<deadLetters, job, undelivered>>
  BY DEF Receive, Refuse, Handling, LogWebhookEvent, FindEnquiry, Apply, QueryFails, Drop,
         workerVars, queueVars
<1>2. \A d \in Enquiries : Hearing(d)' = Hearing(d)
  BY <1>1 DEF Hearing
<1> QED BY <1>1, <1>2, HeardKept DEF FailuresAreHeardOnce

-----------------------------------------------------------------------------
(* The invariant and what follows from it *)

LEMMA NextStep == IInv /\ [Next]_vars => IInv'
<1> SUFFICES ASSUME IInv, [Next]_vars PROVE IInv'
  OBVIOUS
<1> USE DEF IInv
<1>1. ASSUME NEW e \in Enquiries, Commit(e) \/ AddJob(e) \/ Promote(e) \/ Stall(e) PROVE IInv'
  <2>1. UNCHANGED <<audit, callVars>>
    BY <1>1 DEF Commit, AddJob, Promote, Stall
  <2>2. TypeOK' /\ RowInv' /\ FailuresAreHeardOnce'
    BY <1>1, JobTypes, JobRows, JobHearing DEF RowInv
  <2> QED BY <1>1, <2>1, <2>2, CallsKept, JobCounts DEF RowInv
<1>2. ASSUME NEW s \in Slots, Execute(s) \/ \E e \in Enquiries : Take(s, e) PROVE IInv'
  <2>1. UNCHANGED <<audit, callVars>>
    BY <1>2 DEF Execute, Take, Push, PushFails, Mark, MarkFails, Complete, Fail
  <2>2. TypeOK' /\ RowInv' /\ FailuresAreHeardOnce'
    BY <1>2, SlotTypes, SlotRows, SlotHearing DEF RowInv
  <2> QED BY <1>2, <2>1, <2>2, CallsKept, SlotCounts DEF RowInv
<1>3. ASSUME NEW w \in Workers,
             \/ Crash(w) \/ Shutdown(w) \/ Exit(w) \/ Restart(w)
             \/ \E e \in Enquiries : SendToDeadLetter(w, e)
      PROVE  IInv'
  <2>1. UNCHANGED <<audit, callVars>>
    BY <1>3 DEF Crash, Shutdown, Exit, Restart, SendToDeadLetter
  <2>2. TypeOK' /\ RowInv' /\ FailuresAreHeardOnce'
    BY <1>3, WorkerTypes, WorkerRows, WorkerHearing DEF RowInv
  <2> QED BY <1>3, <2>1, <2>2, CallsKept, WorkerCounts DEF RowInv
<1>4. ASSUME NEW c \in Calls, Receive(c) \/ Refuse(c) \/ Handling(c) \/ QueryFails(c) \/ Drop(c)
      PROVE  IInv'
  <2>1. TypeOK' /\ RowInv' /\ FailuresAreHeardOnce'
    BY <1>4, CallTypes, CallRows, CallHearing DEF RowInv
  <2> QED BY <1>4, <2>1, CallSteps, CallCounts DEF RowInv
<1>5. CASE UNCHANGED vars
  <2>1. TypeOK'
    BY <1>5 DEF vars, queueVars, workerVars, callVars, TypeOK
  <2>2. \A e \in Enquiries : Pushing(e)' = Pushing(e) /\ Hearing(e)' = Hearing(e)
    BY <1>5 DEF vars, workerVars, Pushing, Hearing
  <2>3. PushesAreCounted' /\ FailuresAreHeardOnce'
    BY <1>5, <2>2 DEF vars, queueVars, workerVars, PushesAreCounted, Counted,
                      FailuresAreHeardOnce, HeardOnce
  <2>4. RowInv'
    BY <1>5, VouchingKept, RowsKept DEF vars, queueVars, workerVars, callVars, RowInv
  <2> QED BY <1>5, <2>1, <2>3, <2>4, CallsKept DEF vars, RowInv
<1> QED BY <1>1, <1>2, <1>3, <1>4, <1>5 DEF Next, Arrive, Work

\* A job that was added stays in BullMQ's hands: what the workers and the webhook do
\* neither adds a job nor makes one be forgotten.
LEMMA JobsStay ==
  ASSUME TypeOK, Work
  PROVE  \A e \in Enquiries : job'[e].state = "none" <=> job[e].state = "none"
<1>1. ASSUME NEW e \in Enquiries, Promote(e) \/ Stall(e)
      PROVE  \A d \in Enquiries : job'[d].state = "none" <=> job[d].state = "none"
  BY <1>1, Stalled DEF Promote, TypeOK, Job
<1>2. ASSUME NEW s \in Slots, Execute(s)
      PROVE  \A d \in Enquiries : job'[d].state = "none" <=> job[d].state = "none"
  <2>1. CASE Push(s) \/ PushFails(s) \/ Mark(s) \/ MarkFails(s)
    BY <2>1 DEF Push, PushFails, Mark, MarkFails, queueVars
  <2>2. CASE Complete(s)
    BY <2>2 DEF Complete, Owns, TypeOK, Job
  <2>3. CASE Fail(s)
    BY <2>3, Failed DEF TypeOK
  <2> QED BY <1>2, <2>1, <2>2, <2>3 DEF Execute
<1>3. ASSUME NEW s \in Slots, NEW e \in Enquiries, Take(s, e)
      PROVE  \A d \in Enquiries : job'[d].state = "none" <=> job[d].state = "none"
  BY <1>3 DEF Take, TypeOK, Job
<1>4. ASSUME NEW w \in Workers,
             \/ Crash(w) \/ Shutdown(w) \/ Exit(w) \/ Restart(w)
             \/ \E e \in Enquiries : SendToDeadLetter(w, e)
      PROVE  UNCHANGED job
  BY <1>4 DEF Crash, Shutdown, Exit, Restart, SendToDeadLetter, queueVars
<1>5. ASSUME NEW c \in Calls, Receive(c) \/ Refuse(c) \/ Handling(c) \/ QueryFails(c) \/ Drop(c)
      PROVE  UNCHANGED job
  BY <1>5 DEF Receive, Refuse, Handling, LogWebhookEvent, FindEnquiry, Apply, QueryFails, Drop, queueVars
<1> QED BY <1>1, <1>2, <1>3, <1>4, <1>5 DEF Work

\* crm_webhook_events refers to enquiries: the foreign key holds.
AuditRefersToRows == \A c \in Calls : audit[c] # "none" => body[c].enquiry \in existing

LEMMA AuditInit == Init => AuditRefersToRows
BY DEF Init, AuditRefersToRows

LEMMA AuditNext ==
  ASSUME IInv, AuditRefersToRows, [Next]_vars
  PROVE  AuditRefersToRows'
<1>1. existing \subseteq existing'
  BY DEF Next, Arrive, Work, vars, Commit, AddJob, Promote, Stall, Execute, Take, Push, PushFails,
         Mark, MarkFails, Complete, Fail, Crash, Shutdown, Exit, Restart, SendToDeadLetter,
         Receive, Refuse, Handling, LogWebhookEvent, FindEnquiry, Apply, QueryFails, Drop
<1>2. CASE UNCHANGED <<audit, body>>
  BY <1>1, <1>2 DEF AuditRefersToRows
<1>3. ASSUME NEW c \in Calls, Receive(c) \/ Refuse(c) \/ Handling(c) \/ QueryFails(c) \/ Drop(c)
      PROVE  AuditRefersToRows'
  <2>1. CASE Receive(c)
    BY <1>1, <2>1 DEF Receive, Step, IInv, TypeOK, CallsAreOrdered, AuditRefersToRows
  <2>2. CASE Refuse(c) \/ FindEnquiry(c) \/ Apply(c) \/ Drop(c)
    BY <1>1, <2>2 DEF Refuse, FindEnquiry, Apply, Drop, AuditRefersToRows
  <2>3. CASE LogWebhookEvent(c)
    BY <1>1, <2>3 DEF LogWebhookEvent, Recordable, IInv, TypeOK, AuditRefersToRows
  <2>4. CASE QueryFails(c)
    BY <1>1, <2>4 DEF QueryFails, Recordable, IInv, TypeOK, AuditRefersToRows
  <2> QED BY <1>3, <2>1, <2>2, <2>3, <2>4 DEF Handling
<1>4. ASSUME NEW e \in Enquiries, Arrive(e) \/ Promote(e) \/ Stall(e)
      PROVE  UNCHANGED <<audit, body>>
  BY <1>4 DEF Arrive, Commit, AddJob, Promote, Stall, callVars
<1>5. ASSUME NEW s \in Slots, Execute(s) \/ \E e \in Enquiries : Take(s, e)
      PROVE  UNCHANGED <<audit, body>>
  BY <1>5 DEF Execute, Take, Push, PushFails, Mark, MarkFails, Complete, Fail, callVars
<1>6. ASSUME NEW w \in Workers,
             \/ Crash(w) \/ Shutdown(w) \/ Exit(w) \/ Restart(w)
             \/ \E e \in Enquiries : SendToDeadLetter(w, e)
      PROVE  UNCHANGED <<audit, body>>
  BY <1>6 DEF Crash, Shutdown, Exit, Restart, SendToDeadLetter, callVars
<1>7. CASE UNCHANGED vars
  BY <1>2, <1>7 DEF vars, callVars
<1> QED BY <1>2, <1>3, <1>4, <1>5, <1>6, <1>7 DEF Next, Work

\* An enquiry that does not exist yet will be "new".
LEMMA NewUntilThere ==
  ASSUME IInv, AuditRefersToRows, NEW e \in Enquiries, e \notin existing
  PROVE  link[e].status = "new"
BY DEF IInv, AuditRefersToRows, LinksAreVouchedFor, Vouched

\* Only the webhook moves a status, one at a time.
LEMMA OneStatusMoves ==
  ASSUME TypeOK, CallsAreOrdered, Work
  PROVE  \/ \A d \in Enquiries : link'[d].status = link[d].status
         \/ \E e \in Enquiries, status \in Statuses :
              \A d \in Enquiries : link'[d].status = IF d = e THEN status ELSE link[d].status
<1> DEFINE Kept == \A d \in Enquiries : link'[d].status = link[d].status
           Moved == \E e \in Enquiries, status \in Statuses :
                      \A d \in Enquiries : link'[d].status = IF d = e THEN status ELSE link[d].status
<1>1. ASSUME NEW e \in Enquiries, Promote(e) \/ Stall(e)
      PROVE  Kept
  BY <1>1 DEF Promote, Stall
<1>2. ASSUME NEW s \in Slots, Execute(s) \/ \E e \in Enquiries : Take(s, e)
      PROVE  Kept
  <2>1. CASE Mark(s) \/ MarkFails(s)
    BY <2>1 DEF Mark, MarkFails, MarkCrmSynced, TypeOK, Link
  <2> QED BY <1>2, <2>1 DEF Execute, Take, Push, PushFails, Complete, Fail
<1>3. ASSUME NEW w \in Workers,
             \/ Crash(w) \/ Shutdown(w) \/ Exit(w) \/ Restart(w)
             \/ \E e \in Enquiries : SendToDeadLetter(w, e)
      PROVE  Kept
  BY <1>3 DEF Crash, Shutdown, Exit, Restart, SendToDeadLetter
<1>4. ASSUME NEW c \in Calls, Receive(c) \/ Refuse(c) \/ Handling(c) \/ QueryFails(c) \/ Drop(c)
      PROVE  Kept \/ Moved
  <2>1. CASE UNCHANGED link
    BY <2>1
  <2>2. CASE Apply(c) \/ (QueryFails(c) /\ ~ UNCHANGED link)
    <3>1. /\ body[c] \in Body
          /\ MarkCrmSynced(body[c].enquiry, body[c].record, body[c].status)
      BY <2>2 DEF Apply, QueryFails, Step, CallsAreOrdered
    <3>2. PICK e \in Enquiries, r \in CallRecords, status \in Statuses \cup {NoStatus} :
            MarkCrmSynced(e, r, status)
      BY <3>1 DEF Body
    <3>3. \A d \in Enquiries :
            link'[d].status = IF d = e /\ status # NoStatus THEN status ELSE link[d].status
      BY <3>2 DEF MarkCrmSynced, TypeOK, Link
    <3>4. CASE status = NoStatus
      BY <3>3, <3>4
    <3>5. CASE status \in Statuses /\ status # NoStatus
      <4>1. \A d \in Enquiries : link'[d].status = IF d = e THEN status ELSE link[d].status
        BY <3>3, <3>5
      <4> QED BY <3>5, <4>1
    <3> QED BY <3>4, <3>5
  <2> QED BY <1>4, <2>1, <2>2 DEF Receive, Refuse, Handling, LogWebhookEvent, FindEnquiry, Drop
<1> QED BY <1>1, <1>2, <1>3, <1>4 DEF Work

\* The CRM gets records only for an enquiry whose job was added.
LEMMA PushesFollowAdds ==
  ASSUME IInv, NEW e \in Enquiries, pushes[e] > 0
  PROVE  job[e].state # "none"
<1>1. TypeOK /\ Counted(e)
  BY DEF IInv, PushesAreCounted
<1>2. Cardinality(Pushing(e)) \in Nat
  BY <1>1, FS_CardinalityType DEF Counted
<1> QED BY <1>1, <1>2 DEF Counted, TypeOK

-----------------------------------------------------------------------------
(* Who abandons a job *)

\* An execution that is still there, for the same enquiry.
GoesOn(s) ==
  slot[s] # Idle => slot'[s] # Idle /\ slot'[s].enquiry = slot[s].enquiry

\* While nobody touches the job itself, its execution goes on.
LEMMA HeldStays ==
  ASSUME TypeOK, NEW e \in Enquiries, ~ Abandoned(e), UNCHANGED job,
         \A s \in Slots : GoesOn(s)
  PROVE  ~ Abandoned(e)'
<1> SUFFICES ASSUME job[e].state = "active"
             PROVE  job[e].owner \in ExecutionsOf(e)'
  BY DEF Abandoned
<1>1. job[e].owner \in ExecutionsOf(e)
  BY DEF Abandoned
<1> QED BY <1>1 DEF ExecutionsOf, GoesOn

\* A slot takes no job while it executes one.
LEMMA TakeHolds ==
  ASSUME TypeOK, NEW s \in Slots, NEW d \in Enquiries, Take(s, d),
         NEW e \in Enquiries, ~ Abandoned(e)
  PROVE  ~ Abandoned(e)'
<1>1. /\ slot'[s] = [at |-> "pushing", enquiry |-> d, record |-> NoRecord]
      /\ \A t \in Slots \ {s} : slot'[t] = slot[t]
  BY DEF Take, TypeOK
<1>2. slot'[s] # Idle /\ slot'[s].enquiry = d
  <2>1. slot'[s].at = "pushing"
    BY <1>1
  <2> QED BY <1>1, <2>1 DEF Idle
<1>3. \A t \in Slots : GoesOn(t)
  BY <1>1 DEF GoesOn, Take
<1>4. CASE e = d
  <2>1. job'[e].owner = s
    BY <1>4 DEF Take, TypeOK, Job
  <2>2. s \in ExecutionsOf(e)'
    BY <1>2, <1>4 DEF ExecutionsOf
  <2> QED BY <2>1, <2>2 DEF Abandoned
<1>5. CASE e # d
  <2>1. job'[e] = job[e]
    BY <1>5 DEF Take, TypeOK
  <2>2. job[e].state = "active" => job[e].owner \in ExecutionsOf(e)
    BY DEF Abandoned
  <2> QED BY <1>3, <2>1, <2>2 DEF Abandoned, ExecutionsOf, GoesOn
<1> QED BY <1>4, <1>5

\* An execution that ends and holds the lock of its job moves the job on.
LEMMA ExecuteHolds ==
  ASSUME TypeOK, NEW s \in Slots, Execute(s), NEW e \in Enquiries, ~ Abandoned(e)
  PROVE  ~ Abandoned(e)'
<1>1. slot[s].at # "idle"
  BY DEF Execute, Push, PushFails, Mark, MarkFails, Complete, Fail, Move, Leave
<1>2. slot[s] \in Execution /\ slot[s] # Idle /\ slot[s].enquiry \in Enquiries
  BY <1>1, ExecutingSlot
<1>3. \A t \in Slots \ {s} : slot'[t] = slot[t]
  BY DEF Execute, Push, PushFails, Mark, MarkFails, Complete, Fail, Move, Leave, TypeOK
<1>4. CASE Push(s) \/ PushFails(s) \/ Mark(s) \/ MarkFails(s)
  <2>0. UNCHANGED job
    BY <1>4 DEF Push, PushFails, Mark, MarkFails, queueVars
  <2>1. slot'[s].enquiry = slot[s].enquiry /\ slot'[s].at # "idle"
    <3>1. CASE Push(s)
      <4>1. slot'[s] = [slot[s] EXCEPT
                          !.at = "marking",
                          !.record = <<slot[s].enquiry, pushes[slot[s].enquiry] + 1>>]
        BY <3>1 DEF Push, TypeOK
      <4> QED BY <1>2, <4>1 DEF Execution
    <3>2. CASE PushFails(s) \/ Mark(s) \/ MarkFails(s)
      <4>1. PICK to \in {"marking", "completing", "failing"} :
              slot' = [slot EXCEPT ![s].at = to]
        BY <3>2 DEF PushFails, Mark, MarkFails, Move
      <4>2. slot'[s] = [slot[s] EXCEPT !.at = to]
        BY <4>1 DEF TypeOK
      <4> QED BY <1>2, <4>2 DEF Execution
    <3> QED BY <1>4, <3>1, <3>2
  <2>2. slot'[s] # Idle
    BY <2>1 DEF Idle
  <2>3. \A t \in Slots : GoesOn(t)
    BY <1>3, <2>1, <2>2 DEF GoesOn
  <2> QED BY <2>0, <2>3, HeldStays
<1>5. CASE Complete(s) \/ Fail(s)
  <2>1. \A d \in Enquiries : d # slot[s].enquiry => job'[d] = job[d]
    BY <1>2, <1>5 DEF Complete, Fail, TypeOK
  <2>2. Owns(s) => job'[slot[s].enquiry].state # "active"
    <3> SUFFICES ASSUME Owns(s), NEW d \in Enquiries, d = slot[s].enquiry
                 PROVE  job'[d].state # "active"
      BY <1>2
    <3>1. job \in [Enquiries -> Job] /\ job[d] \in Job
      BY DEF TypeOK
    <3>2. CASE Complete(s)
      <4>1. job'[d] = [job[d] EXCEPT !.state = "completed", !.owner = NoSlot]
        BY <3>1, <3>2 DEF Complete
      <4> QED BY <3>1, <4>1 DEF Job
    <3>3. CASE Fail(s)
      <4>1. PICK next \in {"delayed", "failed"} :
              job' = [job EXCEPT ![d] = [@ EXCEPT !.state = next, !.owner = NoSlot,
                                                  !.attemptsMade = AttemptsAfter(d)]]
        BY <3>3 DEF Fail
      <4>2. job'[d] = [job[d] EXCEPT !.state = next, !.owner = NoSlot,
                                     !.attemptsMade = AttemptsAfter(d)]
        BY <3>1, <4>1
      <4> QED BY <3>1, <4>2 DEF Job
    <3> QED BY <1>5, <3>2, <3>3
  <2>3. ~ Owns(s) => UNCHANGED job
    BY <1>5 DEF Complete, Fail
  <2> SUFFICES ASSUME job'[e].state = "active"
               PROVE  job'[e].owner \in ExecutionsOf(e)'
    BY DEF Abandoned
  <2>4. job'[e] = job[e]
    BY <2>1, <2>2, <2>3
  <2>5. job[e].owner \in ExecutionsOf(e)
    BY <2>4 DEF Abandoned
  <2>6. job[e].owner # s
    <3> SUFFICES ASSUME job[e].owner = s
                 PROVE  FALSE
      OBVIOUS
    <3>1. slot[s].enquiry = e
      BY <2>5 DEF ExecutionsOf
    <3> QED BY <2>2, <2>4, <3>1 DEF Owns
  <2> QED BY <1>3, <2>4, <2>5, <2>6 DEF ExecutionsOf
<1> QED BY <1>4, <1>5 DEF Execute

\* The backoff and the loss of a lock leave nobody holding one.
LEMMA TimersHold ==
  ASSUME TypeOK, NEW d \in Enquiries, Arrive(d) \/ Promote(d) \/ Stall(d),
         NEW e \in Enquiries, ~ Abandoned(e)
  PROVE  ~ Abandoned(e)'
<1>1. UNCHANGED slot
  BY DEF Arrive, Commit, AddJob, Promote, Stall, workerVars
<1>2. job'[e] = job[e] \/ job'[e].state # "active"
  BY DEF Arrive, Commit, AddJob, Promote, Stall, queueVars, TypeOK, Job
<1> QED BY <1>1, <1>2 DEF Abandoned, ExecutionsOf

\* Only a process that crashes leaves a job with a lock nobody holds.
LEMMA OnlyACrashAbandons ==
  ASSUME TypeOK, [Next]_vars, NEW e \in Enquiries, Abandoned(e)'
  PROVE  Abandoned(e) \/ \E w \in Workers : Crash(w)
<1> SUFFICES ASSUME ~ Abandoned(e), \A w \in Workers : ~ Crash(w)
             PROVE  FALSE
  OBVIOUS
<1>1. ASSUME NEW d \in Enquiries, Arrive(d) \/ Promote(d) \/ Stall(d)
      PROVE  FALSE
  BY <1>1, TimersHold
<1>2. ASSUME NEW s \in Slots, Execute(s) \/ \E d \in Enquiries : Take(s, d)
      PROVE  FALSE
  BY <1>2, ExecuteHolds, TakeHolds
<1>3. ASSUME NEW w \in Workers,
             \/ Crash(w) \/ Shutdown(w) \/ Exit(w) \/ Restart(w)
             \/ \E d \in Enquiries : SendToDeadLetter(w, d)
      PROVE  UNCHANGED <<job, slot>>
  BY <1>3 DEF Shutdown, Exit, Restart, SendToDeadLetter, queueVars
<1>4. ASSUME NEW c \in Calls, Receive(c) \/ Refuse(c) \/ Handling(c) \/ QueryFails(c) \/ Drop(c)
      PROVE  UNCHANGED <<job, slot>>
  BY <1>4 DEF Receive, Refuse, Handling, LogWebhookEvent, FindEnquiry, Apply, QueryFails, Drop,
              queueVars, workerVars
<1>5. CASE UNCHANGED <<job, slot>>
  BY <1>5 DEF Abandoned, ExecutionsOf
<1>6. CASE UNCHANGED vars
  BY <1>5, <1>6 DEF vars, queueVars, workerVars
<1> QED BY <1>1, <1>2, <1>3, <1>4, <1>5, <1>6 DEF Next, Work

-----------------------------------------------------------------------------
(* Theorems *)

\* The inductive invariant holds.
THEOREM Invariance == Spec => []IInv
BY InitOK, NextStep, PTL DEF Spec

\* Every variable keeps its type, and a job is locked exactly while it is active.
THEOREM TypeCorrect == Spec => []TypeOK
<1>1. IInv => TypeOK
  BY DEF IInv
<1> QED BY <1>1, Invariance, PTL

\* crmWebhookHandler, crmSyncWorker: what a row says about the CRM comes from a push
\* for it or a signed call in the log, and its status from such a call only.
THEOREM LinksVouchedFor == Spec => []LinksAreVouchedFor
<1>1. IInv => LinksAreVouchedFor
  BY DEF IInv
<1> QED BY <1>1, Invariance, PTL

\* crmWebhookHandler: the answers and the log tell the same story.
THEOREM AnswersMatch == Spec => []AnswersMatchAudit
<1>1. IInv => AnswersMatchAudit
  BY DEF IInv
<1> QED BY <1>1, Invariance, PTL

\* crmSyncWorker: a completed job has left a record in the row.
THEOREM CompletedSynced == Spec => []CompletedIsSynced
<1>1. IInv => CompletedIsSynced
  BY DEF IInv
<1> QED BY <1>1, Invariance, PTL

\* attachDeadLetterHandler: dead letters are for failed jobs, one per process at most.
THEOREM DeadLettersFinal == Spec => []DeadLettersAreFinal
<1>1. IInv => DeadLettersAreFinal
  <2> SUFFICES ASSUME IInv, NEW e \in Enquiries, deadLetters[e] > 0
               PROVE  job[e].state = "failed" /\ deadLetters[e] <= Cardinality(Workers)
    BY DEF DeadLettersAreFinal
  <2>1. Hearing(e) \in SUBSET Workers
    BY DEF Hearing
  <2>2. HeardOnce(e) /\ deadLetters[e] \in Nat
    BY DEF IInv, TypeOK, FailuresAreHeardOnce
  <2> QED BY <2>1, <2>2, WorkersCount DEF HeardOnce
<1> QED BY <1>1, Invariance, PTL

\* pushEnquiryToCrm: one job makes at most Attempts + MaxStalled records in the CRM.
THEOREM PushesBounded == Spec => []PushesAreBounded
<1>1. IInv => PushesAreBounded
  <2> SUFFICES ASSUME IInv, NEW e \in Enquiries
               PROVE  pushes[e] <= Attempts + MaxStalled
    BY DEF PushesAreBounded
  <2>1. /\ Counted(e) /\ pushes[e] \in Nat /\ job[e].state \in JobStates
        /\ job[e].attemptsMade \in Nat /\ job[e].stalls \in Nat
    BY DEF IInv, TypeOK, Job, PushesAreCounted
  <2>2. Cardinality(Pushing(e)) \in Nat
    BY <2>1, FS_CardinalityType DEF Counted
  <2> QED BY <2>1, <2>2 DEF Counted, JobStates
<1> QED BY <1>1, Invariance, PTL

\* worker.ts: a shutdown leaves no job to a lock that nobody holds; only a crash does.
THEOREM OnlyCrashesAbandon == Spec => ShutdownAbandonsNoJob
<1>1. TypeOK /\ [Next]_vars =>
        [\A e \in Enquiries : Abandoned(e)' => Abandoned(e) \/ \E w \in Workers : Crash(w)]_vars
  BY OnlyACrashAbandons
<1> QED BY <1>1, TypeCorrect, PTL DEF Spec, ShutdownAbandonsNoJob
=============================================================================
