---------------------------- MODULE EnquiryRegister ----------------------------
(***************************************************************************)
(* What POST /api/enquiry promises, without the middleware, the database   *)
(* transactions and the queues that keep the promise: a register of        *)
(* enquiries that only grows and holds each fingerprint once, and answers  *)
(* that tell the truth about it when they are given.  A request may also   *)
(* stay unanswered, and an "error" says nothing about the register.        *)
(***************************************************************************)
CONSTANTS Requests,      \* the HTTP requests
          Ids,           \* the enquiry ids the database can hand out
          Fingerprints,  \* what makes two enquiries "the same"
          NoAnswer       \* a request that has not been answered

VARIABLES registered,    \* the enquiries that exist for good
          answers        \* the HTTP response of each request

vars == <<registered, answers>>

Enquiry == [id : Ids, fingerprint : Fingerprints]

\* 201, 400, 404, 409 (duplicate content), 429 and 500; "about" is the
\* fingerprint of the submission the answer was computed for.
Kinds == {"created", "invalid", "notFound", "duplicate", "rateLimited", "error"}

Answer == [kind : Kinds, id : Ids \cup {0}, about : Fingerprints]

\* A 201 names an enquiry that exists, a 409 is given only for content that
\* an existing enquiry already carries.
Truthful(a, enquiries) ==
  /\ a.kind = "created" => [id |-> a.id, fingerprint |-> a.about] \in enquiries
  /\ a.kind = "duplicate" => \E e \in enquiries : e.fingerprint = a.about

Init ==
  /\ registered = {}
  /\ answers = [r \in Requests |-> NoAnswer]

Register(e) ==
  /\ \A other \in registered : other.id # e.id /\ other.fingerprint # e.fingerprint
  /\ registered' = registered \cup {e}
  /\ UNCHANGED answers

Reply(r, a) ==
  /\ answers[r] = NoAnswer
  /\ Truthful(a, registered)
  /\ answers' = [answers EXCEPT ![r] = a]
  /\ UNCHANGED registered

Next ==
  \/ \E e \in Enquiry : Register(e)
  \/ \E r \in Requests, a \in Answer : Reply(r, a)

Spec == Init /\ [][Next]_vars
=============================================================================
