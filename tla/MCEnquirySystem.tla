---------------------------- MODULE MCEnquirySystem ----------------------------
(***************************************************************************)
(* EnquirySystem on a small instance.                                      *)
(***************************************************************************)
EXTENDS EnquirySystem, MCEnquiryIntake

\* The CRM reports a status with a record of its own, for an enquiry that may not
\* exist yet.
Reports == {[enquiry |-> 1, record |-> x, status |-> "contacted", wellFormed |-> TRUE,
             signed |-> TRUE, oversized |-> FALSE] : x \in CallRecords}

\* Two requests, or one request and a call of the webhook.  The fair steps begin
\* neither.
InTurns ==
  \/ \A c \in Calls : at[c] = "idle"
  \/ Cardinality({r \in Requests : pc[r] # "idle"}) <= 1

InTurnsSpec ==
  SystemInit /\ [][SystemNext /\ InTurns']_systemVars /\ SystemFairness
=============================================================================
