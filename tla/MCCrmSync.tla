------------------------------- MODULE MCCrmSync -------------------------------
(***************************************************************************)
(* CrmSync on small instances.                                             *)
(***************************************************************************)
EXTENDS CrmSyncProperties, TLC

CONSTANTS e1, e2, w1, w2, c1, c2, r1

Symmetric == Permutations(Workers) \cup Permutations(Calls)

Signed(e, status) == [enquiry |-> e, record |-> r1, status |-> status,
                      wellFormed |-> TRUE, signed |-> TRUE, oversized |-> FALSE]

Forged(e) == [Signed(e, "closed") EXCEPT !.signed = FALSE]
Oversized(e) == [Signed(e, "closed") EXCEPT !.oversized = TRUE]
Malformed(e) == [Signed(e, "closed") EXCEPT !.wellFormed = FALSE]

EveryKindOfBody ==
  {Signed(e1, NoStatus), Signed(e1, "contacted"), Forged(e1), Oversized(e1), Malformed(e1)}

NoCalls == {}
=============================================================================
