------------------------------- MODULE MCApiFront -------------------------------
(***************************************************************************)
(* ApiFront on small instances.                                            *)
(***************************************************************************)
EXTENDS ApiFrontProperties, FiniteSets

Limits == [l \in Limiters |-> IF l = "general" THEN 2 ELSE 1]

\* Two instances that serve one request after another, or one instance that
\* serves two at once.  The fair steps start neither.
Busy == {q \in Requests : request[q] # None}
Running == {i \in Instances : state[i] # "down"}

InTurns == Cardinality(Busy) <= 1 \/ Cardinality(Running) <= 1

InTurnsSpec == Init /\ [][Next /\ InTurns']_vars /\ Fairness
=============================================================================
