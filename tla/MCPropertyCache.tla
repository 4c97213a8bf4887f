----------------------------- MODULE MCPropertyCache -----------------------------
(***************************************************************************)
(* PropertyCache on small instances.                                       *)
(***************************************************************************)
EXTENDS PropertyCacheProperties, TLC

CONSTANTS villa, villa2

\* "villa" begins "villa-2".
Slugs == [d \in Details |-> IF d = villa THEN Details \ {villa} ELSE {}]

\* The run explores two halves of the state space that meet in the middle: an
\* invalidation racing one reader after another while nothing is edited, and
\* readers racing each other, edits and the loss of the copy at one key (no
\* invalidation: deleting a key is Expire to a reader).  No step of a call under
\* way, nor time, leads out of them, so the fairness is that of FairSpec.
InUse == DOMAIN cache \cup {call[c].entry : c \in {d \in Calls : call[d] # Idle}}

Invalidations == /\ edits = <<>>
                 /\ Cardinality({c \in Calls : call[c] # Idle}) <= 1
                 /\ Cardinality(InUse) <= 2

ReadersOfOneKey == /\ \A h \in Hooks : hook[h] = Idle
                   /\ Cardinality(InUse) <= 1
                   /\ villa2 \notin InUse

HalvesSpec == Init /\ [][Next /\ (Invalidations \/ ReadersOfOneKey)']_vars /\ Fairness
=============================================================================
