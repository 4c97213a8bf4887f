------------------------- MODULE PropertyCacheProperties -------------------------
(***************************************************************************)
(* What PropertyCache guarantees.                                          *)
(***************************************************************************)
EXTENDS PropertyCache

\* Every variable has its type; no fetch is under way longer than its timeout.
TypeOK ==
  /\ edits \in Seq([slug : Details, shown : BOOLEAN, age : 0 .. StaleBound])
  /\ Len(edits) <= MaxEdits
  /\ DOMAIN cache \subseteq Entries
  /\ cache \in [DOMAIN cache -> Copy]
  /\ call \in [Calls -> Call \cup {Idle}]
  /\ \A c \in Calls :
       call[c].at \in {"fetching", "fetched"} => call[c].since <= FetchTimeout
  /\ answer \in [kind : Kinds, version : 0 .. MaxEdits]
  /\ hook \in [Hooks -> Hook \cup {Idle}]

Waits(c) == call[c] # Idle /\ ~call[c].answered

\* A reader is told "not found" only of a property the CMS did not show after the
\* request came in, and gets content that lacks only edits younger than the TTL,
\* the grace window and the fetch timeout together - however fetches, background
\* refreshes, invalidations and Redis failures interleave (getOrSetWithSWR).
Promise ==
  INSTANCE StaleReads WITH
    Bound <- StaleBound,
    asked <- [c \in Calls |->
                IF Waits(c) THEN [entry |-> call[c].entry, version |-> call[c].asked]
                            ELSE [entry |-> "nothing", version |-> 0]]

ImplementsStaleReads == Promise!Spec

\* Content of entry e as of version v, if it is age old, lacks no edit that is more
\* than one fetch older.
Lags(e, v, age) ==
  \A i \in v + 1 .. Len(edits) :
    Promise!Concerns(edits[i], e) /\ age < Ttl + Grace => edits[i].age <= age + FetchTimeout

\* A copy's age is honest: an edit it lacks is at most one fetch older than the
\* copy says it is (writeCache stamps cachedAt after the fetch, not before).
CopiesAgeHonestly == \A e \in DOMAIN cache : Lags(e, cache[e].version, cache[e].age)

\* "Cache invalidated": no copy that was cached when the call came in is left of
\* the property it names or of any page of the list (invalidatePropertyCache).
InvalidationReachesEveryCopy == \A h \in Hooks : hook[h].at = "ok" => hook[h].untouched = {}

\* The claim over invalidatePropertyCache, "so an editor's change is visible well
\* before the TTL would naturally expire": once it has answered, no copy in the
\* cache lacks an edit made before the call.
EditsAreVisible ==
  \A h \in Hooks :
    hook[h].at = "ok" =>
      \A e \in DOMAIN cache \cap (Matched(hook[h].slug) \cup Listings) :
        \A i \in cache[e].version + 1 .. hook[h].due : ~Promise!Concerns(edits[i], e)

\* Every call ends, whatever the CMS does: the abort signal bounds the fetch, so
\* readers are answered and background refreshes do not pile up.
EveryCallEnds == \A c \in Calls : call[c] # Idle ~> call[c] = Idle
=============================================================================
