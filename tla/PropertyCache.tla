------------------------------ MODULE PropertyCache ------------------------------
(***************************************************************************)
(* The cache in front of the WordPress CMS: getOrSetWithSWR (cache.service)*)
(* behind GET /api/properties and /api/properties/:slug, and               *)
(* POST /api/properties/cache/invalidate (wpGraphQL.service,               *)
(* property.controller).  Redis and the CMS are external.                  *)
(*                                                                         *)
(* Time is counted in ticks and kept as ages: of an edit since it was      *)
(* made, of a cached copy since its cachedAt, of a fetch since it began.   *)
(* All instances read the same clock.                                      *)
(***************************************************************************)
EXTENDS Naturals, Sequences, FiniteSets

CONSTANTS Listings,      \* keys wpcms:properties:<first>:<after>
          Details,       \* keys wpcms:property:<slug>, by slug
          Longer,        \* the other slugs that begin with a slug
          Calls,         \* calls of getOrSetWithSWR under way at once
          Hooks,         \* calls of the invalidation endpoint
          Ttl,           \* WPGRAPHQL_CACHE_TTL_SECONDS, in ticks
          Grace,         \* staleSeconds
          FetchTimeout,  \* AbortSignal.timeout
          MaxEdits,      \* bound on the edits made in the CMS
          RedisMayFail,  \* whether a Redis command may fail or lose its reply
          NoSlug         \* the invalidation call names no property

ASSUME ConstantsAssumption ==
  /\ Longer \in [Details -> SUBSET Details]
  /\ Ttl \in Nat
  /\ Grace \in Nat
  /\ FetchTimeout \in Nat
  /\ MaxEdits \in Nat
  /\ RedisMayFail \in BOOLEAN
  /\ NoSlug \notin Details
  /\ "nothing" \notin Listings \cup Details

Entries == Listings \cup Details

\* error: CMS_UPSTREAM_ERROR, an internal error, or the connection is lost.
Kinds == {"ok", "notFound", "error"}

\* No answer lacks an edit this old (StaleReads).
StaleBound == Ttl + Grace + FetchTimeout

VARIABLES edits,   \* CMS: its edits, oldest first; a version is a number of them
          cache,   \* Redis: what is cached, of which version and how old
          call,    \* what each call of getOrSetWithSWR does
          answer,  \* the last answer given
          hook     \* what each call of the invalidation endpoint does

vars == <<edits, cache, call, answer, hook>>

\* since: ticks since the fetch began; once it is back, since cachedAt.
\* asked: the CMS's version when the request came in (for the properties).
Call == [at : {"looking", "fetching", "fetched", "writing"}, entry : Entries,
         asked : 0 .. MaxEdits, version : 0 .. MaxEdits, since : 0 .. StaleBound, answered : BOOLEAN]
Idle == [at |-> "idle"]

Copy == [version : 0 .. MaxEdits, age : 0 .. Ttl + Grace]

\* untouched: the copies that were cached when the call came in and still are;
\* due: the version then (both for the properties).
Hook == [at : {"details", "delDetails", "listings", "delListings", "ok"},
         slug : Details \cup {NoSlug}, found : SUBSET Entries,
         untouched : SUBSET Entries, due : 0 .. MaxEdits]

Init ==
  /\ edits = <<>>
  /\ cache = [e \in {} |-> {}]
  /\ call = [c \in Calls |-> Idle]
  /\ answer = [kind |-> "error", version |-> 0]
  /\ hook = [h \in Hooks |-> Idle]

-----------------------------------------------------------------------------
(* getOrSetWithSWR *)

Request(c, e) ==
  /\ call[c] = Idle
  /\ call' = [call EXCEPT ![c] = [at |-> "looking", entry |-> e, asked |-> Len(edits),
                                  version |-> 0, since |-> 0, answered |-> FALSE]]
  /\ UNCHANGED <<edits, cache, answer, hook>>

Reply(kind, v) == answer' = [kind |-> kind, version |-> v]

\* The call is over.  A background refresh has answered before: how it ends is
\* only logged.
Finish(c, kind, v) ==
  /\ call' = [call EXCEPT ![c] = Idle]
  /\ IF call[c].answered THEN UNCHANGED answer ELSE Reply(kind, v)

Fresh(copy) == copy.age < Ttl

\* FAULT: one tick too many.
ServesTooOld(copy) == copy.age <= Ttl + Grace

Usable(copy) == copy.age < Ttl + Grace

Hit(c) == call[c].entry \in DOMAIN cache /\ Usable(cache[call[c].entry])

ServeFresh(c) ==
  /\ call[c].at = "looking"
  /\ Hit(c)
  /\ Fresh(cache[call[c].entry])
  /\ Finish(c, "ok", cache[call[c].entry].version)
  /\ UNCHANGED <<edits, cache, hook>>

\* refreshInBackground starts in the same step.
ServeStale(c) ==
  /\ call[c].at = "looking"
  /\ Hit(c)
  /\ ~Fresh(cache[call[c].entry])
  /\ Reply("ok", cache[call[c].entry].version)
  /\ call' = [call EXCEPT ![c].at = "fetching", ![c].answered = TRUE]
  /\ UNCHANGED <<edits, cache, hook>>

Miss(c) ==
  /\ call[c].at = "looking"
  /\ ~Hit(c)
  /\ call' = [call EXCEPT ![c].at = "fetching"]
  /\ UNCHANGED <<edits, cache, answer, hook>>

LookFails(c) ==
  /\ RedisMayFail
  /\ call[c].at = "looking"
  /\ Finish(c, "error", 0)
  /\ UNCHANGED <<edits, cache, hook>>

\* Whether the CMS shows property d after its first v edits.
Shown(d, v) ==
  \A i \in 1 .. v :
    edits[i].slug = d /\ ~edits[i].shown =>
      \E j \in i + 1 .. v : edits[j].slug = d /\ edits[j].shown

\* The CMS executes the query; its reply is on the way.
CmsReads(c) ==
  /\ call[c].at = "fetching"
  /\ call' = [call EXCEPT ![c].at = "fetched", ![c].version = Len(edits)]
  /\ UNCHANGED <<edits, cache, answer, hook>>

\* No such post is an error, which is not cached.
Found(c) == call[c].entry \in Details => Shown(call[c].entry, call[c].version)

FetchReturns(c) ==
  /\ call[c].at = "fetched"
  /\ IF Found(c)
     THEN /\ call' = [call EXCEPT ![c].at = "writing", ![c].since = 0]
          /\ UNCHANGED answer
     ELSE Finish(c, "notFound", call[c].version)
  /\ UNCHANGED <<edits, cache, hook>>

\* The CMS refuses, is unreachable, or the signal aborts the fetch.
FetchFails(c) ==
  /\ call[c].at \in {"fetching", "fetched"}
  /\ Finish(c, "error", 0)
  /\ UNCHANGED <<edits, cache, hook>>

\* FAULT: the fetch has no AbortSignal.
NeverOverdue(c) == FALSE

Overdue(c) == call[c].at \in {"fetching", "fetched"} /\ call[c].since = FetchTimeout

\* FAULT: the copy's age counts from the SET, not from the end of the fetch.
StampedBySet(c) ==
  [e \in DOMAIN cache \cup {call[c].entry} |->
     IF e = call[c].entry THEN [version |-> call[c].version, age |-> 0] ELSE cache[e]]

Stored(c) ==
  [e \in DOMAIN cache \cup {call[c].entry} |->
     IF e = call[c].entry THEN [version |-> call[c].version, age |-> call[c].since]
                          ELSE cache[e]]

Touched(es) ==
  [h \in Hooks |-> IF hook[h] = Idle THEN Idle ELSE [hook[h] EXCEPT !.untouched = @ \ es]]

\* writeCache: SET replaces what is there.
WriteCache(c) ==
  /\ call[c].at = "writing"
  /\ cache' = Stored(c)
  /\ hook' = Touched({call[c].entry})
  /\ Finish(c, "ok", call[c].version)
  /\ UNCHANGED edits

\* SET fails, or only its reply is lost: the fetched content is not served.
WriteFails(c) ==
  /\ RedisMayFail
  /\ call[c].at = "writing"
  /\ \/ UNCHANGED <<cache, hook>>
     \/ cache' = Stored(c) /\ hook' = Touched({call[c].entry})
  /\ Finish(c, "error", 0)
  /\ UNCHANGED edits

\* The process serving the call dies.
Drop(c) ==
  /\ call[c] # Idle
  /\ Finish(c, "error", 0)
  /\ UNCHANGED <<edits, cache, hook>>

-----------------------------------------------------------------------------
(* invalidatePropertyCache *)

\* SCAN MATCH <prefix>*: the pattern also takes the slugs that are longer.
Matched(slug) == IF slug = NoSlug THEN {} ELSE {slug} \cup Longer[slug]

Without(es) == [e \in DOMAIN cache \ es |-> cache[e]]

Invalidate(h, slug) ==
  /\ hook[h].at \in {"idle", "ok"}
  /\ hook' = [hook EXCEPT ![h] =
                [at |-> IF slug = NoSlug THEN "listings" ELSE "details", slug |-> slug,
                 found |-> {}, due |-> Len(edits),
                 untouched |-> DOMAIN cache \cap (Matched(slug) \cup Listings)]]
  /\ UNCHANGED <<edits, cache, call, answer>>

ScanDetails(h) ==
  /\ hook[h].at = "details"
  /\ LET keys == DOMAIN cache \cap Matched(hook[h].slug)
     IN hook' = [hook EXCEPT ![h].at = IF keys = {} THEN "listings" ELSE "delDetails",
                             ![h].found = keys]
  /\ UNCHANGED <<edits, cache, call, answer>>

\* FAULT: only the named property's copies are dropped.
ListingsAreLeft(h) ==
  /\ hook[h].at = "listings"
  /\ hook' = [hook EXCEPT ![h].at = "ok"]
  /\ UNCHANGED <<edits, cache, call, answer>>

ScanListings(h) ==
  /\ hook[h].at = "listings"
  /\ LET keys == DOMAIN cache \cap Listings
     IN hook' = [hook EXCEPT ![h].at = IF keys = {} THEN "ok" ELSE "delListings",
                             ![h].found = keys]
  /\ UNCHANGED <<edits, cache, call, answer>>

\* DEL takes every key of the scan at once, also one that was set again since.
Delete(h) ==
  /\ hook[h].at \in {"delDetails", "delListings"}
  /\ cache' = Without(hook[h].found)
  /\ hook' = [Touched(hook[h].found) EXCEPT
                ![h].at = IF hook[h].at = "delDetails" THEN "listings" ELSE "ok",
                ![h].found = {}]
  /\ UNCHANGED <<edits, call, answer>>

\* A command fails, or the process dies, before or after DEL took effect.
InvalidateFails(h) ==
  /\ hook[h].at \in {"details", "delDetails", "listings", "delListings"}
  /\ \E es \in {{}, hook[h].found} :
       /\ cache' = Without(es)
       /\ hook' = [Touched(es) EXCEPT ![h] = Idle]
  /\ UNCHANGED <<edits, call, answer>>

-----------------------------------------------------------------------------
(* Redis, the CMS and time *)

\* The key reaches its six hours, is evicted, or Redis restarts without it.
Expire(e) ==
  /\ e \in DOMAIN cache
  /\ cache' = Without({e})
  /\ hook' = Touched({e})
  /\ UNCHANGED <<edits, call, answer>>

\* An editor changes property d; shown: it is published afterwards.
Edit(d, shown) ==
  /\ Len(edits) < MaxEdits
  /\ edits' = Append(edits, [slug |-> d, shown |-> shown, age |-> 0])
  /\ UNCHANGED <<cache, call, answer, hook>>

Older(age, cap) == IF age < cap THEN age + 1 ELSE age

\* AbortSignal.timeout lets no fetch run on past its time.
Tick ==
  /\ \A c \in Calls : ~Overdue(c)
  /\ edits' = [i \in DOMAIN edits |-> [edits[i] EXCEPT !.age = Older(@, StaleBound)]]
  /\ cache' = [e \in DOMAIN cache |-> [cache[e] EXCEPT !.age = Older(@, Ttl + Grace)]]
  /\ call' = [c \in Calls |->
                CASE call[c].at \in {"fetching", "fetched"} ->
                       [call[c] EXCEPT !.since = Older(@, StaleBound)]
                  [] call[c].at = "writing" -> [call[c] EXCEPT !.since = Older(@, Ttl + Grace)]
                  [] OTHER -> call[c]]
  /\ UNCHANGED <<answer, hook>>

Look(c) == ServeFresh(c) \/ ServeStale(c) \/ Miss(c) \/ LookFails(c)
Write(c) == WriteCache(c) \/ WriteFails(c)

Next ==
  \/ \E c \in Calls :
       \/ \E e \in Entries : Request(c, e)
       \/ Look(c)
       \/ CmsReads(c)
       \/ FetchReturns(c)
       \/ FetchFails(c)
       \/ Write(c)
       \/ Drop(c)
  \/ \E h \in Hooks :
       \/ \E slug \in Details \cup {NoSlug} : Invalidate(h, slug)
       \/ ScanDetails(h)
       \/ ScanListings(h)
       \/ Delete(h)
       \/ InvalidateFails(h)
  \/ \E e \in Entries : Expire(e)
  \/ \E d \in Details, shown \in BOOLEAN : Edit(d, shown)
  \/ Tick

Spec == Init /\ [][Next]_vars

\* Time passes, the signal's timer fires, and Redis answers or its client gives
\* up (maxRetriesPerRequest).  The CMS need not answer at all.
Fairness ==
  /\ WF_vars(Tick)
  /\ \A c \in Calls :
       /\ WF_vars(Look(c))
       /\ WF_vars(Overdue(c) /\ FetchFails(c))
       /\ WF_vars(Write(c))

FairSpec == Spec /\ Fairness
=============================================================================
