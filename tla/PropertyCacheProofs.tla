-------------------------- MODULE PropertyCacheProofs --------------------------
(***************************************************************************)
(* Proofs about PropertyCache: bounded staleness (it implements            *)
(* StaleReads), honest ages and thorough invalidations, for any number of  *)
(* pages, properties, readers, invalidations and edits, and for any TTL,   *)
(* grace window and timeout.                                               *)
(***************************************************************************)
EXTENDS PropertyCacheProperties, SequenceTheorems, TLAPS

USE ConstantsAssumption

-----------------------------------------------------------------------------
(* The inductive invariant *)

\* What may be stored as a copy of e: of a version the CMS had, honest about its
\* age, and of a property that was shown.
Honest(e, version, age) ==
  /\ version <= Len(edits)
  /\ Lags(e, version, age)
  /\ e \in Details => Shown(e, version)

CopiesAreHonest == \A e \in DOMAIN cache : Honest(e, cache[e].version, cache[e].age)

\* A reply on its way lacks only edits made since the fetch began, and none that
\* was made before the request.
SoundCall(c) ==
  /\ call[c] # Idle => call[c].asked <= Len(edits)
  /\ call[c].at = "looking" => call[c].since = 0 /\ ~call[c].answered
  /\ call[c].at \in {"fetched", "writing"} =>
       call[c].asked <= call[c].version /\ call[c].version <= Len(edits)
  /\ call[c].at = "fetched" =>
       \A i \in call[c].version + 1 .. Len(edits) : edits[i].age <= call[c].since
  /\ call[c].at = "writing" => /\ call[c].since <= Ttl + Grace
                               /\ Honest(call[c].entry, call[c].version, call[c].since)

CallsAreSound == \A c \in Calls : SoundCall(c)

\* What an invalidation has not met yet, it still will.
ThoroughAt(r, cached) ==
  /\ r.untouched \subseteq cached
  /\ r.at = "details" => r.untouched \subseteq Matched(r.slug) \cup Listings
  /\ r.at = "delDetails" => r.untouched \subseteq r.found \cup Listings
  /\ r.at = "listings" => r.untouched \subseteq Listings
  /\ r.at = "delListings" => r.untouched \subseteq r.found
  /\ r.at = "ok" => r.untouched = {}

HooksAreThorough ==
  \A h \in Hooks : hook[h] # Idle => ThoroughAt(hook[h], DOMAIN cache)

CInv ==
  /\ TypeOK
  /\ CopiesAreHonest
  /\ CallsAreSound
  /\ HooksAreThorough

LEMMA InitOK == Init => CInv
<1> SUFFICES ASSUME Init PROVE CInv
  OBVIOUS
<1>1. TypeOK
  BY DEF Init, TypeOK, Idle, Kinds, Copy
<1>2. CopiesAreHonest
  BY DEF Init, CopiesAreHonest
<1>3. CallsAreSound
  BY DEF Init, CallsAreSound, SoundCall, Idle
<1>4. HooksAreThorough
  BY DEF Init, HooksAreThorough
<1> QED BY <1>1, <1>2, <1>3, <1>4 DEF CInv

-----------------------------------------------------------------------------
(* Types *)

EditType == [slug : Details, shown : BOOLEAN, age : 0 .. StaleBound]

LEMMA Bounds ==
  /\ StaleBound \in Nat /\ Ttl + Grace \in Nat
  /\ FetchTimeout <= StaleBound /\ Ttl + Grace <= StaleBound
BY DEF StaleBound

LEMMA BusyCall ==
  ASSUME TypeOK, NEW c \in Calls, call[c] # Idle \/ call[c].at # "idle"
  PROVE  /\ call[c] \in Call /\ call[c] # Idle /\ call[c].entry \in Entries
         /\ call[c].at \in {"looking", "fetching", "fetched", "writing"}
         /\ call[c].asked \in Nat /\ call[c].version \in Nat /\ call[c].since \in Nat
         /\ call[c].version \in 0 .. MaxEdits /\ call[c].asked \in 0 .. MaxEdits
BY Bounds DEF TypeOK, Call, Idle

LEMMA EditTypes ==
  ASSUME TypeOK
  PROVE  /\ Len(edits) \in Nat /\ DOMAIN edits = 1 .. Len(edits) /\ Len(edits) <= MaxEdits
         /\ \A i \in 1 .. Len(edits) : edits[i] \in EditType /\ edits[i].age \in Nat
<1>1. edits \in Seq(EditType) /\ Len(edits) <= MaxEdits
  BY DEF TypeOK, EditType
<1>2. Len(edits) \in Nat /\ DOMAIN edits = 1 .. Len(edits)
  BY <1>1
<1>3. \A i \in 1 .. Len(edits) : edits[i] \in EditType
  BY <1>1, <1>2
<1>4. \A r \in EditType : r.age \in Nat
  BY Bounds DEF EditType
<1> QED BY <1>1, <1>2, <1>3, <1>4

LEMMA FinishTypes ==
  ASSUME TypeOK, NEW c \in Calls, NEW kind \in Kinds, NEW v \in 0 .. MaxEdits, Finish(c, kind, v)
  PROVE  /\ call' \in [Calls -> Call \cup {Idle}]
         /\ \A d \in Calls : call'[d].at \in {"fetching", "fetched"} => call'[d].since <= FetchTimeout
         /\ answer' \in [kind : Kinds, version : 0 .. MaxEdits]
BY DEF TypeOK, Finish, Reply, Idle

LEMMA CallChange ==
  ASSUME TypeOK, NEW c \in Calls, NEW r \in Call, call' = [call EXCEPT ![c] = r],
         r.at \in {"fetching", "fetched"} => r.since <= FetchTimeout
  PROVE  /\ call' \in [Calls -> Call \cup {Idle}]
         /\ \A d \in Calls : call'[d].at \in {"fetching", "fetched"} => call'[d].since <= FetchTimeout
BY DEF TypeOK

LEMMA TouchedTypes ==
  ASSUME TypeOK, NEW es
  PROVE  /\ Touched(es) \in [Hooks -> Hook \cup {Idle}]
         /\ \A h \in Hooks : /\ hook[h] = Idle => Touched(es)[h] = Idle
                             /\ hook[h] # Idle =>
                                  Touched(es)[h] = [hook[h] EXCEPT !.untouched = hook[h].untouched \ es]
<1>1. ASSUME NEW h \in Hooks, hook[h] # Idle
      PROVE  [hook[h] EXCEPT !.untouched = hook[h].untouched \ es] \in Hook
  BY <1>1 DEF TypeOK, Hook
<1> QED BY <1>1 DEF Touched

LEMMA StoredTypes ==
  ASSUME TypeOK, NEW c \in Calls, call[c].at = "writing", call[c].since <= Ttl + Grace
  PROVE  /\ DOMAIN Stored(c) = DOMAIN cache \cup {call[c].entry}
         /\ DOMAIN Stored(c) \subseteq Entries
         /\ Stored(c) \in [DOMAIN Stored(c) -> Copy]
         /\ Stored(c)[call[c].entry] = [version |-> call[c].version, age |-> call[c].since]
         /\ \A e \in DOMAIN cache : e # call[c].entry => Stored(c)[e] = cache[e]
BY BusyCall, Bounds DEF TypeOK, Stored, Copy

-----------------------------------------------------------------------------
(* Steps of one call *)

LEMMA SameEdits ==
  ASSUME UNCHANGED edits, NEW e, NEW v, NEW age
  PROVE  /\ Honest(e, v, age)' <=> Honest(e, v, age)
         /\ Shown(e, v)' <=> Shown(e, v)
BY DEF Honest, Lags, Shown

\* What a record of a call under way must satisfy.
SoundRecord(r) ==
  /\ r \in Call
  /\ r.asked <= Len(edits)
  /\ r.at = "looking" => r.since = 0 /\ ~r.answered
  /\ r.at \in {"fetching", "fetched"} => r.since <= FetchTimeout
  /\ r.at \in {"fetched", "writing"} => r.asked <= r.version /\ r.version <= Len(edits)
  /\ r.at = "fetched" => \A i \in r.version + 1 .. Len(edits) : edits[i].age <= r.since
  /\ r.at = "writing" => r.since <= Ttl + Grace /\ Honest(r.entry, r.version, r.since)

LEMMA BusyIsSound ==
  ASSUME TypeOK, CallsAreSound, NEW c \in Calls, call[c] # Idle
  PROVE  SoundRecord(call[c])
BY BusyCall DEF TypeOK, CallsAreSound, SoundCall, SoundRecord

LEMMA OnlyACall ==
  ASSUME CInv, UNCHANGED <<edits, cache, hook>>, NEW c \in Calls, NEW r,
         r = Idle \/ SoundRecord(r),
         call' = [call EXCEPT ![c] = r],
         answer' \in [kind : Kinds, version : 0 .. MaxEdits]
  PROVE  CInv'
<1>0. r = Idle \/ r \in Call
  BY DEF SoundRecord
<1>1. call' \in [Calls -> Call \cup {Idle}]
  BY <1>0 DEF CInv, TypeOK
<1>2. \A d \in Calls : call'[d] = IF d = c THEN r ELSE call[d]
  BY DEF CInv, TypeOK
<1>3. TypeOK'
  BY <1>1, <1>2 DEF CInv, TypeOK, SoundRecord, Idle
<1>4. CopiesAreHonest'
  <2>1. cache' = cache /\ edits' = edits
    OBVIOUS
  <2>2. ASSUME NEW e \in DOMAIN cache
        PROVE  Honest(e, cache[e].version, cache[e].age)'
    <3>1. Honest(e, cache[e].version, cache[e].age)
      BY DEF CInv, CopiesAreHonest
    <3> QED BY <2>1, <3>1 DEF Honest, Lags, Shown
  <2> QED BY <2>1, <2>2 DEF CopiesAreHonest
<1>5. ASSUME NEW d \in Calls
      PROVE  SoundCall(d)'
  <2>1. CASE d # c
    <3>1. call'[d] = call[d] /\ SoundCall(d)
      BY <2>1, <1>2 DEF CInv, CallsAreSound
    <3> QED BY <3>1 DEF SoundCall, Honest, Lags, Shown
  <2>2. CASE d = c /\ r = Idle
    <3>1. call'[d] = Idle
      BY <2>2, <1>2
    <3> QED BY <3>1 DEF SoundCall, Idle
  <2>3. CASE d = c /\ SoundRecord(r)
    <3>1. call'[d] = r
      BY <2>3, <1>2
    <3> QED BY <2>3, <3>1 DEF SoundCall, SoundRecord, Honest, Lags, Shown
  <2> QED BY <2>1, <2>2, <2>3
<1>6. HooksAreThorough'
  BY DEF CInv, HooksAreThorough
<1> QED BY <1>3, <1>4, <1>5, <1>6 DEF CInv, CallsAreSound

LEMMA Ends ==
  ASSUME CInv, UNCHANGED <<edits, cache, hook>>, NEW c \in Calls,
         NEW kind \in Kinds, NEW v \in 0 .. MaxEdits, Finish(c, kind, v)
  PROVE  CInv'
<1>1. answer' \in [kind : Kinds, version : 0 .. MaxEdits]
  BY FinishTypes DEF CInv
<1>2. call' = [call EXCEPT ![c] = Idle]
  BY DEF Finish
<1> QED BY <1>1, <1>2, OnlyACall

LEMMA CopyTypes ==
  ASSUME TypeOK, NEW e \in DOMAIN cache
  PROVE  /\ e \in Entries
         /\ cache[e].version \in 0 .. MaxEdits /\ cache[e].age \in 0 .. Ttl + Grace
         /\ cache[e] = [version |-> cache[e].version, age |-> cache[e].age]
BY DEF TypeOK, Copy

LEMMA RequestOK ==
  ASSUME CInv, NEW c \in Calls, NEW e \in Entries, Request(c, e)
  PROVE  CInv'
<1> DEFINE r == [at |-> "looking", entry |-> e, asked |-> Len(edits),
                 version |-> 0, since |-> 0, answered |-> FALSE]
<1>1. Len(edits) \in 0 .. MaxEdits
  BY EditTypes DEF CInv
<1>2. SoundRecord(r)
  BY <1>1, Bounds DEF SoundRecord, Call
<1>3. answer' \in [kind : Kinds, version : 0 .. MaxEdits]
  BY DEF Request, CInv, TypeOK
<1> QED BY <1>2, <1>3, OnlyACall DEF Request

LEMMA LookOK ==
  ASSUME CInv, NEW c \in Calls, Look(c)
  PROVE  CInv'
<1>0. TypeOK /\ call[c] # Idle /\ SoundRecord(call[c])
  BY BusyIsSound DEF Look, ServeFresh, ServeStale, Miss, LookFails, CInv, Idle
<1>1. CASE ServeFresh(c)
  BY <1>0, <1>1, CopyTypes, Ends DEF ServeFresh, Hit, Kinds
<1>2. CASE ServeStale(c)
  <2> DEFINE r == [call[c] EXCEPT !.at = "fetching", !.answered = TRUE]
  <2>a. call[c] \in Call /\ call[c].at = "looking" /\ call[c].asked <= Len(edits)
        /\ call[c].since = 0
    BY <1>0, <1>2 DEF SoundRecord, ServeStale
  <2>b. r \in Call /\ r.at = "fetching" /\ r.asked = call[c].asked /\ r.since = 0
    BY <2>a DEF Call
  <2>1. SoundRecord(r)
    BY <2>a, <2>b DEF SoundRecord
  <2>2. call' = [call EXCEPT ![c] = r]
    BY <1>0, <1>2 DEF ServeStale, TypeOK, Call
  <2>3. answer' \in [kind : Kinds, version : 0 .. MaxEdits]
    BY <1>0, <1>2, CopyTypes DEF ServeStale, Hit, Reply, Kinds
  <2> QED BY <1>2, <2>1, <2>2, <2>3, OnlyACall DEF ServeStale
<1>3. CASE Miss(c)
  <2> DEFINE r == [call[c] EXCEPT !.at = "fetching"]
  <2>1. SoundRecord(r)
    BY <1>0, <1>3 DEF SoundRecord, Call, Miss
  <2>2. call' = [call EXCEPT ![c] = r]
    BY <1>0, <1>3 DEF Miss, TypeOK, Call
  <2>3. answer' \in [kind : Kinds, version : 0 .. MaxEdits]
    BY <1>0, <1>3 DEF Miss, TypeOK
  <2> QED BY <1>3, <2>1, <2>2, <2>3, OnlyACall DEF Miss
<1>4. CASE LookFails(c)
  BY <1>4, Ends DEF LookFails, Kinds
<1> QED BY <1>1, <1>2, <1>3, <1>4 DEF Look

LEMMA FetchOK ==
  ASSUME CInv, NEW c \in Calls, CmsReads(c) \/ FetchReturns(c) \/ FetchFails(c) \/ Drop(c)
  PROVE  CInv'
<1>0. TypeOK /\ call[c] # Idle /\ SoundRecord(call[c]) /\ Len(edits) \in 0 .. MaxEdits
  BY BusyIsSound, EditTypes DEF CmsReads, FetchReturns, FetchFails, Drop, CInv, Idle
<1>1. CASE CmsReads(c)
  <2> DEFINE r == [call[c] EXCEPT !.at = "fetched", !.version = Len(edits)]
  <2>a. call[c] \in Call /\ call[c].at = "fetching" /\ call[c].asked <= Len(edits)
        /\ call[c].since <= FetchTimeout
    BY <1>0, <1>1 DEF SoundRecord, CmsReads
  <2>b. /\ r \in Call /\ r.at = "fetched" /\ r.version = Len(edits)
        /\ r.asked = call[c].asked /\ r.since = call[c].since
    BY <1>0, <2>a DEF Call
  <2>c. Len(edits) + 1 .. Len(edits) = {}
    BY <1>0
  <2>1. SoundRecord(r)
    BY <1>0, <2>a, <2>b, <2>c DEF SoundRecord
  <2>2. call' = [call EXCEPT ![c] = r]
    BY <1>0, <1>1 DEF CmsReads, TypeOK, Call
  <2>3. answer' \in [kind : Kinds, version : 0 .. MaxEdits]
    BY <1>0, <1>1 DEF CmsReads, TypeOK
  <2> QED BY <1>1, <2>1, <2>2, <2>3, OnlyACall DEF CmsReads
<1>2. CASE FetchReturns(c) /\ Found(c)
  <2> DEFINE r == [call[c] EXCEPT !.at = "writing", !.since = 0]
  <2>1. call[c].at = "fetched" /\ call[c].version <= Len(edits) /\ call[c].version \in Nat
        /\ call[c].since <= FetchTimeout
    BY <1>0, <1>2, BusyCall DEF FetchReturns, SoundRecord
  <2>2. \A i \in call[c].version + 1 .. Len(edits) : edits[i].age <= FetchTimeout
    <3> SUFFICES ASSUME NEW i \in call[c].version + 1 .. Len(edits)
                 PROVE  edits[i].age <= FetchTimeout
      OBVIOUS
    <3>1. edits[i].age <= call[c].since
      BY <1>0, <2>1 DEF SoundRecord
    <3>2. edits[i].age \in Nat /\ call[c].since \in Nat
      BY <1>0, <2>1, EditTypes, BusyCall
    <3> QED BY <2>1, <3>1, <3>2
  <2>3. Honest(call[c].entry, call[c].version, 0)
    BY <1>2, <2>1, <2>2 DEF Honest, Lags, Found
  <2>a. call[c] \in Call /\ call[c].asked <= Len(edits) /\ call[c].asked <= call[c].version
    BY <1>0, <2>1 DEF SoundRecord
  <2>b. /\ r \in Call /\ r.at = "writing" /\ r.version = call[c].version
        /\ r.asked = call[c].asked /\ r.since = 0 /\ r.entry = call[c].entry
    <3>1. 0 \in 0 .. StaleBound
      BY Bounds
    <3> QED BY <2>a, <3>1 DEF Call
  <2>4. SoundRecord(r)
    BY <2>1, <2>3, <2>a, <2>b, Bounds DEF SoundRecord
  <2>5. call' = [call EXCEPT ![c] = r]
    BY <1>0, <1>2 DEF FetchReturns, TypeOK, Call
  <2>6. answer' \in [kind : Kinds, version : 0 .. MaxEdits]
    BY <1>0, <1>2 DEF FetchReturns, TypeOK
  <2> QED BY <1>2, <2>4, <2>5, <2>6, OnlyACall DEF FetchReturns
<1>3. CASE FetchReturns(c) /\ ~Found(c)
  <2>1. call[c].version \in 0 .. MaxEdits
    BY <1>0, BusyCall
  <2> QED BY <1>3, <2>1, Ends DEF FetchReturns, Kinds
<1>4. CASE FetchFails(c) \/ Drop(c)
  BY <1>4, Ends DEF FetchFails, Drop, Kinds
<1> QED BY <1>1, <1>2, <1>3, <1>4

-----------------------------------------------------------------------------
(* Steps that only take copies out of the cache *)

LEMMA Dropping ==
  ASSUME CInv, NEW es, cache' = Without(es), UNCHANGED <<edits, call, answer>>,
         hook' \in [Hooks -> Hook \cup {Idle}],
         \A h \in Hooks : hook'[h] # Idle => ThoroughAt(hook'[h], DOMAIN cache \ es)
  PROVE  CInv'
<1>0. edits' = edits /\ call' = call /\ answer' = answer
  OBVIOUS
<1>1. /\ DOMAIN cache' = DOMAIN cache \ es
      /\ \A e \in DOMAIN cache' : cache'[e] = cache[e]
  BY DEF Without
<1>2. cache' \in [DOMAIN cache' -> Copy]
  BY <1>1 DEF CInv, TypeOK, Without
<1>3. TypeOK'
  BY <1>0, <1>1, <1>2 DEF CInv, TypeOK
<1>4. ASSUME NEW e \in DOMAIN cache'
      PROVE  Honest(e, cache[e].version, cache[e].age)'
  <2>1. Honest(e, cache[e].version, cache[e].age) /\ cache'[e] = cache[e]
    BY <1>1 DEF CInv, CopiesAreHonest
  <2> QED BY <1>0, <2>1 DEF Honest, Lags, Shown
<1>5. ASSUME NEW c \in Calls
      PROVE  SoundCall(c)'
  <2>1. SoundCall(c)
    BY DEF CInv, CallsAreSound
  <2> QED BY <1>0, <2>1 DEF SoundCall, Honest, Lags, Shown
<1>6. HooksAreThorough'
  BY <1>1 DEF HooksAreThorough
<1> QED BY <1>3, <1>4, <1>5, <1>6 DEF CInv, CopiesAreHonest, CallsAreSound

LEMMA TouchedThorough ==
  ASSUME CInv, NEW es, NEW h \in Hooks, hook[h] # Idle
  PROVE  /\ hook[h] \in Hook /\ Touched(es)[h] \in Hook
         /\ Touched(es)[h] = [hook[h] EXCEPT !.untouched = hook[h].untouched \ es]
         /\ Touched(es)[h].untouched = hook[h].untouched \ es
         /\ ThoroughAt(Touched(es)[h], DOMAIN cache \ es)
<1>1. hook[h] \in Hook /\ ThoroughAt(hook[h], DOMAIN cache)
  BY DEF CInv, TypeOK, HooksAreThorough
<1>2. Touched(es)[h] = [hook[h] EXCEPT !.untouched = hook[h].untouched \ es]
  BY TouchedTypes DEF CInv
<1>3. /\ Touched(es)[h] \in Hook
      /\ Touched(es)[h].untouched = hook[h].untouched \ es
      /\ Touched(es)[h].at = hook[h].at
      /\ Touched(es)[h].slug = hook[h].slug
      /\ Touched(es)[h].found = hook[h].found
  BY <1>1, <1>2 DEF Hook
<1>4. ThoroughAt(Touched(es)[h], DOMAIN cache \ es)
  BY <1>1, <1>3 DEF ThoroughAt
<1> QED BY <1>1, <1>2, <1>3, <1>4

LEMMA OnlyAHook ==
  ASSUME CInv, UNCHANGED <<edits, cache, call, answer>>, NEW h \in Hooks, NEW r \in Hook,
         ThoroughAt(r, DOMAIN cache), hook' = [hook EXCEPT ![h] = r]
  PROVE  CInv'
<1>1. cache' = Without({})
  BY DEF Without, CInv, TypeOK
<1>2. hook' \in [Hooks -> Hook \cup {Idle}]
  BY DEF CInv, TypeOK
<1>3. ASSUME NEW g \in Hooks, hook'[g] # Idle
      PROVE  ThoroughAt(hook'[g], DOMAIN cache \ {})
  <2>1. DOMAIN cache \ {} = DOMAIN cache
    OBVIOUS
  <2>2. hook'[g] = IF g = h THEN r ELSE hook[g]
    BY DEF CInv, TypeOK
  <2> QED BY <1>3, <2>1, <2>2 DEF CInv, HooksAreThorough
<1> QED BY <1>1, <1>2, <1>3, Dropping

LEMMA ExpireOK ==
  ASSUME CInv, NEW e \in Entries, Expire(e)
  PROVE  CInv'
<1>1. hook' \in [Hooks -> Hook \cup {Idle}]
  BY TouchedTypes DEF Expire, CInv
<1>2. ASSUME NEW h \in Hooks, hook'[h] # Idle
      PROVE  ThoroughAt(hook'[h], DOMAIN cache \ {e})
  BY <1>2, TouchedTypes, TouchedThorough DEF Expire, CInv
<1> QED BY <1>1, <1>2, Dropping DEF Expire

LEMMA InvalidateOK ==
  ASSUME CInv, NEW h \in Hooks, NEW slug \in Details \cup {NoSlug}, Invalidate(h, slug)
  PROVE  CInv'
<1> DEFINE r == [at |-> IF slug = NoSlug THEN "listings" ELSE "details", slug |-> slug,
                 found |-> {}, due |-> Len(edits),
                 untouched |-> DOMAIN cache \cap (Matched(slug) \cup Listings)]
<1>1. Len(edits) \in 0 .. MaxEdits /\ DOMAIN cache \subseteq Entries
  BY EditTypes DEF CInv, TypeOK
<1>2. r \in Hook
  BY <1>1 DEF Hook
<1>3. ThoroughAt(r, DOMAIN cache)
  BY DEF ThoroughAt, Matched
<1> QED BY <1>2, <1>3, OnlyAHook DEF Invalidate

LEMMA ScanOK ==
  ASSUME CInv, NEW h \in Hooks, ScanDetails(h) \/ ScanListings(h)
  PROVE  CInv'
<1>0. hook[h] # Idle
  BY DEF ScanDetails, ScanListings, Idle
<1>1. hook[h] \in Hook /\ ThoroughAt(hook[h], DOMAIN cache) /\ DOMAIN cache \subseteq Entries
  BY <1>0 DEF CInv, TypeOK, HooksAreThorough
<1>2. CASE ScanDetails(h)
  <2> DEFINE keys == DOMAIN cache \cap Matched(hook[h].slug)
             to == IF keys = {} THEN "listings" ELSE "delDetails"
             r == [hook[h] EXCEPT !.at = to, !.found = keys]
  <2>1. keys \in SUBSET Entries /\ to \in {"listings", "delDetails"}
    BY <1>1
  <2> HIDE DEF keys, to
  <2>2. /\ r \in Hook /\ r.at = to /\ r.found = keys
        /\ r.untouched = hook[h].untouched /\ r.slug = hook[h].slug
    BY <1>1, <2>1 DEF Hook
  <2>3. ThoroughAt(r, DOMAIN cache)
    BY <1>1, <1>2, <2>1, <2>2 DEF ThoroughAt, ScanDetails, keys, to
  <2>4. hook' = [hook EXCEPT ![h] = r]
    BY <1>1, <1>2 DEF ScanDetails, CInv, TypeOK, Hook, keys, to
  <2> QED BY <1>2, <2>2, <2>3, <2>4, OnlyAHook DEF ScanDetails
<1>3. CASE ScanListings(h)
  <2> DEFINE keys == DOMAIN cache \cap Listings
             to == IF keys = {} THEN "ok" ELSE "delListings"
             r == [hook[h] EXCEPT !.at = to, !.found = keys]
  <2>1. keys \in SUBSET Entries /\ to \in {"ok", "delListings"}
    BY <1>1
  <2> HIDE DEF keys, to
  <2>2. /\ r \in Hook /\ r.at = to /\ r.found = keys
        /\ r.untouched = hook[h].untouched /\ r.slug = hook[h].slug
    BY <1>1, <2>1 DEF Hook
  <2>3. ThoroughAt(r, DOMAIN cache)
    BY <1>1, <1>3, <2>1, <2>2 DEF ThoroughAt, ScanListings, keys, to
  <2>4. hook' = [hook EXCEPT ![h] = r]
    BY <1>1, <1>3 DEF ScanListings, CInv, TypeOK, Hook, keys, to
  <2> QED BY <1>3, <2>2, <2>3, <2>4, OnlyAHook DEF ScanListings
<1> QED BY <1>2, <1>3

LEMMA DeleteOK ==
  ASSUME CInv, NEW h \in Hooks, Delete(h)
  PROVE  CInv'
<1> DEFINE es == hook[h].found
           to == IF hook[h].at = "delDetails" THEN "listings" ELSE "ok"
           T == Touched(es)
           r == [T[h] EXCEPT !.at = to, !.found = {}]
<1>0. hook[h] # Idle /\ hook[h].at \in {"delDetails", "delListings"}
  BY DEF Delete, Idle
<1>1. /\ hook[h] \in Hook /\ T[h] \in Hook
      /\ T[h].untouched = hook[h].untouched \ es
      /\ ThoroughAt(T[h], DOMAIN cache \ es) /\ ThoroughAt(hook[h], DOMAIN cache)
  BY <1>0, TouchedThorough DEF CInv, HooksAreThorough
<1>2. /\ r \in Hook /\ r.at = to /\ r.found = {} /\ r.untouched = hook[h].untouched \ es
      /\ r.slug = T[h].slug
  <2>1. to \in {"listings", "ok"}
    OBVIOUS
  <2> HIDE DEF T, to, es
  <2> QED BY <1>1, <2>1 DEF Hook
<1>3. ThoroughAt(r, DOMAIN cache \ es)
  <2> HIDE DEF r, T
  <2> QED BY <1>0, <1>1, <1>2 DEF ThoroughAt
<1>4. T \in [Hooks -> Hook \cup {Idle}]
  BY TouchedTypes DEF CInv
<1>5. hook' = [T EXCEPT ![h] = r]
  BY <1>1, <1>4 DEF Delete, Hook
<1>6. hook' \in [Hooks -> Hook \cup {Idle}]
  <2> HIDE DEF r, T
  <2> QED BY <1>2, <1>4, <1>5
<1>7. ASSUME NEW g \in Hooks, hook'[g] # Idle
      PROVE  ThoroughAt(hook'[g], DOMAIN cache \ es)
  <2>1. hook'[g] = IF g = h THEN r ELSE T[g]
    <3> HIDE DEF r, T
    <3> QED BY <1>4, <1>5
  <2>2. CASE g = h
    BY <1>3, <2>1, <2>2
  <2>3. CASE g # h
    <3>1. hook[g] # Idle
      BY <1>7, <2>1, <2>3, TouchedTypes DEF CInv
    <3> QED BY <2>1, <2>3, <3>1, TouchedThorough
  <2> QED BY <2>2, <2>3
<1> QED BY <1>6, <1>7, Dropping DEF Delete

LEMMA InvalidateFailsOK ==
  ASSUME CInv, NEW h \in Hooks, InvalidateFails(h)
  PROVE  CInv'
<1>1. PICK es \in {{}, hook[h].found} :
        /\ cache' = Without(es)
        /\ hook' = [Touched(es) EXCEPT ![h] = Idle]
  BY DEF InvalidateFails
<1>2. Touched(es) \in [Hooks -> Hook \cup {Idle}]
  BY TouchedTypes DEF CInv
<1>3. hook' \in [Hooks -> Hook \cup {Idle}]
  BY <1>1, <1>2
<1>4. ASSUME NEW g \in Hooks, hook'[g] # Idle
      PROVE  ThoroughAt(hook'[g], DOMAIN cache \ es)
  <2>1. hook'[g] = IF g = h THEN Idle ELSE Touched(es)[g]
    BY <1>1, <1>2
  <2>2. g # h /\ hook[g] # Idle /\ hook'[g] = Touched(es)[g]
    BY <1>4, <2>1, TouchedTypes DEF CInv
  <2> QED BY <2>2, TouchedThorough
<1> QED BY <1>1, <1>3, <1>4, Dropping DEF InvalidateFails

-----------------------------------------------------------------------------
(* The steps that store a copy, edit the CMS or let time pass *)

LEMMA Storing ==
  ASSUME CInv, NEW c \in Calls, call[c].at = "writing", UNCHANGED edits,
         cache' = Stored(c), hook' = Touched({call[c].entry}),
         NEW kind \in Kinds, NEW v \in 0 .. MaxEdits, Finish(c, kind, v)
  PROVE  CInv'
<1> DEFINE en == call[c].entry
<1>0. TypeOK /\ call[c] # Idle /\ SoundRecord(call[c]) /\ en \in Entries
  BY BusyIsSound, BusyCall DEF CInv, Idle
<1>1. call[c].since <= Ttl + Grace /\ Honest(en, call[c].version, call[c].since)
  BY <1>0 DEF SoundRecord
<1>2. /\ DOMAIN cache' = DOMAIN cache \cup {en}
      /\ DOMAIN cache' \subseteq Entries
      /\ cache' \in [DOMAIN cache' -> Copy]
      /\ cache'[en] = [version |-> call[c].version, age |-> call[c].since]
      /\ \A e \in DOMAIN cache : e # en => cache'[e] = cache[e]
  BY <1>0, <1>1, StoredTypes
<1>3. hook' \in [Hooks -> Hook \cup {Idle}]
  BY <1>0, TouchedTypes
<1>4. TypeOK'
  BY <1>0, <1>2, <1>3, FinishTypes DEF TypeOK
<1>5. ASSUME NEW e \in DOMAIN cache'
      PROVE  Honest(e, cache[e].version, cache[e].age)'
  <2>1. CASE e = en
    <3>1. cache'[e].version = call[c].version /\ cache'[e].age = call[c].since
      BY <1>2, <2>1
    <3> QED BY <1>1, <2>1, <3>1 DEF Honest, Lags, Shown
  <2>2. CASE e # en
    <3>1. e \in DOMAIN cache /\ cache'[e] = cache[e]
      BY <1>2, <2>2
    <3>2. Honest(e, cache[e].version, cache[e].age)
      BY <3>1 DEF CInv, CopiesAreHonest
    <3> QED BY <3>1, <3>2 DEF Honest, Lags, Shown
  <2> QED BY <2>1, <2>2
<1>6. ASSUME NEW d \in Calls
      PROVE  SoundCall(d)'
  <2>1. call'[d] = IF d = c THEN Idle ELSE call[d]
    BY <1>0 DEF Finish, TypeOK
  <2>2. CASE d = c
    BY <2>1, <2>2 DEF SoundCall, Idle
  <2>3. CASE d # c
    <3>1. call'[d] = call[d] /\ SoundCall(d)
      BY <2>1, <2>3 DEF CInv, CallsAreSound
    <3> QED BY <3>1 DEF SoundCall, Honest, Lags, Shown
  <2> QED BY <2>2, <2>3
<1>7. ASSUME NEW h \in Hooks, hook'[h] # Idle
      PROVE  ThoroughAt(hook'[h], DOMAIN cache')
  <2>1. hook[h] # Idle
    BY <1>7, <1>0, TouchedTypes
  <2>2. hook'[h] = Touched({en})[h]
    OBVIOUS
  <2>3. ThoroughAt(hook'[h], DOMAIN cache \ {en})
    BY <2>1, <2>2, TouchedThorough
  <2> QED BY <1>2, <2>3 DEF ThoroughAt
<1> QED BY <1>4, <1>5, <1>6, <1>7 DEF CInv, CopiesAreHonest, CallsAreSound, HooksAreThorough

LEMMA WriteOK ==
  ASSUME CInv, NEW c \in Calls, Write(c)
  PROVE  CInv'
<1>0. call[c].at = "writing" /\ call[c].version \in 0 .. MaxEdits
  BY BusyCall DEF Write, WriteCache, WriteFails, CInv, Idle
<1>1. CASE WriteCache(c)
  BY <1>0, <1>1, Storing DEF WriteCache, Kinds
<1>2. CASE WriteFails(c) /\ UNCHANGED <<cache, hook>>
  BY <1>2, Ends DEF WriteFails, Kinds
<1>3. CASE WriteFails(c) /\ cache' = Stored(c) /\ hook' = Touched({call[c].entry})
  BY <1>0, <1>3, Storing DEF WriteFails, Kinds
<1> QED BY <1>1, <1>2, <1>3 DEF Write, WriteFails

\* What is honest stays so when the CMS is edited ...
LEMMA HonestEdit ==
  ASSUME TypeOK, NEW d \in Details, NEW shown \in BOOLEAN, Edit(d, shown),
         NEW e, NEW v \in Nat, NEW age \in Nat, Honest(e, v, age)
  PROVE  Honest(e, v, age)'
<1>1. /\ Len(edits') = Len(edits) + 1 /\ Len(edits) \in Nat
      /\ edits'[Len(edits) + 1].age = 0
      /\ \A i \in 1 .. Len(edits) : edits'[i] = edits[i]
  BY EditTypes DEF Edit
<1>2. Lags(e, v, age)'
  <2>1. \A i \in v + 1 .. Len(edits') :
          Promise!Concerns(edits'[i], e) /\ age < Ttl + Grace => edits'[i].age <= age + FetchTimeout
    <3> SUFFICES ASSUME NEW i \in v + 1 .. Len(edits'),
                        Promise!Concerns(edits'[i], e) /\ age < Ttl + Grace
                 PROVE  edits'[i].age <= age + FetchTimeout
      OBVIOUS
    <3>1. CASE i = Len(edits) + 1
      BY <1>1, <3>1
    <3>2. CASE i # Len(edits) + 1
      <4>1. i \in v + 1 .. Len(edits) /\ i \in 1 .. Len(edits)
        BY <1>1, <3>2
      <4> QED BY <1>1, <4>1 DEF Honest, Lags
    <3> QED BY <3>1, <3>2
  <2> QED BY <2>1 DEF Lags
<1>3. v <= Len(edits')
  BY <1>1 DEF Honest
<1>4. Shown(e, v)' <=> Shown(e, v)
  <2>1. \A i \in 1 .. v : edits'[i] = edits[i]
    BY <1>1 DEF Honest
  <2> QED BY <2>1 DEF Shown
<1> QED BY <1>2, <1>3, <1>4 DEF Honest

LEMMA EditOK ==
  ASSUME CInv, NEW d \in Details, NEW shown \in BOOLEAN, Edit(d, shown)
  PROVE  CInv'
<1>0. TypeOK /\ cache' = cache /\ call' = call /\ answer' = answer /\ hook' = hook
  BY DEF CInv, Edit
<1>1. /\ Len(edits') = Len(edits) + 1 /\ Len(edits) \in Nat
      /\ edits'[Len(edits) + 1].age = 0
      /\ \A i \in 1 .. Len(edits) : edits'[i] = edits[i]
  BY <1>0, EditTypes DEF Edit
<1>2. TypeOK'
  <2>1. [slug |-> d, shown |-> shown, age |-> 0] \in EditType
    <3>1. 0 \in 0 .. StaleBound
      BY Bounds
    <3> QED BY <3>1 DEF EditType
  <2>2. edits \in Seq(EditType) /\ Len(edits) < MaxEdits
    BY <1>0 DEF TypeOK, EditType, Edit
  <2>3. edits' \in Seq(EditType) /\ Len(edits') <= MaxEdits
    BY <1>1, <2>1, <2>2 DEF Edit
  <2> QED BY <1>0, <2>3 DEF TypeOK, EditType
<1>3. ASSUME NEW e \in DOMAIN cache'
      PROVE  Honest(e, cache[e].version, cache[e].age)'
  <2>1. Honest(e, cache[e].version, cache[e].age)
    BY <1>0 DEF CInv, CopiesAreHonest
  <2>2. cache[e].version \in Nat /\ cache[e].age \in Nat
    BY <1>0, CopyTypes, Bounds
  <2>3. PICK ver \in Nat, age \in Nat : ver = cache[e].version /\ age = cache[e].age
    BY <2>2
  <2>4. Honest(e, ver, age)'
    BY <1>0, <2>1, <2>3, HonestEdit
  <2>5. cache'[e].version = ver /\ cache'[e].age = age
    BY <1>0, <2>3
  <2> QED BY <2>4, <2>5 DEF Honest, Lags, Shown
<1>4. ASSUME NEW c \in Calls
      PROVE  SoundCall(c)'
  <2>1. SoundCall(c)
    BY DEF CInv, CallsAreSound
  <2>2. CASE call[c] = Idle
    BY <1>0, <2>2 DEF SoundCall, Idle
  <2>3. CASE call[c] # Idle
    <3>1. /\ call[c].version \in Nat /\ call[c].since \in Nat /\ call[c].asked \in Nat
          /\ call[c].asked <= Len(edits)
      BY <1>0, <2>1, <2>3, BusyCall DEF SoundCall
    <3>2. call[c].asked <= Len(edits')
      BY <1>1, <3>1
    <3>3. ASSUME call[c].at \in {"fetched", "writing"}
          PROVE  call[c].asked <= call[c].version /\ call[c].version <= Len(edits')
      BY <1>1, <2>1, <3>1, <3>3 DEF SoundCall
    <3>4. ASSUME call[c].at = "fetched", NEW i \in call[c].version + 1 .. Len(edits')
          PROVE  edits'[i].age <= call[c].since
      <4>1. CASE i = Len(edits) + 1
        BY <1>1, <3>1, <4>1
      <4>2. CASE i # Len(edits) + 1
        <5>1. i \in call[c].version + 1 .. Len(edits) /\ i \in 1 .. Len(edits)
          BY <1>1, <3>1, <4>2
        <5> QED BY <1>1, <2>1, <3>4, <5>1 DEF SoundCall
      <4> QED BY <4>1, <4>2
    <3>5. ASSUME call[c].at = "writing"
          PROVE  Honest(call[c].entry, call[c].version, call[c].since)'
      <4>0. call[c].entry \in Entries
        BY <1>0, <2>3, BusyCall
      <4>1. PICK en \in Entries, ver \in Nat, age \in Nat :
              en = call[c].entry /\ ver = call[c].version /\ age = call[c].since
        BY <3>1, <4>0
      <4>2. Honest(en, ver, age)
        BY <2>1, <3>5, <4>1 DEF SoundCall
      <4>3. Honest(en, ver, age)'
        BY <1>0, <4>2, HonestEdit
      <4>4. call'[c].entry = en /\ call'[c].version = ver /\ call'[c].since = age
        BY <1>0, <4>1
      <4> QED BY <4>3, <4>4 DEF Honest, Lags, Shown
    <3>6. call'[c] = call[c]
      BY <1>0
    <3> QED BY <2>1, <3>2, <3>3, <3>4, <3>5, <3>6 DEF SoundCall
  <2> QED BY <2>2, <2>3
<1>5. HooksAreThorough'
  BY <1>0 DEF CInv, HooksAreThorough
<1> QED BY <1>2, <1>3, <1>4, <1>5 DEF CInv, CopiesAreHonest, CallsAreSound

\* ... and when time passes.
LEMMA OlderBy ==
  ASSUME NEW age \in Nat, NEW cap \in Nat, age <= cap
  PROVE  /\ Older(age, cap) \in 0 .. cap
         /\ age <= Older(age, cap) /\ Older(age, cap) <= age + 1
         /\ Older(age, cap) < cap => Older(age, cap) = age + 1
         /\ age < cap => Older(age, cap) = age + 1
BY DEF Older

LEMMA TickedEdits ==
  ASSUME TypeOK, Tick
  PROVE  /\ edits' \in Seq(EditType) /\ Len(edits') = Len(edits)
         /\ \A i \in 1 .. Len(edits) :
              /\ edits'[i].slug = edits[i].slug /\ edits'[i].shown = edits[i].shown
              /\ edits'[i].age \in Nat /\ edits'[i].age <= edits[i].age + 1
<1>1. edits' = [i \in 1 .. Len(edits) |-> [edits[i] EXCEPT !.age = Older(edits[i].age, StaleBound)]]
  BY EditTypes DEF Tick
<1>2. ASSUME NEW i \in 1 .. Len(edits)
      PROVE  /\ edits[i] \in EditType
             /\ Older(edits[i].age, StaleBound) \in 0 .. StaleBound
             /\ Older(edits[i].age, StaleBound) \in Nat
             /\ Older(edits[i].age, StaleBound) <= edits[i].age + 1
  <2>1. edits[i] \in EditType /\ edits[i].age \in Nat /\ edits[i].age <= StaleBound
    BY EditTypes, Bounds DEF EditType
  <2> QED BY <2>1, Bounds DEF Older
<1>3. ASSUME NEW i \in 1 .. Len(edits)
      PROVE  /\ edits'[i] \in EditType
             /\ edits'[i].slug = edits[i].slug /\ edits'[i].shown = edits[i].shown
             /\ edits'[i].age = Older(edits[i].age, StaleBound)
  <2>1. edits'[i] = [edits[i] EXCEPT !.age = Older(edits[i].age, StaleBound)]
    BY <1>1
  <2> QED BY <1>2, <2>1 DEF EditType
<1>4. Len(edits) \in Nat
  BY EditTypes
<1>5. edits' \in [1 .. Len(edits) -> EditType]
  BY <1>1, <1>3
<1>6. edits' \in Seq(EditType) /\ Len(edits') = Len(edits)
  BY <1>4, <1>5
<1> QED BY <1>2, <1>3, <1>6

LEMMA SameShown ==
  ASSUME TypeOK, Tick, NEW e, NEW v \in Nat, v <= Len(edits)
  PROVE  Shown(e, v)' <=> Shown(e, v)
<1>1. \A i \in 1 .. v : edits'[i].slug = edits[i].slug /\ edits'[i].shown = edits[i].shown
  BY TickedEdits, EditTypes
<1> QED BY <1>1 DEF Shown

LEMMA SameConcern ==
  ASSUME TypeOK, Tick, NEW e, NEW i \in 1 .. Len(edits)
  PROVE  Promise!Concerns(edits'[i], e) <=> Promise!Concerns(edits[i], e)
BY TickedEdits DEF Promise!Concerns

LEMMA HonestTick ==
  ASSUME TypeOK, Tick, NEW e, NEW v \in Nat, NEW age \in Nat, age <= Ttl + Grace,
         Honest(e, v, age)
  PROVE  Honest(e, v, Older(age, Ttl + Grace))'
<1> DEFINE older == Older(age, Ttl + Grace)
<1>1. /\ older \in Nat
      /\ older < Ttl + Grace => older = age + 1 /\ age < Ttl + Grace
      /\ Ttl + Grace \in Nat
  BY OlderBy, Bounds
<1> HIDE DEF older
<1>2. Len(edits') = Len(edits) /\ Len(edits) \in Nat /\ v <= Len(edits)
  BY TickedEdits, EditTypes DEF Honest
<1>3. \A i \in v + 1 .. Len(edits') :
        Promise!Concerns(edits'[i], e) /\ older < Ttl + Grace => edits'[i].age <= older + FetchTimeout
  <2> SUFFICES ASSUME NEW i \in v + 1 .. Len(edits),
                      Promise!Concerns(edits'[i], e), older < Ttl + Grace
               PROVE  edits'[i].age <= older + FetchTimeout
    BY <1>2
  <2>1. i \in 1 .. Len(edits)
    BY <1>2
  <2>2. Promise!Concerns(edits[i], e)
    BY <2>1, SameConcern
  <2>3. edits[i].age <= age + FetchTimeout
    BY <1>1, <2>2 DEF Honest, Lags
  <2>4. edits'[i].age \in Nat /\ edits[i].age \in Nat /\ edits'[i].age <= edits[i].age + 1
    BY <2>1, TickedEdits, EditTypes
  <2> QED BY <1>1, <2>3, <2>4
<1>4. Lags(e, v, older)'
  BY <1>3 DEF Lags, older, Older
<1>5. Shown(e, v)' <=> Shown(e, v)
  BY <1>2, SameShown
<1>6. Honest(e, v, older)'
  BY <1>2, <1>4, <1>5 DEF Honest, older, Older
<1> QED BY <1>6 DEF older

LEMMA TickedCalls ==
  ASSUME TypeOK, Tick, NEW c \in Calls
  PROVE  \/ call[c].at \notin {"fetching", "fetched", "writing"} /\ call'[c] = call[c]
         \/ /\ call[c].at \in {"fetching", "fetched"}
            /\ call'[c] = [call[c] EXCEPT !.since = call[c].since + 1]
            /\ call[c].since + 1 <= FetchTimeout
         \/ /\ call[c].at = "writing"
            /\ call'[c] = [call[c] EXCEPT !.since = Older(call[c].since, Ttl + Grace)]
<1>1. CASE call[c].at \in {"fetching", "fetched"}
  <2>1. call[c].since \in Nat /\ call[c].since <= FetchTimeout /\ call[c].since # FetchTimeout
    BY <1>1, BusyCall DEF TypeOK, Tick, Overdue
  <2>2. Older(call[c].since, StaleBound) = call[c].since + 1 /\ call[c].since + 1 <= FetchTimeout
    BY <2>1, Bounds DEF Older
  <2>3. call'[c] = [call[c] EXCEPT !.since = Older(call[c].since, StaleBound)]
    BY <1>1 DEF Tick
  <2> QED BY <1>1, <2>2, <2>3
<1>2. CASE call[c].at = "writing"
  BY <1>2 DEF Tick
<1>3. CASE call[c].at \notin {"fetching", "fetched", "writing"}
  BY <1>3 DEF Tick
<1> QED BY <1>1, <1>2, <1>3

LEMMA TickOK ==
  ASSUME CInv, Tick
  PROVE  CInv'
<1>0. TypeOK /\ answer' = answer /\ hook' = hook
  BY DEF CInv, Tick
<1>a. Len(edits) \in Nat /\ Len(edits') = Len(edits) /\ Len(edits) <= MaxEdits
  BY <1>0, TickedEdits, EditTypes
<1>b. /\ DOMAIN cache' = DOMAIN cache
      /\ \A e \in DOMAIN cache :
           /\ cache'[e].version = cache[e].version
           /\ cache'[e].age = Older(cache[e].age, Ttl + Grace)
           /\ cache'[e] \in Copy
  <2>1. cache' = [e \in DOMAIN cache |-> [cache[e] EXCEPT !.age = Older(cache[e].age, Ttl + Grace)]]
    BY DEF Tick
  <2>2. ASSUME NEW e \in DOMAIN cache
        PROVE  /\ cache'[e].version = cache[e].version
               /\ cache'[e].age = Older(cache[e].age, Ttl + Grace)
               /\ cache'[e] \in Copy
    <3>1. cache[e] \in Copy /\ cache[e].age \in Nat /\ cache[e].age <= Ttl + Grace
      BY <1>0, CopyTypes, Bounds DEF TypeOK
    <3>2. Older(cache[e].age, Ttl + Grace) \in 0 .. Ttl + Grace
      BY <3>1, Bounds DEF Older
    <3>3. cache'[e] = [cache[e] EXCEPT !.age = Older(cache[e].age, Ttl + Grace)]
      BY <2>1
    <3> QED BY <3>1, <3>2, <3>3 DEF Copy
  <2> QED BY <2>1, <2>2
<1>c. cache' \in [DOMAIN cache' -> Copy]
  BY <1>b DEF Tick
<1>d. ASSUME NEW c \in Calls
      PROVE  /\ call'[c] \in Call \cup {Idle}
             /\ call'[c] = Idle <=> call[c] = Idle
             /\ call'[c].at = call[c].at
             /\ call[c] # Idle => /\ call'[c].asked = call[c].asked
                                  /\ call'[c].version = call[c].version
                                  /\ call'[c].entry = call[c].entry
             /\ call[c].at \in {"fetching", "fetched"} => /\ call'[c].since = call[c].since + 1
                                                         /\ call'[c].since <= FetchTimeout
             /\ call[c].at = "writing" => call'[c].since = Older(call[c].since, Ttl + Grace)
             /\ call[c].at = "looking" => call'[c].since = call[c].since
             /\ call[c] # Idle => call'[c].answered = call[c].answered
  <2>1. CASE call[c].at \notin {"fetching", "fetched", "writing"}
    <3>1. call'[c] = call[c]
      BY <1>0, <2>1, TickedCalls
    <3> QED BY <1>0, <2>1, <3>1 DEF TypeOK
  <2>2. CASE call[c].at \in {"fetching", "fetched"}
    <3>1. call[c] \in Call /\ call[c] # Idle /\ call[c].since \in Nat
      BY <1>0, <2>2, BusyCall
    <3>2. call'[c] = [call[c] EXCEPT !.since = call[c].since + 1] /\ call[c].since + 1 <= FetchTimeout
      BY <1>0, <2>2, TickedCalls
    <3>3. call[c].since + 1 \in 0 .. StaleBound
      BY <3>1, <3>2, Bounds
    <3> QED BY <2>2, <3>1, <3>2, <3>3 DEF Call, Idle
  <2>3. CASE call[c].at = "writing"
    <3>1. call[c] \in Call /\ call[c] # Idle /\ call[c].since \in Nat
      BY <1>0, <2>3, BusyCall
    <3>2. call'[c] = [call[c] EXCEPT !.since = Older(call[c].since, Ttl + Grace)]
      BY <1>0, <2>3, TickedCalls
    <3>3. call[c].since <= Ttl + Grace
      BY <2>3 DEF CInv, CallsAreSound, SoundCall
    <3>4. Older(call[c].since, Ttl + Grace) \in 0 .. StaleBound
      BY <3>1, <3>3, Bounds DEF Older
    <3> HIDE DEF Older
    <3> QED BY <2>3, <3>1, <3>2, <3>4 DEF Call, Idle
  <2> QED BY <2>1, <2>2, <2>3
<1>1. TypeOK'
  <2>1. call' \in [Calls -> Call \cup {Idle}]
    BY <1>d DEF Tick
  <2>2. \A c \in Calls : call'[c].at \in {"fetching", "fetched"} => call'[c].since <= FetchTimeout
    BY <1>d
  <2>3. edits' \in Seq(EditType) /\ Len(edits') <= MaxEdits
    BY <1>0, <1>a, TickedEdits
  <2>4. DOMAIN cache' \subseteq Entries
    BY <1>0, <1>b DEF TypeOK
  <2> QED BY <1>0, <1>c, <2>1, <2>2, <2>3, <2>4 DEF TypeOK, EditType
<1>2. ASSUME NEW e \in DOMAIN cache'
      PROVE  Honest(e, cache[e].version, cache[e].age)'
  <2>1. e \in DOMAIN cache /\ Honest(e, cache[e].version, cache[e].age)
    BY <1>b DEF CInv, CopiesAreHonest
  <2>2. cache[e].version \in Nat /\ cache[e].age \in Nat /\ cache[e].age <= Ttl + Grace
    BY <1>0, <2>1, CopyTypes, Bounds
  <2>3. PICK ver \in Nat, age \in Nat : ver = cache[e].version /\ age = cache[e].age
    BY <2>2
  <2>4. Honest(e, ver, Older(age, Ttl + Grace))'
    BY <1>0, <2>1, <2>2, <2>3, HonestTick
  <2>5. cache'[e].version = ver /\ cache'[e].age = Older(age, Ttl + Grace)
    BY <1>b, <2>1, <2>3
  <2> QED BY <2>4, <2>5 DEF Honest, Lags, Shown, Older
<1>3. ASSUME NEW c \in Calls
      PROVE  SoundCall(c)'
  <2>1. SoundCall(c)
    BY DEF CInv, CallsAreSound
  <2>2. CASE call[c] = Idle
    BY <1>d, <2>2 DEF SoundCall, Idle
  <2>3. CASE call[c] # Idle
    <3>1. /\ call[c].version \in Nat /\ call[c].since \in Nat /\ call[c].asked \in Nat
          /\ call[c].entry \in Entries
      BY <1>0, <2>3, BusyCall
    <3>2. call'[c] # Idle => call'[c].asked <= Len(edits')
      BY <1>a, <1>d, <2>1, <2>3 DEF SoundCall
    <3>3. call'[c].at \in {"fetched", "writing"} =>
            call'[c].asked <= call'[c].version /\ call'[c].version <= Len(edits')
      BY <1>a, <1>d, <2>1, <2>3 DEF SoundCall
    <3>4. ASSUME call[c].at = "fetched", NEW i \in call[c].version + 1 .. Len(edits)
          PROVE  edits'[i].age <= call'[c].since
      <4>1. edits[i].age <= call[c].since
        BY <2>1, <3>4 DEF SoundCall
      <4>2. i \in 1 .. Len(edits)
        BY <1>a, <3>1
      <4>3. edits[i].age \in Nat /\ edits'[i].age \in Nat /\ edits'[i].age <= edits[i].age + 1
        BY <1>0, <4>2, TickedEdits, EditTypes
      <4>4. call'[c].since = call[c].since + 1
        BY <1>d, <3>4
      <4> QED BY <3>1, <4>1, <4>3, <4>4
    <3>5. ASSUME call[c].at = "writing"
          PROVE  /\ call'[c].since <= Ttl + Grace
                 /\ Honest(call[c].entry, call[c].version, call[c].since)'
      <4>1. PICK en \in Entries, ver \in Nat, age \in Nat :
              en = call[c].entry /\ ver = call[c].version /\ age = call[c].since
        BY <3>1
      <4>2. Honest(en, ver, age) /\ age <= Ttl + Grace
        BY <2>1, <3>5, <4>1 DEF SoundCall
      <4>3. Honest(en, ver, Older(age, Ttl + Grace))'
        BY <1>0, <4>2, HonestTick
      <4>4. /\ call'[c].entry = en /\ call'[c].version = ver
            /\ call'[c].since = Older(age, Ttl + Grace)
        BY <1>d, <2>3, <3>5, <4>1
      <4>5. Older(age, Ttl + Grace) <= Ttl + Grace
        BY <4>2, Bounds DEF Older
      <4> QED BY <4>3, <4>4, <4>5 DEF Honest, Lags, Shown, Older
    <3>6. call'[c].at = "looking" => call'[c].since = 0 /\ ~call'[c].answered
      BY <1>d, <2>1, <2>3 DEF SoundCall
    <3>7. call'[c].at = "fetched" =>
            \A i \in call'[c].version + 1 .. Len(edits') : edits'[i].age <= call'[c].since
      BY <1>a, <1>d, <2>3, <3>4
    <3>8. call'[c].at = "writing" =>
            /\ call'[c].since <= Ttl + Grace
            /\ Honest(call[c].entry, call[c].version, call[c].since)'
      BY <1>d, <3>5
    <3> QED BY <3>2, <3>3, <3>6, <3>7, <3>8 DEF SoundCall
  <2> QED BY <2>2, <2>3
<1>4. HooksAreThorough'
  BY <1>0, <1>b DEF CInv, HooksAreThorough
<1> QED BY <1>1, <1>2, <1>3, <1>4 DEF CInv, CopiesAreHonest, CallsAreSound

LEMMA NextStep ==
  ASSUME CInv, [Next]_vars
  PROVE  CInv'
<1>1. CASE UNCHANGED vars
  <2>1. /\ edits' = edits /\ cache' = cache /\ call' = call /\ answer' = answer /\ hook' = hook
    BY <1>1 DEF vars
  <2>2. cache' = Without({})
    BY <2>1 DEF Without, CInv, TypeOK
  <2>3. hook' \in [Hooks -> Hook \cup {Idle}]
    BY <2>1 DEF CInv, TypeOK
  <2>4. \A h \in Hooks : hook'[h] # Idle => ThoroughAt(hook'[h], DOMAIN cache \ {})
    BY <2>1 DEF CInv, HooksAreThorough
  <2> QED BY <2>1, <2>2, <2>3, <2>4, Dropping
<1>2. ASSUME NEW c \in Calls, \E e \in Entries : Request(c, e)
      PROVE  CInv'
  BY <1>2, RequestOK
<1>3. ASSUME NEW c \in Calls, Look(c)
      PROVE  CInv'
  BY <1>3, LookOK
<1>4. ASSUME NEW c \in Calls, CmsReads(c) \/ FetchReturns(c) \/ FetchFails(c) \/ Drop(c)
      PROVE  CInv'
  BY <1>4, FetchOK
<1>5. ASSUME NEW c \in Calls, Write(c)
      PROVE  CInv'
  BY <1>5, WriteOK
<1>6. ASSUME NEW h \in Hooks, \E slug \in Details \cup {NoSlug} : Invalidate(h, slug)
      PROVE  CInv'
  BY <1>6, InvalidateOK
<1>7. ASSUME NEW h \in Hooks, ScanDetails(h) \/ ScanListings(h)
      PROVE  CInv'
  BY <1>7, ScanOK
<1>8. ASSUME NEW h \in Hooks, Delete(h)
      PROVE  CInv'
  BY <1>8, DeleteOK
<1>9. ASSUME NEW h \in Hooks, InvalidateFails(h)
      PROVE  CInv'
  BY <1>9, InvalidateFailsOK
<1>10. CASE \E e \in Entries : Expire(e)
  BY <1>10, ExpireOK
<1>11. CASE \E d \in Details, shown \in BOOLEAN : Edit(d, shown)
  BY <1>11, EditOK
<1>12. CASE Tick
  BY <1>12, TickOK
<1> QED BY <1>1, <1>2, <1>3, <1>4, <1>5, <1>6, <1>7, <1>8, <1>9, <1>10, <1>11, <1>12 DEF Next

\* The inductive invariant holds.
THEOREM Invariance == Spec => []CInv
BY InitOK, NextStep, PTL DEF Spec

\* Every variable keeps its type, and no fetch outlives its AbortSignal.
THEOREM TypeCorrect == Spec => []TypeOK
<1>1. CInv => TypeOK
  BY DEF CInv
<1> QED BY <1>1, Invariance, PTL

\* writeCache: what a copy lacks is at most one fetch older than the copy claims.
THEOREM CopiesAreHonestlyAged == Spec => []CopiesAgeHonestly
<1>1. CInv => CopiesAgeHonestly
  BY DEF CInv, CopiesAreHonest, Honest, CopiesAgeHonestly
<1> QED BY <1>1, Invariance, PTL

\* invalidatePropertyCache: a call that succeeds has taken every copy it had to.
THEOREM InvalidationIsThorough == Spec => []InvalidationReachesEveryCopy
<1>1. CInv => InvalidationReachesEveryCopy
  BY DEF CInv, HooksAreThorough, ThoroughAt, InvalidationReachesEveryCopy, Idle
<1> QED BY <1>1, Invariance, PTL

-----------------------------------------------------------------------------
(* PropertyCache implements StaleReads *)

AskedOf(c) == IF Waits(c) THEN [entry |-> call[c].entry, version |-> call[c].asked]
                          ELSE [entry |-> "nothing", version |-> 0]

Asked == [c \in Calls |-> AskedOf(c)]

MayTell(e, asked, kind, v) ==
  CASE kind = "ok" -> /\ e \in Details => Shown(e, v)
                      /\ v >= asked \/ Promise!Recent(e, v)
    [] kind = "notFound" -> e \in Details /\ ~Shown(e, v) /\ v >= asked
    [] OTHER -> v = 0

\* The end of a call answers its request, if that still waits.
LEMMA EndMaps ==
  ASSUME CInv, NEW c \in Calls, call[c] # Idle, UNCHANGED edits,
         NEW kind \in Kinds, NEW v \in 0 .. MaxEdits, Finish(c, kind, v),
         v <= Len(edits),
         ~call[c].answered => MayTell(call[c].entry, call[c].asked, kind, v)
  PROVE  Promise!Next \/ UNCHANGED Promise!vars
<1>0. TypeOK /\ call[c].entry \in Entries /\ call[c].entry # "nothing"
  BY BusyCall DEF CInv, Entries
<1>1. \A d \in Calls : call'[d] = IF d = c THEN Idle ELSE call[d]
  BY <1>0 DEF Finish, TypeOK
<1>2. CASE call[c].answered
  <2>1. Asked' = Asked
    BY <1>1, <1>2 DEF Asked, AskedOf, Waits, Idle
  <2>2. answer' = answer
    BY <1>2 DEF Finish
  <2> QED BY <2>1, <2>2 DEF Promise!vars, Asked, AskedOf
<1>3. CASE ~call[c].answered
  <2>1. Asked[c] = [entry |-> call[c].entry, version |-> call[c].asked]
    BY <1>3 DEF Asked, AskedOf, Waits
  <2>2. Asked' = [Asked EXCEPT ![c] = [entry |-> "nothing", version |-> 0]]
    BY <1>1 DEF Asked, AskedOf, Waits, Idle
  <2>3. Asked[c] # [entry |-> "nothing", version |-> 0]
    BY <1>0, <2>1
  <2>4. answer' = [kind |-> kind, version |-> v]
    BY <1>3 DEF Finish, Reply
  <2>5. Promise!MayAnswer(c, kind, v)
    <3>1. Asked[c].entry = call[c].entry /\ Asked[c].version = call[c].asked
      BY <2>1
    <3>2. MayTell(Asked[c].entry, Asked[c].version, kind, v)
      BY <1>3, <3>1
    <3> QED BY <3>2 DEF MayTell, Promise!MayAnswer, Promise!Shown, Shown, Asked, AskedOf
  <2>6. Promise!Answer(c, kind, v)
    BY <2>2, <2>3, <2>4, <2>5 DEF Promise!Answer, Promise!Nothing, Asked, AskedOf
  <2> QED BY <2>6 DEF Promise!Next, Promise!Kinds, Kinds
<1> QED BY <1>2, <1>3

\* A step of a call that neither starts nor ends a request's wait stutters.
LEMMA SameAsked ==
  ASSUME UNCHANGED <<edits, answer>>,
         \A c \in Calls : /\ Waits(c)' <=> Waits(c)
                          /\ Waits(c) => /\ call'[c].entry = call[c].entry
                                         /\ call'[c].asked = call[c].asked
  PROVE  UNCHANGED Promise!vars
<1>1. Asked' = Asked
  BY DEF Asked, AskedOf
<1> QED BY <1>1 DEF Promise!vars, Asked, AskedOf

LEMMA RequestMaps ==
  ASSUME CInv, NEW c \in Calls, NEW e \in Entries, Request(c, e)
  PROVE  Promise!Next
<1> DEFINE r == [at |-> "looking", entry |-> e, asked |-> Len(edits),
                 version |-> 0, since |-> 0, answered |-> FALSE]
<1>1. call' = [call EXCEPT ![c] = r] /\ r # Idle /\ ~r.answered
  BY DEF Request, Idle
<1>2. \A d \in Calls : call'[d] = IF d = c THEN r ELSE call[d]
  BY <1>1 DEF CInv, TypeOK
<1>3. Asked' = [Asked EXCEPT ![c] = [entry |-> e, version |-> Len(edits)]]
  <2>1. ASSUME NEW d \in Calls
        PROVE  AskedOf(d)' = IF d = c THEN [entry |-> e, version |-> Len(edits)] ELSE AskedOf(d)
    BY <1>1, <1>2 DEF AskedOf, Waits
  <2> QED BY <2>1 DEF Asked
<1>4. Asked[c] = [entry |-> "nothing", version |-> 0]
  BY DEF Asked, AskedOf, Waits, Request
<1>5. Promise!Ask(c, e)
  BY <1>3, <1>4 DEF Promise!Ask, Promise!Nothing, Request, Asked, AskedOf
<1> QED BY <1>5 DEF Promise!Next, Promise!Entries, Entries

LEMMA ServesMap ==
  ASSUME CInv, NEW c \in Calls, call[c].at = "looking", Hit(c)
  PROVE  /\ cache[call[c].entry].version \in 0 .. MaxEdits
         /\ cache[call[c].entry].version <= Len(edits)
         /\ MayTell(call[c].entry, call[c].asked, "ok", cache[call[c].entry].version)
<1> DEFINE e == call[c].entry
           v == cache[e].version
           age == cache[e].age
<1>1. e \in DOMAIN cache /\ age < Ttl + Grace
  BY DEF Hit, Usable
<1>2. v \in 0 .. MaxEdits /\ age \in Nat /\ Honest(e, v, age)
  BY <1>1, CopyTypes, Bounds DEF CInv, CopiesAreHonest
<1>3. Promise!Recent(e, v)
  <2> SUFFICES ASSUME NEW i \in v + 1 .. Len(edits), Promise!Concerns(edits[i], e)
               PROVE  edits[i].age < StaleBound
    BY DEF Promise!Recent
  <2>1. edits[i].age <= age + FetchTimeout
    BY <1>1, <1>2 DEF Honest, Lags
  <2>2. edits[i].age \in Nat
    BY <1>2, EditTypes DEF CInv
  <2> HIDE DEF age, e, v
  <2> QED BY <1>1, <1>2, <2>1, <2>2 DEF StaleBound
<1> QED BY <1>2, <1>3 DEF Honest, MayTell

LEMMA LookMaps ==
  ASSUME CInv, NEW c \in Calls, Look(c)
  PROVE  Promise!Next \/ UNCHANGED Promise!vars
<1>0. TypeOK /\ call[c].at = "looking" /\ call[c] # Idle /\ ~call[c].answered /\ Len(edits) \in Nat
  BY EditTypes DEF Look, ServeFresh, ServeStale, Miss, LookFails, Idle, CInv, CallsAreSound, SoundCall
<1>1. CASE ServeFresh(c)
  BY <1>0, <1>1, ServesMap, EndMaps DEF ServeFresh, Kinds
<1>2. CASE ServeStale(c)
  <2> DEFINE e == call[c].entry
  <2>0. PICK v \in 0 .. MaxEdits : v = cache[e].version
    BY <1>0, <1>2, ServesMap DEF ServeStale
  <2>1. /\ v \in 0 .. MaxEdits /\ v <= Len(edits)
        /\ MayTell(e, call[c].asked, "ok", v)
    BY <1>0, <1>2, <2>0, ServesMap DEF ServeStale
  <2>2. call[c] \in Call /\ e # "nothing"
    BY <1>0, BusyCall DEF Entries
  <2>3. /\ call'[c] # Idle /\ call'[c].answered
        /\ \A d \in Calls : d # c => call'[d] = call[d]
    BY <1>0, <1>2, <2>2 DEF ServeStale, TypeOK, Call, Idle
  <2>4. Asked[c] = [entry |-> e, version |-> call[c].asked]
    BY <1>0 DEF Asked, AskedOf, Waits
  <2>5. Asked' = [Asked EXCEPT ![c] = [entry |-> "nothing", version |-> 0]]
    <3>1. ASSUME NEW d \in Calls
          PROVE  AskedOf(d)' = IF d = c THEN [entry |-> "nothing", version |-> 0] ELSE AskedOf(d)
      BY <2>3 DEF AskedOf, Waits
    <3> QED BY <3>1 DEF Asked
  <2>6. answer' = [kind |-> "ok", version |-> v]
    BY <1>2, <2>0 DEF ServeStale, Reply
  <2>7. Promise!MayAnswer(c, "ok", v)
    <3>1. Asked[c].entry = e /\ Asked[c].version = call[c].asked
      BY <2>4
    <3>2. MayTell(Asked[c].entry, Asked[c].version, "ok", v)
      BY <2>1, <3>1
    <3> QED BY <3>2 DEF MayTell, Promise!MayAnswer, Promise!Shown, Shown, Asked, AskedOf
  <2>8. Promise!Answer(c, "ok", v)
    <3>1. Asked[c] # [entry |-> "nothing", version |-> 0]
      BY <2>2, <2>4
    <3>2. edits' = edits
      BY <1>2 DEF ServeStale
    <3> QED BY <2>1, <2>5, <2>6, <2>7, <3>1, <3>2
            DEF Promise!Answer, Promise!Nothing, Asked, AskedOf
  <2> QED BY <2>8 DEF Promise!Next, Promise!Kinds, Kinds
<1>3. CASE Miss(c)
  <2>1. call[c] \in Call
    BY <1>0, BusyCall
  <2>2. \A d \in Calls : /\ Waits(d)' <=> Waits(d)
                         /\ Waits(d) => /\ call'[d].entry = call[d].entry
                                        /\ call'[d].asked = call[d].asked
    BY <1>0, <1>3, <2>1 DEF Miss, TypeOK, Waits, Call, Idle
  <2> QED BY <1>3, <2>2, SameAsked DEF Miss
<1>4. CASE LookFails(c)
  BY <1>0, <1>4, EndMaps DEF LookFails, Kinds, MayTell
<1> QED BY <1>1, <1>2, <1>3, <1>4 DEF Look

LEMMA FetchMaps ==
  ASSUME CInv, NEW c \in Calls, CmsReads(c) \/ FetchReturns(c) \/ FetchFails(c) \/ Drop(c)
  PROVE  Promise!Next \/ UNCHANGED Promise!vars
<1>0. TypeOK /\ call[c] # Idle /\ call[c] \in Call /\ call[c].version \in 0 .. MaxEdits
      /\ Len(edits) \in Nat
  BY BusyCall, EditTypes DEF CmsReads, FetchReturns, FetchFails, Drop, CInv, Idle
<1>1. CASE CmsReads(c)
  <2>1. \A d \in Calls : /\ Waits(d)' <=> Waits(d)
                         /\ Waits(d) => /\ call'[d].entry = call[d].entry
                                        /\ call'[d].asked = call[d].asked
    BY <1>0, <1>1 DEF CmsReads, TypeOK, Waits, Call, Idle
  <2> QED BY <1>1, <2>1, SameAsked DEF CmsReads
<1>2. CASE FetchReturns(c) /\ Found(c)
  <2>1. \A d \in Calls : /\ Waits(d)' <=> Waits(d)
                         /\ Waits(d) => /\ call'[d].entry = call[d].entry
                                        /\ call'[d].asked = call[d].asked
    BY <1>0, <1>2 DEF FetchReturns, TypeOK, Waits, Call, Idle
  <2> QED BY <1>2, <2>1, SameAsked DEF FetchReturns
<1>3. CASE FetchReturns(c) /\ ~Found(c)
  <2>1. PICK v \in 0 .. MaxEdits : v = call[c].version
    BY <1>0
  <2>2. /\ v <= Len(edits) /\ v >= call[c].asked /\ call[c].entry \in Details
        /\ ~Shown(call[c].entry, v)
    BY <1>0, <1>3, <2>1, BusyCall DEF FetchReturns, Found, CInv, CallsAreSound, SoundCall
  <2>3. MayTell(call[c].entry, call[c].asked, "notFound", v)
    BY <2>2 DEF MayTell
  <2>4. Finish(c, "notFound", v) /\ UNCHANGED edits
    BY <1>3, <2>1 DEF FetchReturns, Finish, Reply
  <2> QED BY <1>0, <2>2, <2>3, <2>4, EndMaps DEF Kinds
<1>4. CASE FetchFails(c) \/ Drop(c)
  BY <1>0, <1>4, EndMaps DEF FetchFails, Drop, Kinds, MayTell
<1> QED BY <1>1, <1>2, <1>3, <1>4

LEMMA WriteMaps ==
  ASSUME CInv, NEW c \in Calls, Write(c)
  PROVE  Promise!Next \/ UNCHANGED Promise!vars
<1>0. TypeOK /\ call[c].at = "writing" /\ call[c] # Idle /\ call[c].version \in 0 .. MaxEdits
      /\ Len(edits) \in Nat
  BY BusyCall, EditTypes DEF Write, WriteCache, WriteFails, CInv, Idle
<1>1. CASE WriteCache(c)
  <2>1. PICK v \in 0 .. MaxEdits : v = call[c].version
    BY <1>0
  <2>2. /\ v <= Len(edits) /\ v >= call[c].asked
        /\ call[c].entry \in Details => Shown(call[c].entry, v)
    BY <1>0, <2>1, BusyCall DEF CInv, CallsAreSound, SoundCall, Honest
  <2>3. MayTell(call[c].entry, call[c].asked, "ok", v)
    BY <2>2 DEF MayTell
  <2>4. Finish(c, "ok", v) /\ UNCHANGED edits
    BY <1>1, <2>1 DEF WriteCache, Finish, Reply
  <2> QED BY <1>0, <2>2, <2>3, <2>4, EndMaps DEF Kinds
<1>2. CASE WriteFails(c)
  BY <1>0, <1>2, EndMaps DEF WriteFails, Kinds, MayTell
<1> QED BY <1>1, <1>2 DEF Write

LEMMA EditMaps ==
  ASSUME NEW d \in Details, NEW shown \in BOOLEAN, Edit(d, shown)
  PROVE  Promise!Next
<1>1. Asked' = Asked
  BY DEF Edit, Asked, AskedOf, Waits
<1>2. Promise!Edit(d, shown)
  BY <1>1 DEF Edit, Promise!Edit, Asked, AskedOf
<1> QED BY <1>2 DEF Promise!Next

LEMMA TickMaps ==
  ASSUME CInv, Tick
  PROVE  Promise!Next
<1>1. edits' = Promise!Aged
  BY DEF Tick, Promise!Aged, Promise!Older, Older
<1>2. \A c \in Calls : /\ Waits(c)' <=> Waits(c)
                       /\ Waits(c) => /\ call'[c].entry = call[c].entry
                                      /\ call'[c].asked = call[c].asked
  <2> SUFFICES ASSUME NEW c \in Calls
               PROVE  /\ Waits(c)' <=> Waits(c)
                      /\ Waits(c) => /\ call'[c].entry = call[c].entry
                                     /\ call'[c].asked = call[c].asked
    OBVIOUS
  <2>1. CASE call'[c] = call[c]
    BY <2>1 DEF Waits
  <2>2. CASE call'[c] # call[c]
    <3>1. call[c] \in Call /\ \E n : call'[c] = [call[c] EXCEPT !.since = n]
      BY <2>2, TickedCalls, BusyCall DEF CInv
    <3> QED BY <3>1 DEF Waits, Call, Idle
  <2> QED BY <2>1, <2>2
<1>3. Asked' = Asked
  BY <1>2 DEF Asked, AskedOf
<1>4. Promise!Tick
  BY <1>1, <1>3 DEF Promise!Tick, Tick, Asked, AskedOf
<1> QED BY <1>4 DEF Promise!Next

LEMMA StepMaps ==
  ASSUME CInv, [Next]_vars
  PROVE  [Promise!Next]_Promise!vars
<1>1. ASSUME UNCHANGED <<edits, call, answer>>
      PROVE  UNCHANGED Promise!vars
  BY <1>1 DEF Promise!vars, Waits
<1>2. CASE UNCHANGED vars
  BY <1>1, <1>2 DEF vars
<1>3. ASSUME NEW c \in Calls, \E e \in Entries : Request(c, e)
      PROVE  Promise!Next
  BY <1>3, RequestMaps
<1>4. ASSUME NEW c \in Calls, Look(c)
      PROVE  [Promise!Next]_Promise!vars
  BY <1>4, LookMaps
<1>5. ASSUME NEW c \in Calls, CmsReads(c) \/ FetchReturns(c) \/ FetchFails(c) \/ Drop(c)
      PROVE  [Promise!Next]_Promise!vars
  BY <1>5, FetchMaps
<1>6. ASSUME NEW c \in Calls, Write(c)
      PROVE  [Promise!Next]_Promise!vars
  BY <1>6, WriteMaps
<1>7. ASSUME NEW h \in Hooks,
             \/ \E slug \in Details \cup {NoSlug} : Invalidate(h, slug)
             \/ ScanDetails(h) \/ ScanListings(h) \/ Delete(h) \/ InvalidateFails(h)
      PROVE  UNCHANGED Promise!vars
  BY <1>1, <1>7 DEF Invalidate, ScanDetails, ScanListings, Delete, InvalidateFails
<1>8. CASE \E e \in Entries : Expire(e)
  BY <1>1, <1>8 DEF Expire
<1>9. CASE \E d \in Details, shown \in BOOLEAN : Edit(d, shown)
  BY <1>9, EditMaps
<1>10. CASE Tick
  BY <1>10, TickMaps
<1> QED BY <1>2, <1>3, <1>4, <1>5, <1>6, <1>7, <1>8, <1>9, <1>10 DEF Next

\* getOrSetWithSWR keeps the promise of StaleReads: bounded staleness, and "not
\* found" only of what the CMS did not show after the request came in.
THEOREM Implementation == Spec => ImplementsStaleReads
<1>1. Init => Promise!Init
  BY DEF Init, Promise!Init, Promise!Nothing, Waits
<1>2. CInv /\ [Next]_vars => [Promise!Next]_Promise!vars
  BY StepMaps
<1> QED BY <1>1, <1>2, Invariance, PTL DEF Spec, ImplementsStaleReads, Promise!Spec
=============================================================================
