------------------------------- MODULE StaleReads -------------------------------
(***************************************************************************)
(* What GET /api/properties and GET /api/properties/:slug promise a reader *)
(* while editors change the CMS: an answer with content lacks no edit that *)
(* is Bound old, and "not found" is never out of date.  Nothing here says  *)
(* that there is a cache.                                                  *)
(***************************************************************************)
EXTENDS Naturals, Sequences

CONSTANTS Listings,  \* pages of the list of properties, by first and after
          Details,   \* properties, by slug
          Calls,     \* requests under way at once
          Bound,     \* the age from which an edit must be visible
          MaxEdits   \* bound on the edits made in the CMS

Entries == Listings \cup Details

\* shown: the edit leaves the property published.
Edits == [slug : Details, shown : BOOLEAN, age : 0 .. Bound]

\* error: a 5xx, or the connection is lost.
Kinds == {"ok", "notFound", "error"}

VARIABLES edits,    \* the CMS's edits, oldest first; a version is a number of them
          asked,    \* what each call asks for, and the version when it did
          answer    \* the last answer given

vars == <<edits, asked, answer>>

Nothing == [entry |-> "nothing", version |-> 0]

\* Whether the CMS shows property d after its first v edits.
Shown(d, v) ==
  \A i \in 1 .. v :
    edits[i].slug = d /\ ~edits[i].shown =>
      \E j \in i + 1 .. v : edits[j].slug = d /\ edits[j].shown

\* Every edit concerns its property's details and every page of the list.
Concerns(edit, e) == e \in Listings \/ edit.slug = e

Init ==
  /\ edits = <<>>
  /\ asked = [c \in Calls |-> Nothing]
  /\ answer = [kind |-> "error", version |-> 0]

Edit(d, shown) ==
  /\ Len(edits) < MaxEdits
  /\ edits' = Append(edits, [slug |-> d, shown |-> shown, age |-> 0])
  /\ UNCHANGED <<asked, answer>>

Older(age, cap) == IF age < cap THEN age + 1 ELSE age

Aged == [i \in DOMAIN edits |-> [edits[i] EXCEPT !.age = Older(@, Bound)]]

Tick ==
  /\ edits' = Aged
  /\ UNCHANGED <<asked, answer>>

Ask(c, e) ==
  /\ asked[c] = Nothing
  /\ asked' = [asked EXCEPT ![c] = [entry |-> e, version |-> Len(edits)]]
  /\ UNCHANGED <<edits, answer>>

Recent(e, v) == \A i \in v + 1 .. Len(edits) : Concerns(edits[i], e) => edits[i].age < Bound

\* An answer from the CMS's state after its first v edits.
MayAnswer(c, kind, v) ==
  LET e == asked[c].entry
  IN CASE kind = "ok" -> /\ e \in Details => Shown(e, v)
                         /\ v >= asked[c].version \/ Recent(e, v)
       [] kind = "notFound" -> /\ e \in Details
                               /\ ~Shown(e, v)
                               /\ v >= asked[c].version
       [] OTHER -> v = 0

Answer(c, kind, v) ==
  /\ asked[c] # Nothing
  /\ v <= Len(edits)
  /\ MayAnswer(c, kind, v)
  /\ asked' = [asked EXCEPT ![c] = Nothing]
  /\ answer' = [kind |-> kind, version |-> v]
  /\ UNCHANGED edits

Next ==
  \/ \E d \in Details, shown \in BOOLEAN : Edit(d, shown)
  \/ Tick
  \/ \E c \in Calls, e \in Entries : Ask(c, e)
  \/ \E c \in Calls, kind \in Kinds, v \in 0 .. MaxEdits : Answer(c, kind, v)

Spec == Init /\ [][Next]_vars
=============================================================================
