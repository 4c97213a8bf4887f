----------------------------- MODULE EnquiryListing -----------------------------
(***************************************************************************)
(* GET /api/enquiries (listEnquiries): a client walks through the list,    *)
(* page by page or by cursor, while enquiries are inserted and commit out  *)
(* of the order of their ids, and the webhook changes their status.        *)
(*                                                                         *)
(* Each request is one SELECT.  What writes the rows is EnquirySystem, of  *)
(* which EnquiryTable is all that a SELECT sees.                           *)
(***************************************************************************)
EXTENDS EnquiryTable, FiniteSets

CONSTANTS Limit,     \* the client's limit
          Any,       \* no status filter
          NoCursor   \* the first request of a walk by cursor has none

ASSUME ConstantsAssumption ==
  /\ Limit \in Nat \ {0}
  /\ MaxId \in Nat
  /\ "new" \in Statuses
  /\ Any \notin Statuses
  /\ NoCursor \notin Nat

\* cursor, page: of the next request; listed, twice: the ids it got so far, and
\* those it got again; steady: the rows that were there when the walk began and
\* have matched its filter ever since (for the properties).
Walk == [at : {"reading", "done"}, by : {"page", "cursor"}, filter : Statuses \cup {Any},
         cursor : Ids \cup {NoCursor}, page : Nat \ {0},
         listed : SUBSET Ids, twice : SUBSET Ids, steady : SUBSET Ids]
NoWalk == [at |-> "none"]

VARIABLE walk  \* a client's walk through the list

vars == <<tableVars, walk>>

Init == TableInit /\ walk = NoWalk

\* A row that stops matching the filter leaves what the walk must list.
Mark(e, s) ==
  /\ MarkCrmSynced(e, s)
  /\ walk' = IF walk = NoWalk \/ walk.filter \in {Any, s}
             THEN walk
             ELSE [walk EXCEPT !.steady = @ \ {e}]

-----------------------------------------------------------------------------
(* listEnquiries *)

Matching(filter) == {e \in DOMAIN status : filter = Any \/ status[e] = filter}

\* FAULT: the row with the cursor's id is listed again.
BelowInclusive(rows, cursor) == {e \in rows : cursor = NoCursor \/ e <= cursor}

\* WHERE e.id < :cursor
Below(rows, cursor) == {e \in rows : cursor = NoCursor \/ e < cursor}

\* FAULT: ORDER BY e.id, oldest first.
OldestFirst(rows, offset) ==
  {e \in rows : Cardinality({d \in rows : d < e}) \in offset .. offset + Limit - 1}

\* ORDER BY e.id DESC LIMIT :limit OFFSET :offset
Slice(rows, offset) ==
  {e \in rows : Cardinality({d \in rows : d > e}) \in offset .. offset + Limit - 1}

Begin(by, filter) ==
  /\ walk.at \in {"none", "done"}
  /\ walk' = [at |-> "reading", by |-> by, filter |-> filter, cursor |-> NoCursor, page |-> 1,
              listed |-> {}, twice |-> {}, steady |-> Matching(filter)]
  /\ UNCHANGED tableVars

Got(rows) == [walk EXCEPT !.listed = @ \cup rows, !.twice = @ \cup (walk.listed \cap rows)]

Least(rows) == CHOOSE e \in rows : \A d \in rows : e <= d

\* A client goes on from the last id it has seen, which is nextCursor once it has
\* sent a cursor (the first page of a walk comes without one); an empty page ends
\* the walk.
ReadCursor ==
  /\ walk.at = "reading"
  /\ walk.by = "cursor"
  /\ LET rows == Slice(Below(Matching(walk.filter), walk.cursor), 0)
     IN walk' = IF rows = {} THEN [walk EXCEPT !.at = "done"]
                             ELSE [Got(rows) EXCEPT !.cursor = Least(rows)]
  /\ UNCHANGED tableVars

\* FAULT: pages counted from 0.
OffsetFromZero(page) == page * Limit

Offset(page) == (page - 1) * Limit

\* total comes with the rows: a page past the end says 0.
TotalPages(rows) ==
  LET total == IF rows = {} THEN 0 ELSE Cardinality(Matching(walk.filter))
  IN (total + Limit - 1) \div Limit

ReadPage ==
  /\ walk.at = "reading"
  /\ walk.by = "page"
  /\ LET rows == Slice(Matching(walk.filter), Offset(walk.page))
     IN walk' = IF walk.page >= TotalPages(rows)
                THEN [Got(rows) EXCEPT !.at = "done"]
                ELSE [Got(rows) EXCEPT !.page = @ + 1]
  /\ UNCHANGED tableVars

Next ==
  \/ Transaction /\ UNCHANGED walk
  \/ \E e \in DOMAIN status, s \in Statuses : Mark(e, s)
  \/ \E by \in {"page", "cursor"}, filter \in Statuses \cup {Any} : Begin(by, filter)
  \/ ReadCursor
  \/ ReadPage

Spec == Init /\ [][Next]_vars

-----------------------------------------------------------------------------
(* Properties *)

\* Every variable has its type; only committed rows are listed.
TypeOK ==
  /\ lastId \in 0 .. MaxId
  /\ open \subseteq 1 .. lastId
  /\ DOMAIN status \subseteq (1 .. lastId) \ open
  /\ status \in [DOMAIN status -> Statuses]
  /\ walk \in Walk \cup {NoWalk}
  /\ walk # NoWalk => walk.listed \subseteq DOMAIN status

Finished(by) == walk.at = "done" /\ walk.by = by

\* A walk by cursor lists no enquiry twice, whatever is inserted, committed late
\* or changes status between its requests (listEnquiries, e.id < :cursor).
CursorListsOnce == walk.at # "none" /\ walk.by = "cursor" => walk.twice = {}

\* A walk by cursor lists every enquiry that was there when it began and matched
\* the filter all along, in spite of the rows that appear in front of it and of
\* those that stop matching.
CursorMissesNothing == Finished("cursor") => walk.steady \subseteq walk.listed

\* A walk by page misses no enquiry either as long as it has no status filter: new
\* rows push the others back, so that it can only see a row again.
PagesMissNothing == Finished("page") /\ walk.filter = Any => walk.steady \subseteq walk.listed
=============================================================================
