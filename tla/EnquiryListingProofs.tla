-------------------------- MODULE EnquiryListingProofs --------------------------
(***************************************************************************)
(* Proofs about EnquiryListing: its types, and what walks by cursor and by *)
(* page list, for any limit, any statuses and any number of enquiries.     *)
(***************************************************************************)
EXTENDS EnquiryListing, FiniteSetTheorems, WellFoundedInduction, TLAPS

-----------------------------------------------------------------------------
(* Finite sets of numbers *)

\* A finite set of numbers that is not empty has a least element.  The sets of
\* elements below each of its elements are well-founded by inclusion, and the
\* element whose set is minimal is the one.
LEMMA LeastExists ==
  ASSUME NEW S \in SUBSET Nat, IsFiniteSet(S), S # {}
  PROVE  \E e \in S : \A d \in S : e <= d
<1> DEFINE Lower(e) == {d \in S : d < e}
           T == {Lower(e) : e \in S}
           R == StrictSubsetOrdering(S)
<1>1. IsWellFoundedOn(R, FiniteSubsetsOf(S))
  BY FS_StrictSubsetOrderingWellFounded
<1>2. T \subseteq FiniteSubsetsOf(S) /\ T # {}
  <2>1. ASSUME NEW e \in S PROVE Lower(e) \in FiniteSubsetsOf(S)
    <3>1. Lower(e) \in SUBSET S
      OBVIOUS
    <3> HIDE DEF Lower
    <3> QED BY <3>1, FS_Subset DEF FiniteSubsetsOf
  <2> HIDE DEF Lower
  <2> QED BY <2>1
<1>3. PICK x \in T : \A y \in T : <<y, x>> \notin R
  <2> HIDE DEF R, T
  <2> QED BY <1>1, <1>2, WFMin
<1>4. PICK e \in S : x = Lower(e)
  BY <1>3
<1>5. ASSUME NEW d \in S, d < e PROVE FALSE
  <2>1. \A n \in Lower(d) : n \in Lower(e)
    BY <1>5
  <2>2. d \in Lower(e) /\ d \notin Lower(d)
    BY <1>5
  <2>3. Lower(d) \in SUBSET S /\ Lower(e) \in SUBSET S
    OBVIOUS
  <2>4. <<Lower(d), x>> \in R
    <3> HIDE DEF Lower
    <3> QED BY <1>4, <2>1, <2>2, <2>3 DEF StrictSubsetOrdering
  <2> HIDE DEF R
  <2> QED BY <1>3, <2>4
<1> QED BY <1>4, <1>5

\* It has a greatest element, too.
LEMMA GreatestExists ==
  ASSUME NEW S \in SUBSET Nat, IsFiniteSet(S), S # {}
  PROVE  \E e \in S : \A d \in S : d <= e
<1> DEFINE Upper(e) == {d \in S : d > e}
           T == {Upper(e) : e \in S}
           R == StrictSubsetOrdering(S)
<1>1. IsWellFoundedOn(R, FiniteSubsetsOf(S))
  BY FS_StrictSubsetOrderingWellFounded
<1>2. T \subseteq FiniteSubsetsOf(S) /\ T # {}
  <2>1. ASSUME NEW e \in S PROVE Upper(e) \in FiniteSubsetsOf(S)
    <3>1. Upper(e) \in SUBSET S
      OBVIOUS
    <3> HIDE DEF Upper
    <3> QED BY <3>1, FS_Subset DEF FiniteSubsetsOf
  <2> HIDE DEF Upper
  <2> QED BY <2>1
<1>3. PICK x \in T : \A y \in T : <<y, x>> \notin R
  <2> HIDE DEF R, T
  <2> QED BY <1>1, <1>2, WFMin
<1>4. PICK e \in S : x = Upper(e)
  BY <1>3
<1>5. ASSUME NEW d \in S, d > e PROVE FALSE
  <2>1. \A n \in Upper(d) : n \in Upper(e)
    BY <1>5
  <2>2. d \in Upper(e) /\ d \notin Upper(d)
    BY <1>5
  <2>3. Upper(d) \in SUBSET S /\ Upper(e) \in SUBSET S
    OBVIOUS
  <2>4. <<Upper(d), x>> \in R
    <3> HIDE DEF Upper
    <3> QED BY <1>4, <2>1, <2>2, <2>3 DEF StrictSubsetOrdering
  <2> HIDE DEF R
  <2> QED BY <1>3, <2>4
<1> QED BY <1>4, <1>5

LEMMA IdsAreFinite ==
  ASSUME NEW S \in SUBSET Ids
  PROVE  S \in SUBSET Nat /\ IsFiniteSet(S)
<1>1. IsFiniteSet(Ids)
  BY ConstantsAssumption, FS_Interval DEF Ids
<1>2. \A e \in S : e \in Nat
  BY DEF Ids
<1> QED BY <1>1, <1>2, FS_Subset

\* What Slice returns without an offset: something, if there is anything, and with
\* each row every later one.
LEMMA TopSlice ==
  ASSUME NEW rows \in SUBSET Ids
  PROVE  /\ Slice(rows, 0) \subseteq rows
         /\ rows # {} => Slice(rows, 0) # {}
         /\ \A d \in Slice(rows, 0), e \in rows : d < e => e \in Slice(rows, 0)
<1> DEFINE Upper(e) == {d \in rows : d > e}
<1>1. rows \in SUBSET Nat /\ IsFiniteSet(rows)
  BY IdsAreFinite
<1>2. Slice(rows, 0) = {e \in rows : Cardinality(Upper(e)) \in 0 .. Limit - 1}
  BY ConstantsAssumption DEF Slice
<1>3. rows # {} => Slice(rows, 0) # {}
  <2> HAVE rows # {}
  <2>1. PICK e \in rows : \A d \in rows : d <= e
    BY <1>1, GreatestExists
  <2>2. Cardinality(Upper(e)) = 0
    <3>1. ASSUME NEW d \in Upper(e) PROVE FALSE
      BY <1>1, <2>1
    <3>2. Upper(e) = {}
      BY <3>1
    <3> QED BY <3>2, FS_EmptySet
  <2> QED BY <1>2, <2>2, ConstantsAssumption
<1>4. ASSUME NEW d \in Slice(rows, 0), NEW e \in rows, d < e
      PROVE  e \in Slice(rows, 0)
  <2>1. d \in rows /\ Cardinality(Upper(d)) \in 0 .. Limit - 1
    BY <1>2, <1>4
  <2>2. \A n \in Upper(e) : n \in Upper(d)
    BY <1>1, <1>4, <2>1
  <2>3. IsFiniteSet(Upper(d))
    BY <1>1, FS_Subset
  <2>4. Cardinality(Upper(e)) \in Nat /\ Cardinality(Upper(e)) <= Cardinality(Upper(d))
    <3> HIDE DEF Upper
    <3> QED BY <2>2, <2>3, FS_Subset, FS_CardinalityType
  <2> QED BY <1>2, <2>1, <2>4, ConstantsAssumption
<1> QED BY <1>2, <1>3, <1>4

LEMMA LeastIsLeast ==
  ASSUME NEW rows \in SUBSET Ids, rows # {}
  PROVE  Least(rows) \in rows /\ \A d \in rows : Least(rows) <= d
BY IdsAreFinite, LeastExists DEF Least

\* The number of rows in front of row e, and that it grows with the rows.
InFront(rows, e) == {d \in rows : d > e}

LEMMA InFrontCounts ==
  ASSUME NEW rows \in SUBSET Ids, NEW e
  PROVE  IsFiniteSet(InFront(rows, e)) /\ Cardinality(InFront(rows, e)) \in Nat
BY IdsAreFinite, FS_Subset, FS_CardinalityType DEF InFront

LEMMA InFrontGrows ==
  ASSUME NEW more \in SUBSET Ids, NEW rows \in SUBSET more, NEW e
  PROVE  Cardinality(InFront(rows, e)) <= Cardinality(InFront(more, e))
<1>1. InFront(rows, e) \subseteq InFront(more, e)
  BY DEF InFront
<1> QED BY <1>1, InFrontCounts, FS_Subset

\* The places in the list are taken without gaps: if some row has at least k rows in
\* front of it, some row has exactly k.
LEMMA NoGaps ==
  ASSUME NEW rows \in SUBSET Ids, NEW k \in Nat,
         NEW e \in rows, Cardinality(InFront(rows, e)) >= k
  PROVE  \E d \in rows : Cardinality(InFront(rows, d)) = k
<1> DEFINE far == {d \in rows : Cardinality(InFront(rows, d)) >= k}
<1>1. far \in SUBSET Ids /\ far # {}
  OBVIOUS
<1>2. PICK g \in far : \A d \in far : d <= g
  <2> HIDE DEF far
  <2> QED BY <1>1, IdsAreFinite, GreatestExists
<1>3. g \in rows /\ Cardinality(InFront(rows, g)) \in Nat /\ Cardinality(InFront(rows, g)) >= k
  BY InFrontCounts
<1>4. ASSUME Cardinality(InFront(rows, g)) # k PROVE FALSE
  <2>1. InFront(rows, g) # {}
    BY <1>3, <1>4, FS_EmptySet
  <2>2. InFront(rows, g) \in SUBSET Ids
    BY DEF InFront
  <2>3. PICK h \in InFront(rows, g) : \A d \in InFront(rows, g) : h <= d
    BY <2>1, <2>2, IdsAreFinite, LeastExists
  <2>4. \A d \in rows \cup {h} : d \in Int
    BY <2>2, ConstantsAssumption DEF Ids
  <2>5. h \in rows /\ h > g
    BY DEF InFront
  <2>6. InFront(rows, h) = InFront(rows, g) \ {h}
    <3>1. ASSUME NEW d \in InFront(rows, h) PROVE d \in InFront(rows, g) \ {h}
      BY <1>3, <2>4, <2>5 DEF InFront
    <3>2. ASSUME NEW d \in InFront(rows, g) \ {h} PROVE d \in InFront(rows, h)
      BY <2>3, <2>4 DEF InFront
    <3> QED BY <3>1, <3>2
  <2>7. Cardinality(InFront(rows, h)) = Cardinality(InFront(rows, g)) - 1
    <3>1. IsFiniteSet(InFront(rows, g))
      BY InFrontCounts
    <3>2. Cardinality(InFront(rows, g) \ {h}) = Cardinality(InFront(rows, g)) - 1
      BY <3>1, FS_RemoveElement
    <3> QED BY <2>6, <3>2
  <2>8. h \in far
    BY <1>3, <1>4, <2>5, <2>7
  <2> QED BY <1>2, <1>3, <2>4, <2>5, <2>8
<1> QED BY <1>3, <1>4

\* What a client must do to see all rows: as many pages as the answer says.
LEMMA Pages ==
  ASSUME NEW total \in Nat, NEW page \in Nat, page >= (total + Limit - 1) \div Limit
  PROVE  total <= page * Limit
<1> DEFINE q == (total + Limit - 1) \div Limit
<1>1. Limit \in Nat /\ Limit > 0
  BY ConstantsAssumption
<1>2. q \in Int /\ total + Limit - 1 < Limit * q + Limit
  BY <1>1
<1>3. Limit * q <= Limit * page
  BY <1>1, <1>2
<1> QED BY <1>1, <1>2, <1>3

-----------------------------------------------------------------------------
(* The invariant *)

ByCursor == walk # NoWalk /\ walk.by = "cursor"

\* What is listed lies at or above the cursor, and what is still to be listed
\* below it.
CursorDivides ==
  /\ walk.twice = {}
  /\ \A e \in walk.listed : walk.cursor # NoCursor /\ walk.cursor <= e
  /\ walk.steady \subseteq Matching(walk.filter)
  /\ \A e \in walk.steady :
       \/ e \in walk.listed
       \/ walk.at = "reading" /\ (walk.cursor = NoCursor \/ e < walk.cursor)

ByPage == walk # NoWalk /\ walk.by = "page" /\ walk.filter = Any

\* What is still to be listed has at least as many rows in front of it as the next
\* page skips: rows that come in only push it back.
PagesAdvance ==
  /\ walk.steady \subseteq DOMAIN status
  /\ \A e \in walk.steady :
       \/ e \in walk.listed
       \/ /\ walk.at = "reading"
          /\ Cardinality(InFront(DOMAIN status, e)) >= Offset(walk.page)

LInv ==
  /\ TypeOK
  /\ ByCursor => CursorDivides
  /\ ByPage => PagesAdvance

LEMMA InitOK == Init => LInv
BY ConstantsAssumption DEF Init, TableInit, LInv, TypeOK, ByCursor, ByPage

\* The transactions change neither the walk nor what it may still list, but add to
\* what matches.
LEMMA InsertStep == LInv /\ Insert /\ UNCHANGED walk => LInv'
<1> SUFFICES ASSUME LInv, Insert, UNCHANGED walk PROVE LInv'
  OBVIOUS
<1> USE ConstantsAssumption
<1>1. TypeOK'
  BY DEF LInv, TypeOK, Insert
<1>2. (ByCursor => CursorDivides)'
  BY DEF LInv, Insert, ByCursor, CursorDivides, Matching
<1>3. (ByPage => PagesAdvance)'
  BY DEF LInv, Insert, ByPage, PagesAdvance, InFront, Offset
<1> QED BY <1>1, <1>2, <1>3 DEF LInv

LEMMA CommitStep == \A e \in open : LInv /\ Commit(e) /\ UNCHANGED walk => LInv'
<1> SUFFICES ASSUME NEW e \in open, LInv, Commit(e), UNCHANGED walk PROVE LInv'
  OBVIOUS
<1>1. TypeOK'
  <2>1. e \in open /\ e \in 1 .. lastId /\ "new" \in Statuses
    BY ConstantsAssumption DEF LInv, TypeOK, Commit
  <2>2. DOMAIN status' = DOMAIN status \cup {e}
    BY DEF Commit
  <2>3. status' \in [DOMAIN status' -> Statuses]
    BY <2>1, <2>2 DEF LInv, TypeOK, Commit
  <2> QED BY <2>1, <2>2, <2>3 DEF LInv, TypeOK, Commit
<1>2. \A filter \in Statuses \cup {Any} : Matching(filter) \subseteq Matching(filter)'
  BY DEF LInv, TypeOK, Commit, Matching
<1>3. (ByCursor => CursorDivides)'
  BY <1>2 DEF LInv, TypeOK, Walk, Commit, ByCursor, CursorDivides
<1>4. ASSUME ByPage' PROVE PagesAdvance'
  <2>1. DOMAIN status \subseteq DOMAIN status' /\ walk' = walk
    BY DEF Commit
  <2>2. DOMAIN status' \in SUBSET Ids
    BY <1>1, ConstantsAssumption DEF TypeOK, Ids
  <2>3. \A d : Cardinality(InFront(DOMAIN status, d)) <= Cardinality(InFront(DOMAIN status', d))
    BY <2>1, <2>2, InFrontGrows
  <2>4. \A d : /\ Cardinality(InFront(DOMAIN status, d)) \in Nat
              /\ Cardinality(InFront(DOMAIN status', d)) \in Nat
    BY <2>1, <2>2, InFrontCounts
  <2>5. ByPage /\ walk \in Walk
    BY <1>4, <2>1 DEF LInv, TypeOK, ByPage
  <2>6. Offset(walk.page) \in Int /\ Offset(walk'.page) = Offset(walk.page)
    BY <2>1, <2>5, ConstantsAssumption DEF Walk, Offset
  <2>7. PagesAdvance
    BY <2>5 DEF LInv
  <2>8. ASSUME NEW d \in walk'.steady, d \notin walk'.listed
        PROVE  walk'.at = "reading" /\ Cardinality(InFront(DOMAIN status', d)) >= Offset(walk'.page)
    <3>1. walk.at = "reading" /\ Cardinality(InFront(DOMAIN status, d)) >= Offset(walk.page)
      BY <2>1, <2>7, <2>8 DEF PagesAdvance
    <3> QED BY <2>1, <2>3, <2>4, <2>6, <3>1
  <2>9. walk'.steady \subseteq DOMAIN status'
    BY <2>1, <2>7 DEF PagesAdvance
  <2> QED BY <2>8, <2>9 DEF PagesAdvance
<1> QED BY <1>1, <1>3, <1>4 DEF LInv

LEMMA RollbackStep == \A lost : LInv /\ Rollback(lost) /\ UNCHANGED walk => LInv'
BY DEF LInv, TypeOK, Rollback, ByCursor, CursorDivides, Matching, ByPage, PagesAdvance, InFront, Offset

\* A row that stops matching the filter leaves what the walk must list.
LEMMA MarkStep == \A e \in DOMAIN status, s \in Statuses : LInv /\ Mark(e, s) => LInv'
<1> SUFFICES ASSUME NEW e \in DOMAIN status, NEW s \in Statuses, LInv, Mark(e, s) PROVE LInv'
  OBVIOUS
<1> USE DEF Mark
<1>1. TypeOK'
  <2>1. walk' \in Walk \cup {NoWalk} /\ (walk' # NoWalk => walk.listed = walk'.listed /\ walk # NoWalk)
    BY DEF LInv, TypeOK, MarkCrmSynced, Walk, NoWalk
  <2> QED BY <2>1 DEF LInv, TypeOK, MarkCrmSynced
<1>2. (ByCursor => CursorDivides)'
  BY DEF LInv, TypeOK, Walk, NoWalk, MarkCrmSynced, ByCursor, CursorDivides, Matching
<1>3. (ByPage => PagesAdvance)'
  <2>1. DOMAIN status' = DOMAIN status
    BY DEF MarkCrmSynced
  <2>2. ByPage' => walk' = walk
    BY DEF LInv, TypeOK, Walk, NoWalk, MarkCrmSynced, ByPage
  <2> QED BY <2>1, <2>2 DEF LInv, ByPage, PagesAdvance, InFront, Offset
<1> QED BY <1>1, <1>2, <1>3 DEF LInv

LEMMA BeginStep ==
  \A by \in {"page", "cursor"}, filter \in Statuses \cup {Any} :
    LInv /\ Begin(by, filter) => LInv'
<1> SUFFICES ASSUME NEW by \in {"page", "cursor"}, NEW filter \in Statuses \cup {Any},
                    LInv, Begin(by, filter)
             PROVE  LInv'
  OBVIOUS
<1>1. Matching(filter) \subseteq Ids
  BY ConstantsAssumption DEF LInv, TypeOK, Matching, Ids
<1>2. TypeOK'
  BY <1>1 DEF LInv, TypeOK, Walk, Begin, tableVars
<1>3. (ByCursor => CursorDivides)'
  BY DEF LInv, Begin, tableVars, ByCursor, CursorDivides, Matching
<1>4. (ByPage => PagesAdvance)'
  <2>1. DOMAIN status \in SUBSET Ids /\ UNCHANGED status
    BY ConstantsAssumption DEF LInv, TypeOK, Ids, Begin, tableVars
  <2>2. \A e : Cardinality(InFront(DOMAIN status, e)) >= 0
    BY <2>1, InFrontCounts
  <2>3. Offset(1) = 0
    BY ConstantsAssumption DEF Offset
  <2> QED BY <2>1, <2>2, <2>3 DEF Begin, ByPage, PagesAdvance, Matching
<1> QED BY <1>2, <1>3, <1>4 DEF LInv

\* The page that ReadCursor gets: its rows match and lie below the cursor; those it
\* leaves lie below its least.
LEMMA PageOfCursor ==
  ASSUME LInv, walk.at = "reading",
         NEW rows, rows = Slice(Below(Matching(walk.filter), walk.cursor), 0)
  PROVE  /\ rows \in SUBSET Ids
         /\ rows \subseteq Matching(walk.filter)
         /\ \A e \in rows : walk.cursor = NoCursor \/ e < walk.cursor
         /\ rows # {} => /\ Least(rows) \in rows
                         /\ \A e \in rows : Least(rows) <= e
         /\ \A e \in Below(Matching(walk.filter), walk.cursor) :
              rows # {} /\ (e \in rows \/ e < Least(rows))
<1> DEFINE all == Below(Matching(walk.filter), walk.cursor)
<1>1. all \in SUBSET Ids /\ rows = Slice(all, 0)
  BY ConstantsAssumption DEF LInv, TypeOK, Below, Matching, Ids
<1>2. /\ rows \subseteq all
      /\ all # {} => rows # {}
      /\ \A d \in rows, e \in all : d < e => e \in rows
  <2> HIDE DEF all
  <2> QED BY <1>1, TopSlice
<1>3. rows # {} => Least(rows) \in rows /\ \A e \in rows : Least(rows) <= e
  <2> HIDE DEF all
  <2> QED BY <1>1, <1>2, LeastIsLeast
<1>4. all \subseteq Matching(walk.filter) /\ \A e \in all : walk.cursor = NoCursor \/ e < walk.cursor
  BY DEF Below
<1>5. ASSUME NEW e \in all PROVE rows # {} /\ (e \in rows \/ e < Least(rows))
  <2> HIDE DEF all
  <2>1. rows # {} /\ Least(rows) \in Ids /\ e \in Ids
    BY <1>1, <1>2, <1>3
  <2>2. Least(rows) \in Int /\ e \in Int
    BY <2>1, ConstantsAssumption DEF Ids
  <2> QED BY <1>2, <1>3, <2>1, <2>2
<1> HIDE DEF all
<1> QED BY <1>1, <1>2, <1>3, <1>4, <1>5 DEF all

LEMMA ReadCursorStep == LInv /\ ReadCursor => LInv'
<1> SUFFICES ASSUME LInv, ReadCursor PROVE LInv'
  OBVIOUS
<1> DEFINE rows == Slice(Below(Matching(walk.filter), walk.cursor), 0)
<1>1. walk \in Walk /\ walk.at = "reading" /\ ByCursor
  BY DEF LInv, TypeOK, NoWalk, ReadCursor, ByCursor
<1>2. /\ rows \in SUBSET Ids
      /\ rows \subseteq Matching(walk.filter)
      /\ \A e \in rows : walk.cursor = NoCursor \/ e < walk.cursor
      /\ rows # {} => /\ Least(rows) \in rows
                      /\ \A e \in rows : Least(rows) <= e
      /\ \A e \in Below(Matching(walk.filter), walk.cursor) :
           rows # {} /\ (e \in rows \/ e < Least(rows))
  BY <1>1, PageOfCursor
<1>3. UNCHANGED tableVars
  BY DEF ReadCursor
<1>4. walk' = IF rows = {} THEN [walk EXCEPT !.at = "done"] ELSE [Got(rows) EXCEPT !.cursor = Least(rows)]
  BY DEF ReadCursor
<1>5. Matching(walk.filter) \subseteq DOMAIN status
  BY DEF Matching
<1> HIDE DEF rows
<1>6. CASE rows = {}
  <2>1. TypeOK'
    BY <1>1, <1>3, <1>4, <1>6 DEF LInv, TypeOK, Walk, NoWalk, tableVars
  <2>2. ASSUME NEW e \in walk.steady PROVE e \in walk.listed
    BY <1>1, <1>2, <1>6, <2>2 DEF LInv, CursorDivides, Below
  <2>3. CursorDivides'
    BY <1>1, <1>3, <1>4, <1>6, <2>2 DEF LInv, Walk, CursorDivides, Matching, tableVars
  <2>4. ~ByPage'
    BY <1>1, <1>4, <1>6 DEF ByCursor, ByPage, Walk
  <2> QED BY <2>1, <2>3, <2>4 DEF LInv
<1>7. CASE rows # {}
  <2>1. TypeOK'
    BY <1>1, <1>2, <1>3, <1>4, <1>5, <1>7 DEF LInv, TypeOK, Walk, NoWalk, tableVars, Got
  <2>2. walk' = [walk EXCEPT !.listed = walk.listed \cup rows,
                             !.twice = walk.twice \cup (walk.listed \cap rows),
                             !.cursor = Least(rows)]
    BY <1>1, <1>4, <1>7 DEF Walk, Got
  <2>3. walk.listed \cap rows = {}
    BY <1>1, <1>2 DEF LInv, CursorDivides, Walk, Ids
  <2>4. \A e \in walk.listed \cup rows : Least(rows) <= e
    <3>1. ASSUME NEW e \in walk.listed PROVE Least(rows) <= e
      <4>1. walk.cursor \in Ids /\ walk.cursor <= e /\ e \in Ids
        BY <1>1 DEF LInv, CursorDivides, Walk
      <4>2. Least(rows) \in Ids /\ (walk.cursor = NoCursor \/ Least(rows) < walk.cursor)
        BY <1>2, <1>7
      <4>3. walk.cursor \in Nat /\ e \in Nat /\ Least(rows) \in Nat
        BY <4>1, <4>2, ConstantsAssumption DEF Ids
      <4> QED BY <4>1, <4>2, <4>3, ConstantsAssumption
    <3> QED BY <1>2, <1>7, <3>1
  <2>5. Least(rows) # NoCursor
    <3>1. Least(rows) \in Ids
      BY <1>2, <1>7
    <3>2. Least(rows) \in Nat
      BY <3>1, ConstantsAssumption DEF Ids
    <3> QED BY <3>2, ConstantsAssumption
  <2>6. ASSUME NEW e \in walk.steady PROVE e \in walk.listed \cup rows \/ e < Least(rows)
    BY <1>1, <1>2, <2>6 DEF LInv, CursorDivides, Below
  <2>7. CursorDivides'
    BY <1>1, <1>3, <2>2, <2>3, <2>4, <2>5, <2>6 DEF LInv, Walk, CursorDivides, Matching, tableVars
  <2>8. ~ByPage'
    BY <1>1, <2>2 DEF ByCursor, ByPage, Walk
  <2> QED BY <2>1, <2>7, <2>8 DEF LInv
<1> QED BY <1>6, <1>7

\* A row at or behind a page's first place that the page does not show is behind its
\* last place ...
LEMMA UnlistedIsBehind ==
  ASSUME NEW rows \in SUBSET Ids, NEW page \in Nat, NEW e \in rows,
         Cardinality(InFront(rows, e)) >= Offset(page),
         e \notin Slice(rows, Offset(page))
  PROVE  Cardinality(InFront(rows, e)) >= page * Limit
<1>1. Cardinality(InFront(rows, e)) \in Nat
  BY InFrontCounts
<1>2. Cardinality(InFront(rows, e)) \notin Offset(page) .. Offset(page) + Limit - 1
  BY DEF Slice, InFront
<1>3. Offset(page) \in Int /\ Offset(page) + Limit = page * Limit
  BY ConstantsAssumption DEF Offset
<1> QED BY <1>1, <1>2, <1>3, ConstantsAssumption

\* ... and then the page is not empty, and not the last of totalPages.
LEMMA MorePages ==
  ASSUME NEW page \in Nat \ {0}, walk.filter = Any,
         DOMAIN status \in SUBSET Ids, NEW e \in DOMAIN status,
         Cardinality(InFront(DOMAIN status, e)) >= page * Limit,
         Cardinality(InFront(DOMAIN status, e)) >= Offset(page)
  PROVE  page < TotalPages(Slice(DOMAIN status, Offset(page)))
<1>1. Limit \in Nat /\ Limit > 0
  BY ConstantsAssumption
<1> DEFINE rows == DOMAIN status
           total == Cardinality(rows)
           q == (total + Limit - 1) \div Limit
<1>2. total \in Nat
  BY IdsAreFinite, FS_CardinalityType
<1>3. total > page * Limit
  <2>1. IsFiniteSet(rows) /\ InFront(rows, e) \in SUBSET rows /\ InFront(rows, e) # rows
    <3>1. ~(e > e)
      BY ConstantsAssumption DEF Ids
    <3> QED BY <3>1, IdsAreFinite DEF InFront
  <2>2. Cardinality(InFront(rows, e)) < total
    BY <1>2, <2>1, FS_Subset, InFrontCounts
  <2>3. page * Limit \in Nat
    BY <1>1
  <2> QED BY <1>2, <2>2, <2>3, InFrontCounts
<1>4. Slice(rows, Offset(page)) # {}
  <2>1. Offset(page) \in Nat
    BY <1>1 DEF Offset
  <2>2. PICK d \in rows : Cardinality(InFront(rows, d)) = Offset(page)
    BY <2>1, NoGaps
  <2>3. Cardinality(InFront(rows, d)) \in Offset(page) .. Offset(page) + Limit - 1
    BY <1>1, <2>1, <2>2
  <2>4. d \in Slice(rows, Offset(page))
    BY <2>3 DEF Slice, InFront
  <2> QED BY <2>4
<1>5. page < q
  <2> HIDE DEF total
  <2> QED BY <1>1, <1>2, <1>3, Pages
<1> QED BY <1>4, <1>5 DEF TotalPages, Matching

LEMMA ReadPageStep == LInv /\ ReadPage => LInv'
<1> SUFFICES ASSUME LInv, ReadPage PROVE LInv'
  OBVIOUS
<1> DEFINE rows == Slice(Matching(walk.filter), Offset(walk.page))
<1>1. walk \in Walk /\ ~ByCursor
  BY DEF LInv, TypeOK, NoWalk, ReadPage, ByCursor
<1>2. rows \subseteq DOMAIN status /\ rows \subseteq Ids
  BY ConstantsAssumption DEF LInv, TypeOK, Slice, Matching, Ids
<1>3. UNCHANGED tableVars
  BY DEF ReadPage
<1>4. walk' = IF walk.page >= TotalPages(rows)
              THEN [Got(rows) EXCEPT !.at = "done"]
              ELSE [Got(rows) EXCEPT !.page = @ + 1]
  BY DEF ReadPage
<1> HIDE DEF rows
<1>5. walk' \in Walk /\ walk'.by = walk.by /\ walk'.listed = walk.listed \cup rows
  <2>1. Got(rows) \in Walk /\ Got(rows).by = walk.by /\ Got(rows).listed = walk.listed \cup rows
    BY <1>1, <1>2 DEF Walk, Got
  <2>2. Got(rows).page + 1 \in Nat \ {0}
    BY <2>1 DEF Walk
  <2> QED BY <1>4, <2>1, <2>2 DEF Walk
<1>6. walk # NoWalk /\ walk' # NoWalk
  BY <1>1, <1>5 DEF Walk, NoWalk
<1>7. TypeOK'
  BY <1>2, <1>3, <1>5, <1>6 DEF LInv, TypeOK, tableVars
<1>8. ASSUME ByPage' PROVE PagesAdvance'
  <2>1. /\ walk.filter = Any /\ walk.page \in Nat \ {0} /\ walk.steady \subseteq DOMAIN status
        /\ walk.at = "reading"
        /\ \A e \in walk.steady :
             e \in walk.listed \/ Cardinality(InFront(DOMAIN status, e)) >= Offset(walk.page)
        /\ walk'.steady = walk.steady
    BY <1>1, <1>4, <1>6, <1>8 DEF LInv, ByPage, PagesAdvance, Walk, Got, ReadPage
  <2>2. rows = Slice(DOMAIN status, Offset(walk.page)) /\ DOMAIN status \in SUBSET Ids
    BY <2>1, ConstantsAssumption DEF LInv, TypeOK, Ids, Matching, rows
  <2>3. ASSUME NEW e \in walk.steady, e \notin walk.listed \cup rows
        PROVE  walk'.at = "reading" /\ Cardinality(InFront(DOMAIN status, e)) >= Offset(walk'.page)
    <3>1. Cardinality(InFront(DOMAIN status, e)) >= walk.page * Limit
      BY <2>1, <2>2, <2>3, UnlistedIsBehind
    <3>2. walk.page < TotalPages(rows)
      <4>1. e \in DOMAIN status /\ Cardinality(InFront(DOMAIN status, e)) >= Offset(walk.page)
        BY <2>1, <2>3
      <4> QED BY <2>1, <2>2, <3>1, <4>1, MorePages
    <3>3. walk'.page = walk.page + 1 /\ walk'.at = "reading"
      <4>1. walk' = [Got(rows) EXCEPT !.page = @ + 1]
        <5>1. TotalPages(rows) \in Int
          <6>1. Cardinality(Matching(walk.filter)) \in Nat
            BY <2>1, <2>2, IdsAreFinite, FS_CardinalityType DEF Matching
          <6> QED BY <6>1, ConstantsAssumption DEF TotalPages
        <5> QED BY <1>4, <2>1, <3>2, <5>1
      <4> QED BY <1>1, <2>1, <4>1 DEF Got, Walk
    <3>4. Offset(walk'.page) = walk.page * Limit
      BY <2>1, <3>3, ConstantsAssumption DEF Offset
    <3> QED BY <3>1, <3>3, <3>4
  <2> QED BY <1>3, <1>5, <2>1, <2>3 DEF PagesAdvance, tableVars
<1> QED BY <1>1, <1>5, <1>6, <1>7, <1>8 DEF LInv, ByCursor

LEMMA NextStep == LInv /\ [Next]_vars => LInv'
<1> SUFFICES ASSUME LInv, [Next]_vars PROVE LInv'
  OBVIOUS
<1>1. CASE UNCHANGED vars
  BY <1>1 DEF LInv, TypeOK, vars, tableVars, ByCursor, CursorDivides, Matching, ByPage, PagesAdvance,
              InFront, Offset
<1>2. CASE Next
  BY <1>2, InsertStep, CommitStep, RollbackStep, MarkStep, BeginStep, ReadCursorStep, ReadPageStep
     DEF Next, Transaction
<1> QED BY <1>1, <1>2

\* The invariant holds.
THEOREM Invariance == Spec => []LInv
BY InitOK, NextStep, PTL DEF Spec

\* Every variable keeps its type, and only committed enquiries are listed.
THEOREM TypeCorrect == Spec => []TypeOK
<1>1. LInv => TypeOK
  BY DEF LInv
<1> QED BY <1>1, Invariance, PTL

\* listEnquiries: a walk by cursor lists no enquiry twice, for any limit and however
\* rows are inserted, committed late and changed meanwhile.
THEOREM CursorIsUnique == Spec => []CursorListsOnce
<1>1. LInv => CursorListsOnce
  BY DEF LInv, ByCursor, CursorDivides, CursorListsOnce, NoWalk
<1> QED BY <1>1, Invariance, PTL

\* listEnquiries: a finished walk by cursor has listed every enquiry that was there
\* when it began and matched its filter all along.
THEOREM CursorIsComplete == Spec => []CursorMissesNothing
<1>1. LInv => CursorMissesNothing
  BY DEF LInv, ByCursor, CursorDivides, CursorMissesNothing, Finished, NoWalk
<1> QED BY <1>1, Invariance, PTL

\* listEnquiries: a walk by page without a filter misses no enquiry that was there
\* when it began.
THEOREM PagesAreComplete == Spec => []PagesMissNothing
<1>1. LInv => PagesMissNothing
  BY DEF LInv, ByPage, PagesAdvance, PagesMissNothing, Finished, NoWalk
<1> QED BY <1>1, Invariance, PTL
=============================================================================
