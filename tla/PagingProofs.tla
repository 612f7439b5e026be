----------------------------- MODULE PagingProofs -----------------------------
(***************************************************************************)
(* A walk through the history neither repeats nor skips, for any feeds,    *)
(* page sizes, batches and dates and any number of articles.               *)
(***************************************************************************)
EXTENDS Paging, FiniteSetTheorems, SequenceTheorems, TLAPS

\* Ids and serials: both grow with insertion among the rows that are there, although an
\* id whose row is gone comes back; what the client knows is older than what it does not.
Numbered ==
    /\ IsFiniteSet(rows)
    /\ \A r \in rows : r.id <= inserted
    /\ \A r, q \in rows : r.serial < q.serial => r.id < q.id
    /\ \A r \in known \cup back : r.serial <= inserted
    /\ \A k \in known, r \in rows \ known : k.serial < r.serial

\* Between two pages the cursor separates what was returned from what is still to come.
Separated ==
    walk.at = "pages" =>
        /\ \A r \in got : cursor # None /\ ~Precedes(walk.forward, cursor, r)
        /\ \A r \in stayed : r \in got \/ r \in Hits(walk.forward, walk.feed, cursor)

\* The forward walk starts from an article the client knows, so what is after all of
\* those and was there when it came back is part of the walk.
Resumed ==
    /\ newest # None => \E k \in known : newest = CursorOf(k)
    /\ \A r \in back \cap rows : (\A k \in known : Older(k, r)) => r \in stayed

PagingInv ==
    /\ TypeOK
    /\ Numbered
    /\ Separated
    /\ Resumed
    /\ NoneTwice
    /\ WalkComplete

----------------------------------------------------------------------------
\* Orders

\* A transitive, irreflexive relation on a finite set that is not empty has a first
\* element: its elements are ordered by the sets of what precedes them.
LEMMA FirstOf ==
  ASSUME NEW S, IsFiniteSet(S), S # {}, NEW R,
         \A x \in S : <<x, x>> \notin R,
         \A x, y, z \in S : <<x, y>> \in R /\ <<y, z>> \in R => <<x, z>> \in R
  PROVE  \E x \in S : \A y \in S : <<y, x>> \notin R
<1> DEFINE Below(x) == {y \in S : <<y, x>> \in R}
           belows == {Below(x) : x \in S}
           order == StrictSubsetOrdering(S)
<1>1. belows \subseteq SUBSET S /\ belows # {}
  <2>1. PICK x \in S : TRUE
    OBVIOUS
  <2>2. Below(x) \in belows
    OBVIOUS
  <2>3. ASSUME NEW b \in belows PROVE b \subseteq S
    <3>1. PICK z \in S : b = Below(z)
      OBVIOUS
    <3> QED BY <3>1
  <2> HIDE DEF belows
  <2> QED BY <2>2, <2>3
<1>2. IsWellFoundedOn(order, SUBSET S)
  BY FS_FiniteSubsetsOfFinite, FS_StrictSubsetOrderingWellFounded
<1>3. PICK b \in belows : \A d \in belows : <<d, b>> \notin order
  <2> HIDE DEF belows, order
  <2> QED BY <1>1, <1>2, WFMin
<1>4. PICK x \in S : b = Below(x)
  OBVIOUS
<1>5. ASSUME NEW y \in S, <<y, x>> \in R PROVE FALSE
  <2>1. Below(y) \subseteq Below(x) /\ Below(y) # Below(x)
    BY <1>5
  <2>2. <<Below(y), Below(x)>> \in order
    BY <2>1 DEF StrictSubsetOrdering
  <2>3. Below(y) \in belows
    OBVIOUS
  <2> QED BY <1>3, <1>4, <2>2, <2>3
<1> QED BY <1>5

\* The order of a walk is a strict total order of the pairs (sort_at, id).
LEMMA WalkOrder ==
  ASSUME NEW forward \in BOOLEAN
  PROVE  /\ \A a \in Row \cup Cursor : ~Precedes(forward, a, a)
         /\ \A a, b, c \in Row \cup Cursor :
               Precedes(forward, a, b) /\ Precedes(forward, b, c) => Precedes(forward, a, c)
         /\ \A a, b \in Row \cup Cursor :
               a.id # b.id => Precedes(forward, a, b) \/ Precedes(forward, b, a)
<1>1. \A a \in Row \cup Cursor : a.sort_at \in Nat /\ a.id \in Nat
  BY DEF Row, Cursor
<1> QED BY <1>1 DEF Precedes, Older

\* The cursor of a row stands where the row does.
LEMMA CursorStands ==
  ASSUME NEW r \in Row, NEW forward \in BOOLEAN
  PROVE  /\ CursorOf(r) \in Cursor /\ CursorOf(r) # None
         /\ \A q : Precedes(forward, CursorOf(r), q) <=> Precedes(forward, r, q)
<1>1. CursorOf(r) \in Cursor
  BY DEF CursorOf, Cursor, Row
<1> QED BY <1>1, PagingAssumption DEF CursorOf, Precedes, Older

\* A finite set of rows has a first one in the order of a walk ...
LEMMA FirstInWalk ==
  ASSUME NEW S \in SUBSET Row, IsFiniteSet(S), S # {}, NEW forward \in BOOLEAN
  PROVE  \E x \in S : \A y \in S : ~Precedes(forward, y, x)
<1> DEFINE R == {p \in S \X S : Precedes(forward, p[1], p[2])}
<1>1. \A x, y \in S : <<x, y>> \in R <=> Precedes(forward, x, y)
  OBVIOUS
<1> HIDE DEF R
<1>2. \A x \in S : <<x, x>> \notin R
  BY <1>1, WalkOrder
<1>3. \A x, y, z \in S : <<x, y>> \in R /\ <<y, z>> \in R => <<x, z>> \in R
  BY <1>1, WalkOrder
<1> QED BY <1>1, <1>2, <1>3, FirstOf

\* ... and a last one.
LEMMA LastInWalk ==
  ASSUME NEW S \in SUBSET Row, IsFiniteSet(S), S # {}, NEW forward \in BOOLEAN,
         \A x, y \in S : x.id = y.id => x = y
  PROVE  \E x \in S : \A y \in S \ {x} : Precedes(forward, y, x)
<1>1. PICK x \in S : \A y \in S : ~Precedes(~forward, y, x)
  BY FirstInWalk
<1>2. \A y \in S : ~Precedes(forward, x, y)
  BY <1>1 DEF Precedes
<1> QED BY <1>1, <1>2, WalkOrder

----------------------------------------------------------------------------
\* page_news

\* A page is the beginning of what the walk still has to return, and the next cursor,
\* if there is one, is that of its last row.
LEMMA PageIsBeginning ==
  ASSUME NEW hits \in SUBSET Row, IsFiniteSet(hits), NEW forward \in BOOLEAN,
         \A x, y \in hits : x.id = y.id => x = y,
         NEW limit \in Nat \ {0}
  PROVE  LET page == Page(hits, forward, limit)
             next == NextCursor(hits, page, forward)
         IN  /\ page \subseteq hits
             /\ page = hits => next = None
             /\ page # hits =>
                   \E last \in page :
                      /\ next = CursorOf(last)
                      /\ \A q \in page \ {last} : Precedes(forward, q, last)
                      /\ \A r \in hits \ page : Precedes(forward, last, r)
<1> DEFINE page == Page(hits, forward, limit)
           next == NextCursor(hits, page, forward)
           Before(r) == {q \in hits : Precedes(forward, q, r)}
<1>1. page \subseteq hits
  BY DEF Page
<1>2. \A r \in hits : IsFiniteSet(Before(r)) /\ Cardinality(Before(r)) \in Nat
  BY FS_Subset, FS_CardinalityType
<1>3. \A r \in hits : r \in page <=> Cardinality(Before(r)) < limit
  BY DEF Page
<1>4. ASSUME NEW r \in hits, NEW q \in page, Precedes(forward, r, q)
      PROVE  r \in page
  <2>1. Before(r) \subseteq Before(q)
    BY <1>1, <1>4, WalkOrder
  <2>2. Cardinality(Before(r)) <= Cardinality(Before(q))
    BY <1>1, <1>2, <2>1, FS_Subset
  <2> HIDE DEF Before, page
  <2>3. Cardinality(Before(r)) < limit
    BY <1>1, <1>2, <1>3, <2>2
  <2> QED BY <1>3, <2>3
<1>5. hits # {} => page # {}
  <2> SUFFICES ASSUME hits # {} PROVE page # {}
    OBVIOUS
  <2>1. PICK r \in hits : \A q \in hits : ~Precedes(forward, q, r)
    BY FirstInWalk
  <2>2. Before(r) = {}
    BY <2>1
  <2>3. Cardinality(Before(r)) = 0
    BY <2>2, FS_EmptySet
  <2> HIDE DEF Before, page
  <2> QED BY <1>3, <2>1, <2>3
<1>6. ASSUME page # hits
      PROVE  \E last \in page :
                /\ next = CursorOf(last)
                /\ \A q \in page \ {last} : Precedes(forward, q, last)
                /\ \A r \in hits \ page : Precedes(forward, last, r)
  <2> DEFINE IsLast(x) == \A q \in page \ {x} : Precedes(forward, q, x)
             last == CHOOSE x \in page : IsLast(x)
  <2> HIDE DEF page
  <2>1. page \in SUBSET Row /\ page # {} /\ IsFiniteSet(page)
    BY <1>1, <1>5, <1>6, FS_Subset
  <2>2. \E x \in page : IsLast(x)
    BY <1>1, <2>1, LastInWalk
  <2>3. last \in page /\ IsLast(last)
    BY <2>2
  <2>4. next = CursorOf(last)
    BY <1>6 DEF NextCursor
  <2>5. ASSUME NEW r \in hits \ page PROVE Precedes(forward, last, r)
    <3>1. ~Precedes(forward, r, last)
      BY <1>4, <2>3
    <3>2. r.id # last.id
      BY <1>1, <2>3
    <3> QED BY <1>1, <2>3, <3>1, <3>2, WalkOrder
  <2> QED BY <2>3, <2>4, <2>5
<1>7. page = hits => next = None
  BY DEF NextCursor
<1> QED BY <1>1, <1>6, <1>7

----------------------------------------------------------------------------
\* The invariant is inductive

\* The next rowid is above every id in use, and at most one more than there were rows.
LEMMA NextIdIsAbove ==
  ASSUME PagingInv
  PROVE  NextId \in 1 .. inserted + 1 /\ \A r \in rows : r.id < NextId
<1> DEFINE Fits(n) == /\ \A r \in rows : r.id < n
                      /\ n = 1 \/ \E r \in rows : r.id = n - 1
<1>1. /\ rows \in SUBSET Row /\ IsFiniteSet(rows) /\ inserted \in Nat
      /\ \A r \in rows : r.id \in Nat /\ r.id <= inserted
  BY PagingAssumption DEF PagingInv, TypeOK, Numbered, Row
<1>2. \E n \in 1 .. inserted + 1 : Fits(n)
  <2>1. CASE rows = {}
    BY <1>1, <2>1
  <2>2. CASE rows # {}
    <3> DEFINE R == {p \in rows \X rows : p[1].id > p[2].id}
    <3>1. \A x, y \in rows : <<x, y>> \in R <=> x.id > y.id
      OBVIOUS
    <3> HIDE DEF R
    <3>2. \E x \in rows : \A y \in rows : <<y, x>> \notin R
      <4>1. \A x \in rows : <<x, x>> \notin R
        BY <1>1, <3>1
      <4>2. \A x, y, z \in rows : <<x, y>> \in R /\ <<y, z>> \in R => <<x, z>> \in R
        BY <1>1, <3>1
      <4> QED BY <1>1, <2>2, <4>1, <4>2, FirstOf
    <3>3. PICK x \in rows : \A y \in rows : ~(y.id > x.id)
      BY <3>1, <3>2
    <3>4. x.id + 1 \in 1 .. inserted + 1 /\ Fits(x.id + 1)
      BY <1>1, <3>3
    <3> QED BY <3>4
  <2> QED BY <2>1, <2>2
<1>3. NextId = CHOOSE n \in 1 .. inserted + 1 : Fits(n)
  BY DEF NextId
<1> HIDE DEF Fits
<1>4. NextId \in 1 .. inserted + 1 /\ Fits(NextId)
  BY <1>2, <1>3
<1> QED BY <1>4 DEF Fits

\* A new walk has everything before it.
LEMMA StartSeparates ==
  ASSUME NEW forward, NEW feed, NEW from, Start(forward, feed, from), UNCHANGED rows
  PROVE  Separated' /\ WalkComplete' /\ NoneTwice'
<1>1. /\ walk'.at = "pages" /\ walk'.forward = forward /\ walk'.feed = feed
      /\ cursor' = from /\ got' = {} /\ twice' = {}
      /\ stayed' = Hits(forward, feed, from)
  BY DEF Start
<1>2. stayed' = Hits(walk.forward, walk.feed, cursor)'
  BY <1>1 DEF Hits
<1> QED BY <1>1, <1>2 DEF Separated, WalkComplete, NoneTwice

LEMMA StartBackwardKeeps ==
  ASSUME PagingInv, NEW feed \in Feeds \cup {None}, StartBackward(feed)
  PROVE  PagingInv'
<1>1. Start(FALSE, feed, None) /\ back' = {}
      /\ UNCHANGED <<clock, rows, inserted, newest, known>>
  BY DEF StartBackward
<1>2. Separated' /\ WalkComplete' /\ NoneTwice'
  BY <1>1, StartSeparates
<1>3. TypeOK'
  BY <1>1 DEF PagingInv, TypeOK, Start, Hits
<1>4. Numbered' /\ Resumed'
  BY <1>1 DEF PagingInv, Numbered, Resumed, CursorOf
<1> QED BY <1>2, <1>3, <1>4 DEF PagingInv

LEMMA GoAwayKeeps ==
  ASSUME PagingInv, GoAway
  PROVE  PagingInv'
<1> DEFINE IsNewest(r) == \A q \in rows \ {r} : Older(q, r)
           last == CHOOSE r \in rows : IsNewest(r)
<1>1. /\ rows # {} /\ newest' = CursorOf(last) /\ known' = rows
      /\ walk' = NoWalk /\ cursor' = None
      /\ got' = {} /\ twice' = {} /\ stayed' = {} /\ back' = {}
      /\ UNCHANGED <<clock, rows, inserted>>
  BY DEF GoAway
<1>2. rows \in SUBSET Row /\ IsFiniteSet(rows) /\ \A x, y \in rows : x.id = y.id => x = y
  BY DEF PagingInv, TypeOK, Numbered
<1>3. \E r \in rows : IsNewest(r)
  <2>1. \A q, r : Precedes(TRUE, q, r) <=> Older(q, r)
    BY DEF Precedes
  <2>2. \E r \in rows : \A q \in rows \ {r} : Precedes(TRUE, q, r)
    BY <1>1, <1>2, LastInWalk
  <2> QED BY <2>1, <2>2
<1>4. last \in rows
  BY <1>3
<1> HIDE DEF last
<1>5. newest' \in Cursor
  BY <1>1, <1>2, <1>4, CursorStands
<1>6. TypeOK'
  BY <1>1, <1>2, <1>5 DEF PagingInv, TypeOK, NoWalk
<1>7. Numbered'
  BY <1>1 DEF PagingInv, TypeOK, Numbered
<1>8. Resumed'
  BY <1>1, <1>4 DEF Resumed, CursorOf
<1>9. Separated' /\ NoneTwice' /\ WalkComplete'
  BY <1>1 DEF Separated, NoneTwice, WalkComplete, NoWalk
<1> QED BY <1>6, <1>7, <1>8, <1>9 DEF PagingInv

LEMMA ComeBackKeeps ==
  ASSUME PagingInv, ComeBack
  PROVE  PagingInv'
<1>1. /\ newest # None /\ Start(TRUE, None, newest) /\ back' = rows /\ newest' = None
      /\ UNCHANGED <<clock, rows, inserted, known>>
  BY DEF ComeBack
<1>2. Separated' /\ WalkComplete' /\ NoneTwice'
  BY <1>1, StartSeparates
<1>3. TypeOK'
  BY <1>1 DEF PagingInv, TypeOK, Start, Hits
<1>4. Numbered'
  BY <1>1 DEF PagingInv, TypeOK, Numbered
<1>5. PICK k \in known : newest = CursorOf(k)
  BY <1>1 DEF PagingInv, Resumed
<1>6. ASSUME NEW r \in rows, Older(k, r) PROVE r \in Hits(TRUE, None, newest)
  BY <1>5, <1>6 DEF Hits, Precedes, Older, CursorOf
<1>7. Resumed'
  BY <1>1, <1>6 DEF Resumed, Start, Older, CursorOf
<1> QED BY <1>2, <1>3, <1>4, <1>7 DEF PagingInv

LEMMA NextPageKeeps ==
  ASSUME PagingInv, NEW limit \in Limits, NextPage(limit)
  PROVE  PagingInv'
<1> DEFINE fw == walk.forward
           hits == Hits(fw, walk.feed, cursor)
           page == Page(hits, fw, limit)
           next == NextCursor(hits, page, fw)
<1>1. /\ walk.at = "pages" /\ cursor' = next
      /\ walk' = [walk EXCEPT !.at = IF next = None THEN "done" ELSE "pages"]
      /\ got' = got \cup page /\ twice' = twice \cup (page \cap got)
      /\ UNCHANGED <<clock, rows, inserted, newest, stayed, known, back>>
  BY DEF NextPage
<1>2. /\ rows \in SUBSET Row /\ IsFiniteSet(rows)
      /\ \A x, y \in rows : x.id = y.id => x = y
      /\ walk \in [at : {"none", "pages", "done"}, forward : BOOLEAN, feed : Feeds \cup {None}]
      /\ fw \in BOOLEAN /\ got \subseteq Row /\ cursor \in Cursor \cup {None}
  BY DEF PagingInv, TypeOK, Numbered
<1>3. /\ hits \subseteq rows
      /\ \A r \in hits : cursor # None => Precedes(fw, cursor, r)
  BY DEF Hits
<1>4. hits \in SUBSET Row /\ IsFiniteSet(hits)
  BY <1>2, <1>3, FS_Subset
<1>5. /\ page \subseteq hits
      /\ page = hits => next = None
      /\ page # hits =>
            \E last \in page :
               /\ next = CursorOf(last)
               /\ \A q \in page \ {last} : Precedes(fw, q, last)
               /\ \A r \in hits \ page : Precedes(fw, last, r)
  <2>1. limit \in Nat \ {0}
    BY PagingAssumption
  <2> HIDE DEF hits, fw
  <2> QED BY <1>2, <1>3, <1>4, <2>1, PageIsBeginning
<1>6. /\ \A r \in got : cursor # None /\ ~Precedes(fw, cursor, r)
      /\ \A r \in stayed : r \in got \/ r \in hits
  BY <1>1 DEF PagingInv, Separated
<1> HIDE DEF next, page
<1>7. page \cap got = {}
  BY <1>3, <1>5, <1>6
<1>8. next \in Cursor \cup {None} /\ (page # hits <=> next # None)
  BY <1>2, <1>3, <1>4, <1>5, CursorStands
<1>9. TypeOK'
  <2>1. walk' \in [at : {"none", "pages", "done"}, forward : BOOLEAN, feed : Feeds \cup {None}]
    BY <1>1, <1>2
  <2>2. twice' \subseteq got' /\ got' \subseteq Row
    BY <1>1, <1>4, <1>5 DEF PagingInv, TypeOK
  <2> QED BY <1>1, <1>8, <2>1, <2>2 DEF PagingInv, TypeOK
<1>10. Numbered' /\ Resumed'
  BY <1>1 DEF PagingInv, Numbered, Resumed, CursorOf, Older
<1>11. NoneTwice'
  BY <1>1, <1>7 DEF PagingInv, NoneTwice
<1>12. WalkComplete'
  <2> SUFFICES ASSUME walk'.at = "done" PROVE stayed' \subseteq got'
    BY DEF WalkComplete
  <2>1. page = hits
    BY <1>1, <1>2, <1>8
  <2> QED BY <1>1, <1>6, <2>1
<1>13. Separated'
  <2> SUFFICES ASSUME walk'.at = "pages" PROVE Separated'
    BY DEF Separated
  <2>1. next # None /\ page # hits
    BY <1>1, <1>2, <1>8
  <2>2. PICK last \in page :
           /\ next = CursorOf(last)
           /\ \A q \in page \ {last} : Precedes(fw, q, last)
           /\ \A r \in hits \ page : Precedes(fw, last, r)
    BY <1>5, <2>1
  <2>3. last \in Row /\ last \in hits /\ last \in rows
    BY <1>3, <1>4, <1>5
  <2>4. \A q : Precedes(fw, next, q) <=> Precedes(fw, last, q)
    BY <1>2, <2>2, <2>3, CursorStands
  <2>5. walk'.forward = fw /\ walk'.feed = walk.feed
    BY <1>1, <1>2
  <2>6. ASSUME NEW r \in got' PROVE ~Precedes(fw, last, r)
    <3>1. CASE r \in got
      <4>1. r \in Row /\ cursor \in Cursor /\ ~Precedes(fw, cursor, r)
            /\ Precedes(fw, cursor, last)
        BY <1>2, <1>3, <1>6, <2>3, <3>1
      <4> QED BY <1>2, <2>3, <4>1, WalkOrder
    <3>2. CASE r \in page
      <4>1. r \in Row
        BY <1>4, <1>5, <3>2
      <4> QED BY <1>2, <2>2, <2>3, <3>2, <4>1, WalkOrder
    <3> QED BY <1>1, <3>1, <3>2
  <2>7. ASSUME NEW r \in stayed, r \notin got'
        PROVE  r \in Hits(fw, walk.feed, next)
    <3>1. r \in hits \ page
      BY <1>1, <1>6, <2>7
    <3>2. Precedes(fw, next, r)
      BY <2>2, <2>4, <3>1
    <3> QED BY <3>1, <3>2 DEF Hits
  <2>8. \A r \in stayed' : r \in got' \/ r \in Hits(walk.forward, walk.feed, cursor)'
    BY <1>1, <2>5, <2>7 DEF Hits
  <2>9. \A r \in got' : cursor' # None /\ ~Precedes(walk'.forward, cursor', r)
    BY <1>1, <2>1, <2>4, <2>5, <2>6
  <2> QED BY <2>8, <2>9 DEF Separated, Precedes, Older
<1> QED BY <1>9, <1>10, <1>11, <1>12, <1>13 DEF PagingInv

LEMMA InsertKeeps ==
  ASSUME PagingInv, NEW feed \in Feeds, NEW dates \in Batches, Insert(feed, dates)
  PROVE  PagingInv'
<1> DEFINE New(i) == [id |-> NextId + i - 1, feed |-> feed, sort_at |-> dates[i],
                      serial |-> inserted + i]
           fresh == {New(i) : i \in DOMAIN dates}
           n == Len(dates)
<1>1. /\ inserted + n <= MaxArticles /\ rows' = rows \cup fresh /\ inserted' = inserted + n
      /\ UNCHANGED <<clock, walk, cursor, newest, got, twice, stayed, known, back>>
  BY DEF Insert
<1>2. n \in Nat /\ DOMAIN dates = 1 .. n /\ \A i \in 1 .. n : dates[i] \in 0 .. clock
  <2>1. PICK m \in 1 .. MaxBatch : dates \in [1 .. m -> 0 .. clock]
    BY DEF Batches
  <2>2. m \in Nat
    BY PagingAssumption
  <2>3. dates \in Seq(0 .. clock)
    BY <2>1, <2>2, SeqDef
  <2> QED BY <2>1, <2>3, LenProperties
<1>3. /\ rows \in SUBSET Row /\ IsFiniteSet(rows) /\ inserted \in 0 .. MaxArticles
      /\ clock \in Nat /\ MaxArticles \in Nat
      /\ \A r, q \in rows : r.id = q.id => r = q
      /\ \A r \in rows : r.id \in Nat /\ r.serial \in Nat /\ r.sort_at <= clock
                         /\ r.serial <= inserted /\ r.id <= inserted
      /\ \A r, q \in rows : r.serial < q.serial => r.id < q.id
  BY PagingAssumption DEF PagingInv, TypeOK, Numbered, Row
<1>4. NextId \in 1 .. inserted + 1 /\ \A r \in rows : r.id < NextId
  BY NextIdIsAbove
<1> DEFINE base == NextId
<1>5. ASSUME NEW i \in 1 .. n
      PROVE  /\ New(i) \in Row
             /\ New(i).id = base + i - 1 /\ New(i).serial = inserted + i
             /\ New(i).sort_at <= clock /\ New(i).id <= inserted + n
             /\ New(i).serial <= inserted + n
  <2>1. dates[i] \in Nat /\ dates[i] <= clock
    BY <1>2, <1>3
  <2>2. base + i - 1 \in Nat /\ inserted + i \in Nat /\ base + i - 1 <= inserted + n
        /\ inserted + i <= inserted + n
    BY <1>2, <1>3, <1>4
  <2> HIDE DEF base
  <2> QED BY <2>1, <2>2 DEF Row, base
<1>6. \A r \in fresh : \E i \in 1 .. n : r = New(i)
  BY <1>2
<1> HIDE DEF New, fresh, base
<1>7. rows' \subseteq Row /\ \A r \in rows' : r.sort_at <= clock
                             /\ r.serial <= inserted' /\ r.id <= inserted'
  <2>1. ASSUME NEW r \in rows
        PROVE  r \in Row /\ r.sort_at <= clock /\ r.serial <= inserted + n
               /\ r.id <= inserted + n
    BY <1>2, <1>3
  <2>2. ASSUME NEW r \in fresh
        PROVE  r \in Row /\ r.sort_at <= clock /\ r.serial <= inserted + n
               /\ r.id <= inserted + n
    BY <1>5, <1>6
  <2> QED BY <1>1, <2>1, <2>2
<1>8. ASSUME NEW r \in rows, NEW q \in fresh
      PROVE  r.id < q.id /\ r.serial < q.serial
  <2>1. PICK i \in 1 .. n : q = New(i)
    BY <1>6
  <2>2. q.id = base + i - 1 /\ q.serial = inserted + i
    BY <1>5, <2>1
  <2>3. r.id < base /\ base \in Nat
    BY <1>3, <1>4 DEF base
  <2> QED BY <1>2, <1>3, <2>2, <2>3
<1>9. ASSUME NEW r \in fresh, NEW q \in fresh
      PROVE  /\ r.id = q.id => r = q
             /\ r.serial < q.serial => r.id < q.id
  <2>1. PICK i \in 1 .. n : r = New(i)
    BY <1>6
  <2>2. PICK j \in 1 .. n : q = New(j)
    BY <1>6
  <2>3. /\ r.id = base + i - 1 /\ q.id = base + j - 1
        /\ r.serial = inserted + i /\ q.serial = inserted + j /\ base \in Nat
    BY <1>3, <1>4, <1>5, <2>1, <2>2 DEF base
  <2>4. r.id = q.id => i = j
    BY <1>2, <2>3
  <2>5. r.serial < q.serial => r.id < q.id
    BY <1>2, <1>3, <2>3
  <2> QED BY <2>1, <2>2, <2>4, <2>5
<1>10. /\ \A r, q \in rows' : r.id = q.id => r = q
       /\ \A r, q \in rows' : r.serial < q.serial => r.id < q.id
  <2>1. ASSUME NEW r \in rows', NEW q \in rows'
        PROVE  (r.id = q.id => r = q) /\ (r.serial < q.serial => r.id < q.id)
    <3>1. r.id \in Nat /\ q.id \in Nat /\ r.serial \in Nat /\ q.serial \in Nat
      BY <1>7 DEF Row
    <3>2. CASE r \in rows /\ q \in rows
      BY <1>3, <3>2
    <3>3. CASE r \in rows /\ q \in fresh
      BY <1>8, <3>1, <3>3
    <3>4. CASE r \in fresh /\ q \in rows
      BY <1>8, <3>1, <3>4
    <3>5. CASE r \in fresh /\ q \in fresh
      BY <1>9, <3>5
    <3> QED BY <1>1, <3>2, <3>3, <3>4, <3>5
  <2> QED BY <2>1
<1>11. IsFiniteSet(rows')
  <2>1. IsFiniteSet(1 .. n)
    BY <1>2, FS_Interval
  <2> DEFINE fn == [i \in 1 .. n |-> New(i)]
  <2>2. fn \in Surjection(1 .. n, fresh)
    BY <1>2 DEF fresh, Surjection
  <2>3. IsFiniteSet(fresh)
    BY <2>1, <2>2, FS_Surjection
  <2> QED BY <1>1, <1>3, <2>3, FS_Union
<1>12. \A r \in known \cup back : r.serial \in Nat /\ r.serial <= inserted
  BY DEF PagingInv, TypeOK, Numbered, Row
<1>13. ASSUME NEW q \in fresh PROVE q \notin known \cup back /\ q.serial > inserted
  <2>1. PICK i \in 1 .. n : q = New(i)
    BY <1>6
  <2>2. q.serial = inserted + i
    BY <1>5, <2>1
  <2>3. q.serial > inserted
    BY <1>2, <1>3, <2>2
  <2> QED BY <1>3, <1>12, <2>2, <2>3
<1>14. Numbered'
  <2>1. \A r \in (known \cup back)' : r.serial <= inserted'
    BY <1>1, <1>2, <1>3, <1>12
  <2>2. ASSUME NEW k \in known, NEW r \in rows' \ known PROVE k.serial < r.serial
    <3>1. CASE r \in rows
      BY <2>2, <3>1 DEF PagingInv, Numbered
    <3>2. CASE r \in fresh
      BY <1>3, <1>5, <1>6, <1>12, <1>13, <3>2
    <3> QED BY <1>1, <3>1, <3>2
  <2> QED BY <1>1, <1>7, <1>10, <1>11, <2>1, <2>2 DEF Numbered
<1>15. TypeOK'
  <2>1. inserted' \in 0 .. MaxArticles
    BY <1>1, <1>2, <1>3
  <2>2. stayed' \subseteq rows'
    BY <1>1 DEF PagingInv, TypeOK
  <2> QED BY <1>1, <1>7, <1>10, <2>1, <2>2 DEF PagingInv, TypeOK
<1>16. Resumed'
  <2>1. back' \cap rows' = back \cap rows
    BY <1>1, <1>13
  <2> QED BY <1>1, <2>1 DEF PagingInv, Resumed, Older, CursorOf
<1>17. Separated'
  BY <1>1 DEF PagingInv, Separated, Hits, Precedes, Older
<1>18. NoneTwice' /\ WalkComplete'
  BY <1>1 DEF PagingInv, NoneTwice, WalkComplete
<1> QED BY <1>14, <1>15, <1>16, <1>17, <1>18 DEF PagingInv

LEMMA SweepKeeps ==
  ASSUME PagingInv, NEW gone \in SUBSET rows, Sweep(gone)
  PROVE  PagingInv'
<1>1. /\ rows' = rows \ gone /\ stayed' = stayed \ gone
      /\ UNCHANGED <<clock, inserted, walk, cursor, newest, got, twice, known, back>>
  BY DEF Sweep
<1>2. TypeOK'
  BY <1>1 DEF PagingInv, TypeOK
<1>3. IsFiniteSet(rows')
  BY <1>1, FS_Subset DEF PagingInv, Numbered
<1>4. Numbered'
  BY <1>1, <1>3 DEF PagingInv, Numbered
<1>5. Separated'
  <2>1. ASSUME NEW r \in stayed', r \in Hits(walk.forward, walk.feed, cursor)
        PROVE  r \in Hits(walk.forward, walk.feed, cursor)'
    BY <1>1, <2>1 DEF Hits, Precedes, Older
  <2> QED BY <1>1, <2>1 DEF PagingInv, Separated, Precedes, Older
<1>6. Resumed'
  <2>1. \A r \in back' \cap rows' : r \in stayed => r \in stayed'
    BY <1>1
  <2> QED BY <1>1, <2>1 DEF PagingInv, Resumed, Older, CursorOf
<1>7. NoneTwice' /\ WalkComplete'
  BY <1>1 DEF PagingInv, NoneTwice, WalkComplete
<1> QED BY <1>2, <1>4, <1>5, <1>6, <1>7 DEF PagingInv

LEMMA TickKeeps ==
  ASSUME PagingInv, Tick
  PROVE  PagingInv'
<1>1. /\ clock' = clock + 1 /\ clock \in Nat /\ clock' \in 0 .. MaxTime
      /\ UNCHANGED <<rows, inserted, walk, cursor, newest, got, twice, stayed, known, back>>
  BY PagingAssumption DEF PagingInv, TypeOK, Tick
<1>2. \A r \in rows : r.sort_at <= clock'
  BY <1>1 DEF PagingInv, TypeOK, Row
<1>3. TypeOK'
  BY <1>1, <1>2 DEF PagingInv, TypeOK
<1>4. Numbered' /\ NoneTwice' /\ WalkComplete'
  BY <1>1 DEF PagingInv, Numbered, NoneTwice, WalkComplete
<1>5. Separated' /\ Resumed'
  BY <1>1 DEF PagingInv, Separated, Resumed, Hits, Precedes, Older, CursorOf
<1> QED BY <1>3, <1>4, <1>5 DEF PagingInv

LEMMA StepKeeps ==
  ASSUME PagingInv, [Next]_vars
  PROVE  PagingInv'
<1>1. CASE UNCHANGED vars
  <2>1. TypeOK' /\ Numbered' /\ NoneTwice' /\ WalkComplete'
    BY <1>1 DEF vars, PagingInv, TypeOK, Numbered, NoneTwice, WalkComplete
  <2>2. Separated' /\ Resumed'
    BY <1>1 DEF vars, PagingInv, Separated, Resumed, Hits, Precedes, Older, CursorOf
  <2> QED BY <2>1, <2>2 DEF PagingInv
<1> QED
  BY <1>1, StartBackwardKeeps, GoAwayKeeps, ComeBackKeeps, NextPageKeeps, InsertKeeps,
     SweepKeeps, TickKeeps
  DEF Next

LEMMA InitKeeps == Init => PagingInv
<1> SUFFICES ASSUME Init PROVE PagingInv
  OBVIOUS
<1>1. TypeOK
  BY PagingAssumption DEF Init, TypeOK, NoWalk
<1>2. Numbered
  BY FS_EmptySet DEF Init, Numbered
<1>3. Separated /\ Resumed /\ NoneTwice /\ WalkComplete
  BY DEF Init, Separated, Resumed, NoneTwice, WalkComplete, NoWalk
<1> QED BY <1>1, <1>2, <1>3 DEF PagingInv

----------------------------------------------------------------------------
\* What follows

\* What the client misses when it comes back is older than something it knew: an article
\* in its second that is not older was inserted later, and has the larger id.
LEMMA MissedIsBackdated == PagingInv => GapMissesOnlyBackdated
<1> SUFFICES ASSUME PagingInv, walk.at = "done", known \subseteq rows,
                    NEW r \in (back \cap rows) \ (known \cup got)
             PROVE  \E k \in known : r.sort_at < k.sort_at
  BY DEF GapMissesOnlyBackdated
<1>1. r \notin stayed
  BY DEF PagingInv, WalkComplete
<1>2. PICK k \in known : ~Older(k, r)
  BY <1>1 DEF PagingInv, Resumed
<1>3. k \in rows /\ k.serial < r.serial
  BY DEF PagingInv, Numbered
<1>4. k.id < r.id
  BY <1>3 DEF PagingInv, Numbered
<1>5. /\ k.id \in Nat /\ r.id \in Nat /\ k.sort_at \in Nat /\ r.sort_at \in Nat
  BY <1>3 DEF PagingInv, TypeOK, Row
<1> QED BY <1>2, <1>4, <1>5 DEF Older

LEMMA PagingInvariant == Spec => []PagingInv
<1>1. PagingInv /\ [Next]_vars => PagingInv'
  BY StepKeeps
<1> QED BY InitKeeps, <1>1, PTL DEF Spec

\* The variables stay in their ranges; no two articles have one id, and none is dated
\* after now (insert_articles).
THEOREM PagingTypeCorrect == Spec => []TypeOK
<1>1. PagingInv => TypeOK
  BY DEF PagingInv
<1> QED BY PagingInvariant, <1>1, PTL

\* No walk returns an article twice, whatever is inserted, with any date, and deleted
\* between its pages (page_news, the strict comparison with the cursor).
THEOREM NeverTwice == Spec => []NoneTwice
<1>1. PagingInv => NoneTwice
  BY DEF PagingInv
<1> QED BY PagingInvariant, <1>1, PTL

\* A walk that came to its end has returned every article that matches it and was there
\* all the time, even if the row of a cursor was deleted (page_news).
THEOREM WalksComplete == Spec => []WalkComplete
<1>1. PagingInv => WalkComplete
  BY DEF PagingInv
<1> QED BY PagingInvariant, <1>1, PTL

\* The forward walk of a client that was away misses only what was inserted with a date
\* before one it knew, as long as no row it knew is gone (page_news, `after`).
THEOREM GapsAreBackdated == Spec => []GapMissesOnlyBackdated
  BY PagingInvariant, MissedIsBackdated, PTL
=============================================================================
