-------------------------------- MODULE Paging --------------------------------
(***************************************************************************)
(* Walking the history with /api/news (api.py, news; store.py, page_news): *)
(* a client asks for page after page with the cursor of the last one,      *)
(* while polls insert articles, possibly older than those already there,   *)
(* and the sweep deletes some.  Each page is one store call.               *)
(*                                                                         *)
(* A cursor is the pair (sort_at, id) of an article; its encoding is left  *)
(* out.  articles.id is an INTEGER PRIMARY KEY without AUTOINCREMENT, so   *)
(* the largest id is used again once its row is gone: `serial` tells an    *)
(* article from a later one with its id.                                   *)
(***************************************************************************)
EXTENDS Naturals, FiniteSets, Sequences

CONSTANTS
    Feeds,
    Limits,       \* the page sizes a client asks for
    MaxBatch,     \* bound: the articles one poll inserts
    MaxArticles,  \* bound: the articles inserted in a run
    MaxTime,      \* bound: the clock stops here
    None

Cursor == [sort_at : Nat, id : Nat]

ASSUME PagingAssumption ==
    /\ Limits \subseteq Nat \ {0}
    /\ {MaxBatch, MaxArticles, MaxTime} \subseteq Nat
    /\ None \notin Feeds \cup Cursor

VARIABLES
    clock,     \* time.time(), rounded
    rows,      \* table articles
    inserted,  \* how many articles have been inserted, which numbers them
    walk,      \* the walk of the client
    cursor,    \* what its next page starts from: the last next_cursor
    newest,    \* the cursor of the newest article it had when it went away
    \* History, for the properties only:
    got,       \* the articles of the walk so far
    twice,     \* those of them that were returned a second time
    stayed,    \* the articles that match the walk and have been there throughout
    known,     \* what the client had when it went away
    back       \* what was there when it came back

vars == <<clock, rows, inserted, walk, cursor, newest, got, twice, stayed, known, back>>

Row == [id : Nat, feed : Feeds, sort_at : Nat, serial : Nat]

\* A walk is backward (`before`, or no cursor) or forward (`after`), through one feed
\* or all; "done" once a page came without a next_cursor.
NoWalk == [at |-> "none", forward |-> FALSE, feed |-> None]

TypeOK ==
    /\ clock \in 0 .. MaxTime
    /\ rows \subseteq Row
    /\ \A r, q \in rows : r.id = q.id => r = q
    /\ \A r \in rows : r.sort_at <= clock /\ r.serial <= inserted
    /\ inserted \in 0 .. MaxArticles
    /\ walk \in [at : {"none", "pages", "done"}, forward : BOOLEAN, feed : Feeds \cup {None}]
    /\ cursor \in Cursor \cup {None}
    /\ newest \in Cursor \cup {None}
    /\ twice \subseteq got /\ got \subseteq Row
    /\ stayed \subseteq rows
    /\ known \subseteq Row /\ back \subseteq Row

Init ==
    /\ clock = 0
    /\ rows = {}
    /\ inserted = 0
    /\ walk = NoWalk
    /\ cursor = None
    /\ newest = None
    /\ got = {} /\ twice = {} /\ stayed = {}
    /\ known = {} /\ back = {}

----------------------------------------------------------------------------
\* page_news

CursorOf(r) == [sort_at |-> r.sort_at, id |-> r.id]

\* SQLite's order of the row values (sort_at, id).
Older(a, b) == a.sort_at < b.sort_at \/ (a.sort_at = b.sort_at /\ a.id < b.id)

\* a comes before b in a walk.
Precedes(forward, a, b) == IF forward THEN Older(a, b) ELSE Older(b, a)

\* Mutants of Hits: the page repeats the row of the cursor; equal dates are skipped.
HitsFromCursor(forward, feed, from) ==
    {r \in rows : /\ feed # None => r.feed = feed
                  /\ from # None => ~Precedes(forward, r, from)}

HitsByDate(forward, feed, from) ==
    {r \in rows : /\ feed # None => r.feed = feed
                  /\ from # None => IF forward THEN r.sort_at > from.sort_at
                                               ELSE r.sort_at < from.sort_at}

\* The rows the WHERE clause selects.
Hits(forward, feed, from) ==
    {r \in rows : /\ feed # None => r.feed = feed
                  /\ from # None => Precedes(forward, from, r)}

\* The first `limit` of them in the order of the walk.
Page(hits, forward, limit) ==
    {r \in hits : Cardinality({q \in hits : Precedes(forward, q, r)}) < limit}

\* The cursor of the last row of the page, if there are more than `limit`.
NextCursor(hits, page, forward) ==
    IF page = hits THEN None
    ELSE CursorOf(CHOOSE r \in page : \A q \in page \ {r} : Precedes(forward, q, r))

----------------------------------------------------------------------------
\* The client

\* A walk that starts with neither cursor, or with `after` the newest article known.
Start(forward, feed, from) ==
    /\ walk' = [at |-> "pages", forward |-> forward, feed |-> feed]
    /\ cursor' = from
    /\ stayed' = Hits(forward, feed, from)
    /\ got' = {}
    /\ twice' = {}

StartBackward(feed) ==
    /\ Start(FALSE, feed, None)
    /\ back' = {}
    /\ UNCHANGED <<clock, rows, inserted, newest, known>>

\* The connection is lost.  The client has everything there is: it has walked the
\* history, and every new article was pushed to it.
GoAway ==
    /\ rows # {}
    /\ newest' = CursorOf(CHOOSE r \in rows : \A q \in rows \ {r} : Older(q, r))
    /\ known' = rows
    /\ walk' = NoWalk
    /\ cursor' = None
    /\ got' = {} /\ twice' = {} /\ stayed' = {} /\ back' = {}
    /\ UNCHANGED <<clock, rows, inserted>>

\* It comes back and fills the gap.
ComeBack ==
    /\ newest # None
    /\ Start(TRUE, None, newest)
    /\ back' = rows
    /\ newest' = None
    /\ UNCHANGED <<clock, rows, inserted, known>>

\* The next page of the walk.
NextPage(limit) ==
    /\ walk.at = "pages"
    /\ LET hits == Hits(walk.forward, walk.feed, cursor)
           page == Page(hits, walk.forward, limit)
           next_cursor == NextCursor(hits, page, walk.forward)
       IN  /\ cursor' = next_cursor
           /\ walk' = [walk EXCEPT !.at = IF next_cursor = None THEN "done" ELSE "pages"]
           /\ got' = got \cup page
           /\ twice' = twice \cup (page \cap got)
    /\ UNCHANGED <<clock, rows, inserted, newest, stayed, known, back>>

----------------------------------------------------------------------------
\* The poller, the sweep and the time

\* Mutants of NextId: the number of rows, which ignores the ids in use; the
\* first free ones.
CountedId == Cardinality(rows) + 1

FirstFreeId ==
    LET fits(n) == \A r \in rows : r.id \notin n .. n + MaxBatch - 1
    IN  CHOOSE n \in 1 .. inserted + 1 : fits(n) /\ \A m \in 1 .. n - 1 : ~fits(m)

\* The rowid of the next row: one more than the largest in use.
NextId == CHOOSE n \in 1 .. inserted + 1 :
              /\ \A r \in rows : r.id < n
              /\ n = 1 \/ \E r \in rows : r.id = n - 1

\* insert_articles, in one transaction; a published date in the future was clamped.
Insert(feed, dates) ==
    /\ inserted + Len(dates) <= MaxArticles
    /\ rows' = rows \cup {[id |-> NextId + i - 1, feed |-> feed, sort_at |-> dates[i],
                           serial |-> inserted + i] : i \in DOMAIN dates}
    /\ inserted' = inserted + Len(dates)
    /\ UNCHANGED <<clock, walk, cursor, newest, got, twice, stayed, known, back>>

\* The sweep: what is past its retention, in any feed, or all of an idle feed.  What
\* the servers listed, and when, may be anything, so any rows may be.
Sweep(gone) ==
    /\ gone # {}
    /\ rows' = rows \ gone
    /\ stayed' = stayed \ gone
    /\ UNCHANGED <<clock, inserted, walk, cursor, newest, got, twice, known, back>>

Tick ==
    /\ clock < MaxTime
    /\ clock' = clock + 1
    /\ UNCHANGED <<rows, inserted, walk, cursor, newest, got, twice, stayed, known, back>>

Batches == UNION {[1 .. n -> 0 .. clock] : n \in 1 .. MaxBatch}

Next ==
    \/ \E feed \in Feeds \cup {None} : StartBackward(feed)
    \/ GoAway
    \/ ComeBack
    \/ \E limit \in Limits : NextPage(limit)
    \/ \E feed \in Feeds, dates \in Batches : Insert(feed, dates)
    \/ \E gone \in SUBSET rows : Sweep(gone)
    \/ Tick

Spec == Init /\ [][Next]_vars

----------------------------------------------------------------------------
\* Properties

\* A walk returns no article twice, although articles with any date appear between
\* its pages and ids are used again (page_news, the strict comparison of both columns).
NoneTwice == twice = {}

\* A walk that came to its end has returned every article that was there from its
\* first page to its last, whatever else came and went, also the row of its cursor
\* (page_news, "without skipping or repeating rows").
WalkComplete == walk.at = "done" => stayed \subseteq got

\* `after` is for "retrieving articles missed while disconnected" (store.py:473-474).
\* It cannot bring what was inserted in between with an older date; that is all it
\* misses: unless a row the client knew has been deleted, whose id is used again, every
\* other article that was there when it came back, and still is, has been returned,
\* those of the same second as the newest it knew included (ids grow with insertion).
GapMissesOnlyBackdated ==
    walk.at = "done" /\ walk.forward /\ known \subseteq rows =>
        \A r \in (back \cap rows) \ (known \cup got) : \E k \in known : r.sort_at < k.sort_at
=============================================================================
