--------------------------- MODULE MigrationProofs ---------------------------
(***************************************************************************)
(* Theorems about opening the database: what the stamp means, that a       *)
(* stamped database keeps its URLs, that the history of an older version   *)
(* is found again, and that the sweep spares what is recent.               *)
(***************************************************************************)
EXTENDS Migration, TLAPS

----------------------------------------------------------------------------
\* The inductive invariant

Before(places) == at \in {"down"} \cup places
InTransaction == at \in {"columns", "rows", "commit"}

\* The databases are well formed, and no article was last seen before it was fetched.
Sound(d) == WellFormed(d) /\ SeenSinceFetched(d)

Ranges ==
    /\ Sound(disk) /\ Sound(db)
    /\ at \in Places /\ once \in BOOLEAN
    /\ todo \subseteq DOMAIN db.urls /\ (at # "rows" => todo = {})
    /\ was \in [DOMAIN was -> Urls]

\* Only the transaction holds back anything from the disk, and no row ever.
HeldBack ==
    /\ ~InTransaction => db = disk
    /\ DOMAIN db.fetched = DOMAIN disk.fetched
    /\ at \notin {"rows", "commit"} => db.urls = disk.urls
    /\ disk.version = 1 => db.version = 1 /\ db.urls = disk.urls

\* What the version said is still so when the work it stands for is done.
VersionKnown ==
    /\ at \in {"tables", "column", "backfill", "columns", "rows"} =>
          once = (db.version = 0) /\ disk.version = db.version
    /\ at = "rows" => once
    /\ at \in {"commit", "disable", "up"} => db.version = 1

\* The work done on database d when the statement at `at` comes next.
Backfilled(d) == \A f \in DOMAIN d.seen : d.seen[f] # 0
Complete(d) == d.leftovers = {} /\ d.seen_column /\ Backfilled(d)

WorkDone ==
    /\ disk.version = 1 => Complete(disk)
    /\ db.version = 1 => Complete(db)
    /\ ~Before({"tables"}) => "tables" \notin db.leftovers
    /\ ~Before({"tables", "column"}) => db.seen_column
    /\ ~Before({"tables", "column", "backfill"}) => Backfilled(db)
    /\ at \in {"rows", "commit", "disable", "up"} => Complete(db)

\* The row of the older version is found in `urls` by its canonical form, if that is a
\* fixed point, and it is the row itself when it has no rival.
Rivals(f) == {g \in DOMAIN was \ {f} : canonical_url(was[g]) = canonical_url(was[f])}

Found(f, urls) ==
    LET canon == canonical_url(was[f])
    IN  canonical_url(canon) = canon =>
            /\ canon \in Range(urls)
            /\ Rivals(f) = {} => f \in DOMAIN urls /\ urls[f] = canon

\* Until the stamp the rows are those of the older version, each as it was or as it shall
\* be, and those the loop has looked at are found; after it all are.
History ==
    /\ disk.version = 0 => disk.urls = was
    /\ disk.version = 1 => \A f \in DOMAIN was : Found(f, disk.urls)
    /\ db.version = 1 => \A f \in DOMAIN was : Found(f, db.urls)
    /\ at = "rows" =>
          /\ DOMAIN db.urls = DOMAIN was
          /\ \A f \in todo : db.urls[f] = was[f]
          /\ \A f \in DOMAIN was : db.urls[f] \in {was[f], canonical_url(was[f])}
          /\ \A f \in DOMAIN was \ todo : Found(f, db.urls)

MigrationInv == Ranges /\ HeldBack /\ VersionKnown /\ WorkDone /\ History

----------------------------------------------------------------------------
\* Operators of the model

\* What canonical_url returns is a URL.
LEMMA CanonicalUrls == \A url \in Urls : canonical_url(url) \in Urls
<1> SUFFICES ASSUME NEW url \in Urls PROVE canonical_url(url) \in Urls
  OBVIOUS
<1>1. /\ url \in [upper : BOOLEAN, slashes : 0 .. 2, kind : {"path", "query", "port"}]
      /\ url.slashes \in 0 .. 2 /\ url.kind \in {"path", "query", "port"}
  BY DEF Urls
<1>2. CASE url.kind = "port"
  BY <1>2 DEF canonical_url
<1>3. CASE url.kind # "port" /\ (url.kind = "query" \/ url.slashes = 0)
  BY <1>1, <1>3 DEF canonical_url, Urls
<1>4. CASE url.kind # "port" /\ url.kind # "query" /\ url.slashes # 0
  <2>1. canonical_url(url) = [url EXCEPT !.upper = FALSE, !.slashes = url.slashes - 1]
    BY <1>4 DEF canonical_url
  <2>2. url.slashes - 1 \in 0 .. 2
    BY <1>1, <1>4
  <2> QED BY <1>1, <2>1, <2>2 DEF Urls
<1> QED BY <1>2, <1>3, <1>4

\* A sound database has these fields.
Fields == {"version", "leftovers", "seen_column", "urls", "enabled", "fetched", "seen"}

\* A change of the fields that are not tables keeps a database sound.
LEMMA SoundFlags ==
  ASSUME NEW d, Sound(d),
         NEW e, DOMAIN e = Fields,
         e.version \in {0, 1}, e.leftovers \subseteq d.leftovers, e.seen_column \in BOOLEAN,
         e.urls = d.urls, e.enabled = d.enabled, e.fetched = d.fetched, e.seen = d.seen
  PROVE  Sound(e)
  BY DEF Sound, WellFormed, SeenSinceFetched, Fields

----------------------------------------------------------------------------
\* Every step keeps the invariant, the URLs of a stamped database, and what is recent

UrlsKept ==
    disk.version = 1 => \A f \in DOMAIN db.urls \cap DOMAIN db'.urls : db'.urls[f] = db.urls[f]

RecentSpared ==
    \A f \in DOMAIN db.fetched \ DOMAIN db'.fetched :
        f \in DOMAIN db'.urls => db.fetched[f] + Retention < Now

LEMMA OpenKeeps ==
  ASSUME MigrationInv, Open
  PROVE  MigrationInv' /\ UrlsKept /\ RecentSpared
<1>1. /\ UNCHANGED <<disk, db, todo, was>> /\ at = "down" /\ at' = "tables"
      /\ once' = (db.version < 1)
  BY DEF Open, Then
<1>2. db.version \in {0, 1} /\ db = disk
  BY <1>1 DEF MigrationInv, Ranges, Sound, WellFormed, HeldBack, InTransaction
<1>3. once' = (db.version = 0)
  BY <1>1, <1>2
<1>4. Ranges'
  BY <1>1, <1>3 DEF MigrationInv, Ranges, Places, Sound, WellFormed, SeenSinceFetched
<1>5. HeldBack'
  BY <1>1, <1>2 DEF MigrationInv, HeldBack, InTransaction
<1>6. VersionKnown'
  BY <1>1, <1>2, <1>3 DEF VersionKnown
<1>7. WorkDone'
  BY <1>1 DEF MigrationInv, WorkDone, Before, Complete, Backfilled
<1>8. History'
  BY <1>1 DEF MigrationInv, History, Found, Rivals
<1>9. UrlsKept /\ RecentSpared
  BY <1>1 DEF UrlsKept, RecentSpared
<1> QED BY <1>4, <1>5, <1>6, <1>7, <1>8, <1>9 DEF MigrationInv

LEMMA DropTablesKeeps ==
  ASSUME MigrationInv, DropTables
  PROVE  MigrationInv' /\ UrlsKept /\ RecentSpared
<1>1. /\ at = "tables" /\ at' = "column" /\ UNCHANGED <<once, todo, was>>
      /\ disk' = db'
  BY DEF DropTables, Then, Autocommit, MigrationInv, HeldBack, InTransaction
<1>2. db = disk /\ Sound(db) /\ (db.version = 1 => Complete(db)) /\ once = (db.version = 0)
      /\ db.version \in {0, 1}
  BY <1>1 DEF MigrationInv, Ranges, HeldBack, InTransaction, WorkDone, VersionKnown, Sound, WellFormed
<1>3. /\ Sound(db')
      /\ db'.version = db.version /\ db'.seen_column = db.seen_column
      /\ db'.leftovers \subseteq db.leftovers /\ "tables" \notin db'.leftovers
      /\ db'.urls = db.urls /\ db'.enabled = db.enabled
      /\ db'.fetched = db.fetched /\ db'.seen = db.seen
  <2>1. CASE once
    <3>1. db' = [db EXCEPT !.leftovers = @ \ {"tables"}]
      BY <1>1, <2>1 DEF DropTables, Autocommit
    <3>2. DOMAIN db = Fields /\ db.version \in {0, 1} /\ db.seen_column \in BOOLEAN
      BY <1>2 DEF Sound, WellFormed, Fields
    <3>3. /\ DOMAIN db' = Fields /\ db'.leftovers = db.leftovers \ {"tables"}
          /\ db'.version = db.version /\ db'.seen_column = db.seen_column
          /\ db'.urls = db.urls /\ db'.enabled = db.enabled
          /\ db'.fetched = db.fetched /\ db'.seen = db.seen
      BY <3>1, <3>2 DEF Fields
    <3>4. Sound(db')
      BY <1>2, <3>2, <3>3, SoundFlags
    <3> QED BY <3>3, <3>4
  <2>2. CASE ~once
    <3>1. db' = db /\ db.version = 1
      BY <1>1, <1>2, <2>2 DEF DropTables
    <3> QED BY <1>2, <3>1 DEF Complete
  <2> QED BY <2>1, <2>2 DEF MigrationInv, Ranges
<1>4. Ranges'
  BY <1>1, <1>3 DEF MigrationInv, Ranges, Places, Sound, WellFormed, SeenSinceFetched
<1>5. HeldBack'
  BY <1>1, <1>2, <1>3 DEF MigrationInv, HeldBack, InTransaction
<1>6. VersionKnown'
  BY <1>1, <1>2, <1>3 DEF VersionKnown
<1>7. WorkDone'
  BY <1>1, <1>2, <1>3 DEF WorkDone, Before, Complete, Backfilled
<1>8. History'
  BY <1>1, <1>2, <1>3 DEF MigrationInv, History, Found, Rivals
<1>9. UrlsKept /\ RecentSpared
  BY <1>1, <1>3 DEF UrlsKept, RecentSpared
<1> QED BY <1>4, <1>5, <1>6, <1>7, <1>8, <1>9 DEF MigrationInv

LEMMA AddSeenColumnKeeps ==
  ASSUME MigrationInv, AddSeenColumn
  PROVE  MigrationInv' /\ UrlsKept /\ RecentSpared
<1>1. /\ at = "column" /\ at' = "backfill" /\ UNCHANGED <<once, todo, was>>
      /\ disk' = db' /\ db' = [db EXCEPT !.seen_column = TRUE]
  BY DEF AddSeenColumn, Then, Autocommit
<1>2. db = disk /\ Sound(db) /\ once = (db.version = 0) /\ "tables" \notin db.leftovers
  BY <1>1 DEF MigrationInv, Ranges, HeldBack, InTransaction, WorkDone, Before, VersionKnown
<1>3. /\ DOMAIN db' = Fields /\ db'.seen_column = TRUE
      /\ db'.version = db.version /\ db'.leftovers = db.leftovers
      /\ db'.urls = db.urls /\ db'.enabled = db.enabled
      /\ db'.fetched = db.fetched /\ db'.seen = db.seen
      /\ db.version \in {0, 1}
  <2>1. DOMAIN db = Fields /\ db.version \in {0, 1}
    BY <1>2 DEF Sound, WellFormed, Fields
  <2> QED BY <1>1, <2>1 DEF Fields
<1>4. Sound(db')
  BY <1>2, <1>3, SoundFlags
<1>5. Ranges'
  BY <1>1, <1>3, <1>4 DEF MigrationInv, Ranges, Places, Sound, WellFormed, SeenSinceFetched
<1>6. HeldBack'
  BY <1>1, <1>2, <1>3 DEF MigrationInv, HeldBack, InTransaction
<1>7. VersionKnown'
  BY <1>1, <1>2, <1>3 DEF VersionKnown
<1>8. WorkDone'
  BY <1>1, <1>2, <1>3 DEF MigrationInv, WorkDone, Before, Complete, Backfilled
<1>9. History'
  BY <1>1, <1>2, <1>3 DEF MigrationInv, History, Found, Rivals
<1>10. UrlsKept /\ RecentSpared
  BY <1>1, <1>3 DEF UrlsKept, RecentSpared
<1> QED BY <1>5, <1>6, <1>7, <1>8, <1>9, <1>10 DEF MigrationInv

LEMMA BackfillKeeps ==
  ASSUME MigrationInv, Backfill
  PROVE  MigrationInv' /\ UrlsKept /\ RecentSpared
<1>1. /\ at = "backfill" /\ at' = "columns" /\ UNCHANGED <<disk, once, todo, was>>
      /\ db' = [db EXCEPT !.seen = [f \in DOMAIN db.seen |->
                                       IF db.seen[f] = 0 THEN db.fetched[f] ELSE db.seen[f]]]
  BY DEF Backfill, Then, Uncommitted
<1>2. /\ db = disk /\ Sound(db) /\ once = (db.version = 0) /\ db.seen_column
      /\ "tables" \notin db.leftovers
  BY <1>1 DEF MigrationInv, Ranges, HeldBack, InTransaction, WorkDone, Before, VersionKnown
<1>3. /\ DOMAIN db' = Fields /\ db'.seen_column = db.seen_column
      /\ db'.version = db.version /\ db'.leftovers = db.leftovers
      /\ db'.urls = db.urls /\ db'.enabled = db.enabled /\ db'.fetched = db.fetched
      /\ db'.seen = [f \in DOMAIN db.seen |-> IF db.seen[f] = 0 THEN db.fetched[f] ELSE db.seen[f]]
  <2>1. DOMAIN db = Fields
    BY <1>2 DEF Sound, WellFormed, Fields
  <2> QED BY <1>1, <2>1 DEF Fields
<1>4. /\ db'.seen \in [DOMAIN db'.fetched -> Nat]
      /\ Backfilled(db') /\ SeenSinceFetched(db')
  <2>1. /\ db.seen \in [DOMAIN db.fetched -> Nat] /\ db.fetched \in [DOMAIN db.fetched -> Nat \ {0}]
        /\ \A f \in DOMAIN db.seen : db.seen[f] = 0 \/ db.fetched[f] <= db.seen[f]
    BY <1>2 DEF Sound, WellFormed, SeenSinceFetched
  <2>2. /\ DOMAIN db'.seen = DOMAIN db.fetched
        /\ \A f \in DOMAIN db.fetched :
              db'.seen[f] = IF db.seen[f] = 0 THEN db.fetched[f] ELSE db.seen[f]
    BY <1>3, <2>1
  <2>3. \A f \in DOMAIN db.fetched :
           db'.seen[f] \in Nat /\ db'.seen[f] # 0 /\ db.fetched[f] <= db'.seen[f]
    BY <2>1, <2>2
  <2>4. db'.seen \in [DOMAIN db.fetched -> Nat]
    BY <1>3, <2>1, <2>2, <2>3
  <2> QED BY <1>3, <2>2, <2>3, <2>4 DEF Backfilled, SeenSinceFetched
<1>5. Sound(db')
  BY <1>2, <1>3, <1>4 DEF Sound, WellFormed, Fields
<1>6. Ranges'
  BY <1>1, <1>3, <1>5 DEF MigrationInv, Ranges, Places, Sound, WellFormed, SeenSinceFetched
<1>7. HeldBack'
  BY <1>1, <1>2, <1>3 DEF MigrationInv, HeldBack, InTransaction
<1>8. VersionKnown'
  BY <1>1, <1>2, <1>3 DEF MigrationInv, VersionKnown
<1>9. WorkDone'
  BY <1>1, <1>2, <1>3, <1>4 DEF MigrationInv, WorkDone, Before, Complete, Backfilled
<1>10. History'
  BY <1>1, <1>2, <1>3 DEF MigrationInv, History, Found, Rivals
<1>11. UrlsKept /\ RecentSpared
  BY <1>1, <1>3 DEF UrlsKept, RecentSpared
<1> QED BY <1>6, <1>7, <1>8, <1>9, <1>10, <1>11 DEF MigrationInv

LEMMA DropColumnsKeeps ==
  ASSUME MigrationInv, DropColumns
  PROVE  MigrationInv' /\ UrlsKept /\ RecentSpared
<1>1. at = "columns" /\ UNCHANGED <<disk, once, was>>
  BY DEF DropColumns, Then, Uncommitted
<1>2. /\ db.urls = disk.urls /\ Sound(db) /\ once = (db.version = 0) /\ disk.version = db.version
      /\ db.seen_column /\ Backfilled(db) /\ "tables" \notin db.leftovers
      /\ db.version = 1 => Complete(db)
  BY <1>1 DEF MigrationInv, Ranges, HeldBack, WorkDone, Before, VersionKnown
<1>3. DOMAIN db = Fields /\ db.version \in {0, 1} /\ db.leftovers \subseteq {"tables", "columns"}
      /\ db.seen_column \in BOOLEAN
  BY <1>2 DEF Sound, WellFormed, Fields
<1>4. CASE once
  <2>1. /\ db' = [db EXCEPT !.leftovers = db.leftovers \ {"columns"}]
        /\ todo' = DOMAIN db.urls /\ at' = "rows"
    BY <1>4 DEF DropColumns, Then, Uncommitted
  <2>2. /\ DOMAIN db' = Fields /\ db'.leftovers = {}
        /\ db'.version = db.version /\ db'.seen_column = db.seen_column
        /\ db'.urls = db.urls /\ db'.enabled = db.enabled
        /\ db'.fetched = db.fetched /\ db'.seen = db.seen
    BY <1>2, <1>3, <2>1 DEF Fields
  <2>3. Sound(db')
    BY <1>2, <1>3, <2>2, SoundFlags
  <2>4. Ranges'
    BY <1>1, <2>1, <2>2, <2>3 DEF MigrationInv, Ranges, Places, Sound, WellFormed, SeenSinceFetched
  <2>5. HeldBack'
    BY <1>1, <1>2, <2>1, <2>2 DEF MigrationInv, HeldBack, InTransaction
  <2>6. VersionKnown'
    BY <1>1, <1>2, <1>4, <2>1, <2>2 DEF VersionKnown
  <2>7. WorkDone'
    BY <1>1, <1>2, <2>1, <2>2 DEF MigrationInv, WorkDone, Before, Complete, Backfilled
  <2>8. History'
    <3>1. db.urls = was /\ disk.version = 0 /\ db.version = 0
      BY <1>2, <1>4 DEF MigrationInv, History
    <3> QED BY <1>1, <1>2, <2>1, <2>2, <3>1 DEF MigrationInv, History, Found, Rivals
  <2>9. UrlsKept /\ RecentSpared
    BY <2>2 DEF UrlsKept, RecentSpared
  <2> QED BY <2>4, <2>5, <2>6, <2>7, <2>8, <2>9 DEF MigrationInv
<1>5. CASE ~once
  <2>1. at' = "commit" /\ UNCHANGED <<db, todo>> /\ db.version = 1
    BY <1>2, <1>3, <1>5 DEF DropColumns, Then
  <2>2. Ranges'
    BY <1>1, <2>1 DEF MigrationInv, Ranges, Places, Sound, WellFormed, SeenSinceFetched
  <2>3. HeldBack'
    BY <1>1, <1>2, <2>1 DEF MigrationInv, HeldBack, InTransaction
  <2>4. VersionKnown'
    BY <2>1 DEF VersionKnown
  <2>5. WorkDone'
    BY <1>1, <1>2, <2>1 DEF MigrationInv, WorkDone, Before, Complete, Backfilled
  <2>6. History'
    BY <1>1, <2>1 DEF MigrationInv, History, Found, Rivals
  <2>7. UrlsKept /\ RecentSpared
    BY <2>1 DEF UrlsKept, RecentSpared
  <2> QED BY <2>2, <2>3, <2>4, <2>5, <2>6, <2>7 DEF MigrationInv
<1> QED BY <1>4, <1>5

\* A row that cannot move has been found: its canonical form is another's, or its own.
LEMMA StuckIsFound ==
  ASSUME MigrationInv, at = "rows", NEW f \in todo, Taken(canonical_url(db.urls[f]))
  PROVE  Found(f, db.urls)
<1> DEFINE canon == canonical_url(was[f])
<1>1. /\ DOMAIN db.urls = DOMAIN was /\ f \in DOMAIN was /\ db.urls[f] = was[f]
      /\ \A g \in DOMAIN was : db.urls[g] \in {was[g], canonical_url(was[g])}
  BY DEF MigrationInv, Ranges, History
<1>2. PICK g \in DOMAIN was : db.urls[g] = canon
  BY <1>1 DEF Taken, Range
<1>3. ASSUME canonical_url(canon) = canon, Rivals(f) = {}
      PROVE  g = f
  <2>1. canonical_url(was[g]) = canon
    BY <1>1, <1>2, <1>3
  <2> QED BY <1>3, <2>1 DEF Rivals
<1> QED BY <1>1, <1>2, <1>3 DEF Found, Taken

\* A row that moves is found afterwards, and so are those that were before.
LEMMA MovedIsFound ==
  ASSUME MigrationInv, at = "rows", NEW f \in todo, UNCHANGED was,
         ~Taken(canonical_url(db.urls[f])),
         NEW urls, urls = [db.urls EXCEPT ![f] = canonical_url(db.urls[f])]
  PROVE  /\ Found(f, urls)
         /\ \A g \in DOMAIN was \ todo : Found(g, urls)
<1>1. /\ DOMAIN db.urls = DOMAIN was /\ f \in DOMAIN was /\ db.urls[f] = was[f]
      /\ \A g \in DOMAIN was \ todo : Found(g, db.urls)
  BY DEF MigrationInv, Ranges, History
<1>2. /\ DOMAIN urls = DOMAIN was
      /\ urls[f] = canonical_url(was[f])
      /\ \A g \in DOMAIN was : g # f => urls[g] = db.urls[g]
  BY <1>1
<1>3. Found(f, urls)
  BY <1>1, <1>2 DEF Found, Range
<1>4. ASSUME NEW g \in DOMAIN was \ todo,
             canonical_url(canonical_url(was[g])) = canonical_url(was[g])
      PROVE  /\ canonical_url(was[g]) \in Range(urls)
             /\ Rivals(g) = {} => g \in DOMAIN urls /\ urls[g] = canonical_url(was[g])
  <2>1. /\ canonical_url(was[g]) \in Range(db.urls)
        /\ Rivals(g) = {} => db.urls[g] = canonical_url(was[g])
    BY <1>1, <1>4 DEF Found
  <2>2. PICK h \in DOMAIN was : db.urls[h] = canonical_url(was[g])
    BY <1>1, <2>1 DEF Range
  <2>3. h # f
    BY <1>1, <1>4, <2>2 DEF Taken, Range
  <2>4. urls[h] = canonical_url(was[g])
    BY <1>2, <2>2, <2>3
  <2> QED BY <1>2, <1>4, <2>1, <2>4 DEF Range
<1> QED BY <1>3, <1>4 DEF Found

LEMMA CanonicaliseKeeps ==
  ASSUME MigrationInv, NEW f \in FeedIds, Canonicalise(f)
  PROVE  MigrationInv' /\ UrlsKept /\ RecentSpared
<1> DEFINE canon == canonical_url(db.urls[f])
<1>1. /\ at = "rows" /\ f \in todo /\ todo' = todo \ {f}
      /\ UNCHANGED <<disk, at, once, was>>
      /\ IF Taken(canon) THEN db' = db ELSE db' = [db EXCEPT !.urls[f] = canon]
  BY DEF Canonicalise, Uncommitted
<1>2. /\ Sound(db) /\ once /\ db.version = 0 /\ disk.version = 0 /\ Complete(db)
      /\ f \in DOMAIN db.urls /\ db.urls[f] = was[f] /\ DOMAIN db.urls = DOMAIN was
  BY <1>1 DEF MigrationInv, Ranges, VersionKnown, WorkDone, History
<1>3. UrlsKept
  BY <1>2 DEF UrlsKept
<1>4. CASE Taken(canon)
  <2>1. UNCHANGED db
    BY <1>1, <1>4
  <2>2. Ranges'
    BY <1>1, <2>1 DEF MigrationInv, Ranges, Places, Sound, WellFormed, SeenSinceFetched
  <2>3. HeldBack' /\ VersionKnown' /\ WorkDone'
    BY <1>1, <2>1 DEF MigrationInv, HeldBack, InTransaction, VersionKnown, WorkDone, Before,
                      Complete, Backfilled
  <2>4. Found(f, db.urls)
    BY <1>1, <1>4, StuckIsFound
  <2>5. History'
    BY <1>1, <1>2, <2>1, <2>4 DEF MigrationInv, History, Found, Rivals
  <2>6. RecentSpared
    BY <2>1 DEF RecentSpared
  <2> QED BY <1>3, <2>2, <2>3, <2>5, <2>6 DEF MigrationInv
<1>5. CASE ~Taken(canon)
  <2>1. /\ DOMAIN db' = Fields /\ db'.leftovers = db.leftovers
        /\ db'.version = db.version /\ db'.seen_column = db.seen_column
        /\ db'.urls = [db.urls EXCEPT ![f] = canon] /\ db'.enabled = db.enabled
        /\ db'.fetched = db.fetched /\ db'.seen = db.seen
    <3>1. DOMAIN db = Fields
      BY <1>2 DEF Sound, WellFormed, Fields
    <3> QED BY <1>1, <1>5, <3>1 DEF Fields
  <2>2. /\ DOMAIN db'.urls = DOMAIN db.urls /\ db'.urls[f] = canon
        /\ \A g \in DOMAIN db.urls : g # f => db'.urls[g] = db.urls[g]
    BY <1>2, <2>1
  <2>3. db'.urls \in [DOMAIN db'.urls -> Urls] /\ IsInjective(db'.urls)
    <3>1. db.urls \in [DOMAIN db.urls -> Urls] /\ IsInjective(db.urls)
      BY <1>2 DEF Sound, WellFormed
    <3>2. canon \in Urls
      BY <1>2, <3>1, CanonicalUrls
    <3>3. \A g \in DOMAIN db.urls : db.urls[g] # canon
      BY <1>5 DEF Taken, Range
    <3>4. db'.urls \in [DOMAIN db'.urls -> Urls]
      BY <2>1, <2>2, <3>1, <3>2
    <3>5. IsInjective(db'.urls)
      BY <2>2, <3>1, <3>3 DEF IsInjective
    <3> QED BY <3>4, <3>5
  <2>4. Sound(db')
    BY <1>2, <2>1, <2>2, <2>3 DEF Sound, WellFormed, SeenSinceFetched, Fields
  <2>5. Ranges'
    BY <1>1, <2>2, <2>4 DEF MigrationInv, Ranges, Places, Sound, WellFormed, SeenSinceFetched
  <2>6. HeldBack' /\ VersionKnown' /\ WorkDone'
    <3>1. HeldBack'
      BY <1>1, <1>2, <2>1 DEF MigrationInv, HeldBack, InTransaction
    <3>2. VersionKnown'
      BY <1>1, <1>2, <2>1 DEF VersionKnown
    <3>3. Complete(db')
      BY <1>2, <2>1 DEF Complete, Backfilled
    <3>4. WorkDone'
      BY <1>1, <1>2, <3>3 DEF MigrationInv, WorkDone, Before, Complete, Backfilled
    <3> QED BY <3>1, <3>2, <3>4
  <2>7. Found(f, db'.urls) /\ \A g \in DOMAIN was \ todo : Found(g, db'.urls)
    BY <1>1, <1>5, <2>1, MovedIsFound
  <2>8. \A g \in DOMAIN was' \ todo' : Found(g, db'.urls)
    BY <1>1, <2>7
  <2>9. History'
    <3>1. /\ DOMAIN db'.urls = DOMAIN was'
          /\ \A g \in todo' : db'.urls[g] = was'[g]
      BY <1>1, <1>2, <2>2 DEF MigrationInv, Ranges, History
    <3>2. \A g \in DOMAIN was' : db'.urls[g] \in {was'[g], canonical_url(was'[g])}
      BY <1>1, <1>2, <2>2 DEF MigrationInv, History
    <3>3. \A g \in DOMAIN was' \ todo' : Found(g, db.urls)'
      BY <1>1, <2>8 DEF Found, Rivals
    <3>4. /\ disk'.version = 0 /\ disk'.urls = was' /\ db'.version = 0
      BY <1>1, <1>2, <2>1 DEF MigrationInv, History
    <3> QED BY <3>1, <3>2, <3>3, <3>4 DEF History
  <2>10. RecentSpared
    BY <2>1 DEF RecentSpared
  <2> QED BY <1>3, <2>5, <2>6, <2>9, <2>10 DEF MigrationInv
<1> QED BY <1>4, <1>5

LEMMA StampKeeps ==
  ASSUME MigrationInv, Stamp
  PROVE  MigrationInv' /\ UrlsKept /\ RecentSpared
<1>1. /\ at = "rows" /\ at' = "commit" /\ todo = {} /\ UNCHANGED <<disk, once, todo, was>>
      /\ db' = [db EXCEPT !.version = 1]
  BY DEF Stamp, Then, Uncommitted
<1>2. Sound(db) /\ disk.version = 0 /\ Complete(db)
  BY <1>1 DEF MigrationInv, Ranges, VersionKnown, WorkDone
<1>3. /\ DOMAIN db' = Fields /\ db'.leftovers = db.leftovers
      /\ db'.version = 1 /\ db'.seen_column = db.seen_column
      /\ db'.urls = db.urls /\ db'.enabled = db.enabled
      /\ db'.fetched = db.fetched /\ db'.seen = db.seen
      /\ db.seen_column \in BOOLEAN
  <2>1. DOMAIN db = Fields /\ db.seen_column \in BOOLEAN
    BY <1>2 DEF Sound, WellFormed, Fields
  <2> QED BY <1>1, <2>1 DEF Fields
<1>4. Sound(db')
  BY <1>2, <1>3, SoundFlags
<1>5. Ranges'
  BY <1>1, <1>3, <1>4 DEF MigrationInv, Ranges, Places, Sound, WellFormed, SeenSinceFetched
<1>6. HeldBack'
  BY <1>1, <1>2, <1>3 DEF MigrationInv, HeldBack, InTransaction
<1>7. VersionKnown'
  BY <1>1, <1>3 DEF VersionKnown
<1>8. WorkDone'
  <2>1. Complete(db')
    BY <1>2, <1>3 DEF Complete, Backfilled
  <2> QED BY <1>1, <1>2, <2>1 DEF WorkDone, Before, Complete, Backfilled
<1>9. History'
  <2>1. \A f \in DOMAIN was : Found(f, db.urls)
    BY <1>1 DEF MigrationInv, History
  <2> QED BY <1>1, <1>2, <1>3, <2>1 DEF MigrationInv, History, Found, Rivals
<1>10. UrlsKept /\ RecentSpared
  BY <1>2, <1>3 DEF UrlsKept, RecentSpared
<1> QED BY <1>5, <1>6, <1>7, <1>8, <1>9, <1>10 DEF MigrationInv

LEMMA CommitKeeps ==
  ASSUME MigrationInv, Commit
  PROVE  MigrationInv' /\ UrlsKept /\ RecentSpared
<1>1. /\ at = "commit" /\ at' = "disable" /\ UNCHANGED <<db, once, todo, was>> /\ disk' = db
  BY DEF Commit, Then, Autocommit
<1>2. Sound(db) /\ db.version = 1 /\ Complete(db)
  BY <1>1 DEF MigrationInv, Ranges, VersionKnown, WorkDone
<1>3. Ranges'
  BY <1>1 DEF MigrationInv, Ranges, Places, Sound, WellFormed, SeenSinceFetched
<1>4. HeldBack' /\ VersionKnown'
  BY <1>1, <1>2 DEF HeldBack, InTransaction, VersionKnown
<1>5. WorkDone'
  BY <1>1, <1>2 DEF WorkDone, Before, Complete, Backfilled
<1>6. History'
  BY <1>1, <1>2 DEF MigrationInv, History, Found, Rivals
<1>7. UrlsKept /\ RecentSpared
  BY <1>1 DEF UrlsKept, RecentSpared
<1> QED BY <1>3, <1>4, <1>5, <1>6, <1>7 DEF MigrationInv

\* A step after the migration that keeps the version and the flags of the work done, and
\* leaves every row of the history as it can be found.
LEMMA ServingKeeps ==
  ASSUME MigrationInv, at \in {"disable", "up"}, at' \in {"disable", "up"},
         UNCHANGED <<once, todo>>, disk' = db',
         was' \in [DOMAIN was' -> Urls],
         Sound(db'), db'.version = db.version, db'.leftovers = db.leftovers,
         db'.seen_column = db.seen_column, Backfilled(db'),
         \A f \in DOMAIN was' : Found(f, db.urls)'
  PROVE  MigrationInv'
<1>1. db.version = 1 /\ Complete(db)
  BY DEF MigrationInv, VersionKnown, WorkDone
<1>2. Ranges'
  BY DEF MigrationInv, Ranges, Places, Sound, WellFormed, SeenSinceFetched
<1>3. HeldBack' /\ VersionKnown'
  BY <1>1 DEF HeldBack, InTransaction, VersionKnown
<1>4. Complete(db')
  BY <1>1 DEF Complete
<1>5. WorkDone'
  BY <1>4 DEF WorkDone, Before, Complete, Backfilled
<1>6. History'
  BY <1>1 DEF History, Found, Rivals
<1> QED BY <1>2, <1>3, <1>5, <1>6 DEF MigrationInv

\* What every step of a served database starts from.
LEMMA ServedDatabase ==
  ASSUME MigrationInv, at \in {"disable", "up"}
  PROVE  /\ db = disk /\ db.version = 1 /\ Complete(db) /\ Sound(db)
         /\ DOMAIN db = Fields
         /\ was \in [DOMAIN was -> Urls]
         /\ \A f \in DOMAIN was : Found(f, db.urls)
<1>1. db = disk /\ db.version = 1 /\ Complete(db) /\ Sound(db)
  BY DEF MigrationInv, Ranges, HeldBack, InTransaction, VersionKnown, WorkDone
<1> QED BY <1>1 DEF MigrationInv, Ranges, History, Sound, WellFormed, Fields

LEMMA DisableKeeps ==
  ASSUME MigrationInv, Disable
  PROVE  MigrationInv' /\ UrlsKept /\ RecentSpared
<1>1. /\ at = "disable" /\ at' = "up" /\ UNCHANGED <<once, todo, was>>
      /\ disk' = db' /\ db' = [db EXCEPT !.enabled = {}]
  BY DEF Disable, Then, Autocommit
<1>2. /\ db'.leftovers = db.leftovers /\ db'.version = db.version
      /\ db'.seen_column = db.seen_column /\ db'.urls = db.urls /\ db'.enabled = {}
      /\ db'.fetched = db.fetched /\ db'.seen = db.seen /\ DOMAIN db' = Fields
  BY <1>1, ServedDatabase DEF Fields
<1>3. Sound(db') /\ Backfilled(db')
  <2>1. Sound(db) /\ Backfilled(db)
    BY <1>1, ServedDatabase DEF Complete
  <2> QED BY <1>2, <2>1 DEF Sound, WellFormed, SeenSinceFetched, Backfilled, Fields
<1>4. \A f \in DOMAIN was' : Found(f, db.urls)'
  BY <1>1, <1>2, ServedDatabase DEF Found, Rivals
<1>5. UrlsKept /\ RecentSpared
  BY <1>2 DEF UrlsKept, RecentSpared
<1> QED BY <1>1, <1>2, <1>3, <1>4, <1>5, ServedDatabase, ServingKeeps

\* A client's URL adds a row of its canonical form at most, and changes none.
LEMMA SubscribeKeeps ==
  ASSUME MigrationInv, NEW url \in Clients, Subscribe(url)
  PROVE  MigrationInv' /\ UrlsKept /\ RecentSpared
<1> DEFINE canon == canonical_url(url)
<1>1. at = "up" /\ at' = "up" /\ UNCHANGED <<once, todo, was>>
  BY DEF Subscribe, Serving
<1>2. PICK f \in FeedIds :
         /\ \/ f \in DOMAIN db.urls /\ db.urls[f] = canon
            \/ f \notin DOMAIN db.urls /\ ~Taken(canon)
         /\ disk' = db'
         /\ db' = [db EXCEPT
               !.urls = [g \in DOMAIN db.urls \cup {f} |-> IF g = f THEN canon ELSE db.urls[g]],
               !.enabled = db.enabled \cup {f}]
  <2>1. PICK f \in FeedIds :
           /\ \/ f \in DOMAIN db.urls /\ db.urls[f] = canon
              \/ /\ ~Taken(canon)
                 /\ \A g \in DOMAIN db.urls : g < f
           /\ disk' = db'
           /\ db' = [db EXCEPT
                 !.urls = [g \in DOMAIN db.urls \cup {f} |-> IF g = f THEN canon ELSE db.urls[g]],
                 !.enabled = db.enabled \cup {f}]
    BY DEF Subscribe, Autocommit
  <2>2. ~(f < f)
    BY <2>1 DEF FeedIds
  <2> QED BY <2>1, <2>2
<1>3. /\ Sound(db) /\ Complete(db) /\ DOMAIN db = Fields
      /\ was \in [DOMAIN was -> Urls] /\ \A g \in DOMAIN was : Found(g, db.urls)
  BY <1>1, ServedDatabase
<1>4. /\ db'.leftovers = db.leftovers /\ db'.version = db.version
      /\ db'.seen_column = db.seen_column /\ db'.enabled = db.enabled \cup {f}
      /\ db'.fetched = db.fetched /\ db'.seen = db.seen /\ DOMAIN db' = Fields
      /\ db'.urls = [g \in DOMAIN db.urls \cup {f} |-> IF g = f THEN canon ELSE db.urls[g]]
  BY <1>2, <1>3 DEF Fields
<1>5. /\ DOMAIN db'.urls = DOMAIN db.urls \cup {f} /\ db'.urls[f] = canon
      /\ \A g \in DOMAIN db.urls : db'.urls[g] = db.urls[g]
  BY <1>2, <1>4
<1>6. db'.urls \in [DOMAIN db'.urls -> Urls] /\ IsInjective(db'.urls)
  <2>1. /\ db.urls \in [DOMAIN db.urls -> Urls] /\ IsInjective(db.urls)
    BY <1>3 DEF Sound, WellFormed
  <2>2. canon \in Urls
    BY CanonicalUrls, ClientsAssumption
  <2>3. db'.urls \in [DOMAIN db'.urls -> Urls]
    BY <1>4, <1>5, <2>1, <2>2
  <2>4. CASE f \in DOMAIN db.urls
    <3>1. DOMAIN db'.urls = DOMAIN db.urls
      BY <1>5, <2>4
    <3> QED BY <1>5, <2>1, <2>3, <3>1 DEF IsInjective
  <2>5. CASE f \notin DOMAIN db.urls
    <3>1. \A g \in DOMAIN db.urls : db.urls[g] # canon
      BY <1>2, <2>5 DEF Taken, Range
    <3> QED BY <1>5, <2>1, <2>3, <3>1 DEF IsInjective
  <2> QED BY <2>3, <2>4, <2>5
<1>7. Sound(db') /\ Backfilled(db')
  BY <1>3, <1>4, <1>5, <1>6 DEF Sound, WellFormed, SeenSinceFetched, Complete, Backfilled, Fields
<1>8. \A g \in DOMAIN was' : Found(g, db.urls)'
  <2> SUFFICES ASSUME NEW g \in DOMAIN was', canonical_url(canonical_url(was[g])) = canonical_url(was[g])
               PROVE  /\ canonical_url(was[g]) \in Range(db'.urls)
                      /\ Rivals(g) = {} =>
                            g \in DOMAIN db'.urls /\ db'.urls[g] = canonical_url(was[g])
    BY <1>1 DEF Found, Rivals
  <2>1. /\ canonical_url(was[g]) \in Range(db.urls)
        /\ Rivals(g) = {} => g \in DOMAIN db.urls /\ db.urls[g] = canonical_url(was[g])
    BY <1>1, <1>3 DEF Found
  <2> QED BY <1>5, <2>1 DEF Range
<1>9. UrlsKept /\ RecentSpared
  BY <1>4, <1>5 DEF UrlsKept, RecentSpared
<1>10. MigrationInv'
  BY <1>1, <1>2, <1>3, <1>4, <1>7, <1>8, ServingKeeps
<1> QED BY <1>9, <1>10

LEMMA PartKeeps ==
  ASSUME MigrationInv, NEW f, Part(f)
  PROVE  MigrationInv' /\ UrlsKept /\ RecentSpared
<1>1. /\ at = "up" /\ at' = "up" /\ UNCHANGED <<once, todo, was>>
      /\ disk' = db' /\ db' = [db EXCEPT !.enabled = db.enabled \ {f}]
  BY DEF Part, Serving, Autocommit
<1>2. /\ db'.leftovers = db.leftovers /\ db'.version = db.version
      /\ db'.seen_column = db.seen_column /\ db'.urls = db.urls /\ db'.enabled = db.enabled \ {f}
      /\ db'.fetched = db.fetched /\ db'.seen = db.seen /\ DOMAIN db' = Fields
  BY <1>1, ServedDatabase DEF Fields
<1>3. Sound(db') /\ Backfilled(db')
  <2>1. Sound(db) /\ Backfilled(db)
    BY <1>1, ServedDatabase DEF Complete
  <2> QED BY <1>2, <2>1 DEF Sound, WellFormed, SeenSinceFetched, Backfilled, Fields
<1>4. \A g \in DOMAIN was' : Found(g, db.urls)'
  BY <1>1, <1>2, ServedDatabase DEF Found, Rivals
<1>5. UrlsKept /\ RecentSpared
  BY <1>2 DEF UrlsKept, RecentSpared
<1> QED BY <1>1, <1>2, <1>3, <1>4, <1>5, ServedDatabase, ServingKeeps

\* Rows of articles that stay, as they are, keep a database sound.
LEMMA FewerArticles ==
  ASSUME NEW d, Sound(d), Backfilled(d), NEW kept, kept \subseteq DOMAIN d.fetched,
         NEW fetched, fetched = Restrict(d.fetched, kept),
         NEW seen, seen = Restrict(d.seen, kept)
  PROVE  /\ DOMAIN fetched = kept /\ DOMAIN seen = kept
         /\ fetched \in [kept -> Nat \ {0}] /\ seen \in [kept -> Nat]
         /\ \A f \in kept : fetched[f] <= seen[f] /\ seen[f] # 0
<1>1. /\ d.fetched \in [DOMAIN d.fetched -> Nat \ {0}] /\ d.seen \in [DOMAIN d.fetched -> Nat]
      /\ DOMAIN d.seen = DOMAIN d.fetched
      /\ \A f \in DOMAIN d.seen : d.seen[f] # 0 /\ d.fetched[f] <= d.seen[f]
  BY DEF Sound, WellFormed, SeenSinceFetched, Backfilled
<1>2. /\ DOMAIN fetched = kept /\ DOMAIN seen = kept
      /\ \A f \in kept : fetched[f] = d.fetched[f] /\ seen[f] = d.seen[f]
  BY DEF Restrict
<1>3. \A f \in kept : d.fetched[f] \in Nat \ {0} /\ d.seen[f] \in Nat
  BY <1>1
<1>4. fetched \in [kept -> Nat \ {0}] /\ seen \in [kept -> Nat]
  BY <1>3 DEF Restrict
<1> QED BY <1>1, <1>2, <1>4

LEMMA SweepArticlesKeeps ==
  ASSUME MigrationInv, SweepArticles
  PROVE  MigrationInv' /\ UrlsKept /\ RecentSpared
<1> DEFINE kept == {f \in DOMAIN db.seen : ~(db.seen[f] + Retention < Now)}
<1>1. /\ at = "up" /\ at' = "up" /\ UNCHANGED <<once, todo, was>> /\ disk' = db'
      /\ db' = [db EXCEPT !.fetched = Restrict(db.fetched, kept), !.seen = Restrict(db.seen, kept)]
  BY DEF SweepArticles, Serving, Autocommit
<1>2. /\ Sound(db) /\ Complete(db) /\ Backfilled(db) /\ DOMAIN db = Fields
      /\ was \in [DOMAIN was -> Urls] /\ \A g \in DOMAIN was : Found(g, db.urls)
  BY <1>1, ServedDatabase DEF Complete
<1>3. /\ db'.leftovers = db.leftovers /\ db'.version = db.version
      /\ db'.seen_column = db.seen_column /\ db'.urls = db.urls /\ db'.enabled = db.enabled
      /\ db'.fetched = Restrict(db.fetched, kept) /\ db'.seen = Restrict(db.seen, kept)
      /\ DOMAIN db' = Fields
  BY <1>1, <1>2 DEF Fields
<1>4. kept \subseteq DOMAIN db.fetched
  BY <1>2 DEF Sound, WellFormed
<1>5. \A f \in DOMAIN db.fetched \ kept : db.fetched[f] + Retention < Now
  <2>1. /\ db.fetched \in [DOMAIN db.fetched -> Nat \ {0}] /\ db.seen \in [DOMAIN db.fetched -> Nat]
        /\ \A f \in DOMAIN db.fetched : db.seen[f] # 0 /\ db.fetched[f] <= db.seen[f]
    BY <1>2 DEF Sound, WellFormed, SeenSinceFetched, Backfilled
  <2> SUFFICES ASSUME NEW f \in DOMAIN db.fetched \ kept
               PROVE  db.fetched[f] + Retention < Now
    OBVIOUS
  <2>2. db.seen[f] + Retention < Now
    BY <2>1
  <2>3. db.fetched[f] \in Nat /\ db.seen[f] \in Nat /\ db.fetched[f] <= db.seen[f]
    BY <2>1
  <2> QED BY <2>2, <2>3, ClockAssumption
<1> HIDE DEF kept
<1>6. /\ DOMAIN db'.fetched = kept /\ DOMAIN db'.seen = kept
      /\ db'.fetched \in [kept -> Nat \ {0}] /\ db'.seen \in [kept -> Nat]
      /\ \A f \in kept : db'.fetched[f] <= db'.seen[f] /\ db'.seen[f] # 0
  BY <1>2, <1>3, <1>4, FewerArticles
<1>7. Sound(db') /\ Backfilled(db')
  BY <1>2, <1>3, <1>4, <1>6 DEF Sound, WellFormed, SeenSinceFetched, Backfilled, Fields
<1>8. \A g \in DOMAIN was' : Found(g, db.urls)'
  BY <1>1, <1>2, <1>3 DEF Found, Rivals
<1>9. UrlsKept /\ RecentSpared
  BY <1>3, <1>5, <1>6 DEF UrlsKept, RecentSpared
<1>10. MigrationInv'
  BY <1>1, <1>2, <1>3, <1>7, <1>8, ServingKeeps
<1> QED BY <1>9, <1>10

LEMMA SweepFeedsKeeps ==
  ASSUME MigrationInv, SweepFeeds
  PROVE  MigrationInv' /\ UrlsKept /\ RecentSpared
<1> DEFINE kept == db.enabled \cap DOMAIN db.fetched
<1>1. /\ at = "up" /\ at' = "up" /\ UNCHANGED <<once, todo>> /\ disk' = db'
      /\ db' = [db EXCEPT !.urls = Restrict(db.urls, db.enabled),
                          !.fetched = Restrict(db.fetched, kept), !.seen = Restrict(db.seen, kept)]
      /\ was' = Restrict(was, {f \in DOMAIN was : canonical_url(was[f]) \in Range(db'.urls)})
  BY DEF SweepFeeds, Serving, Autocommit
<1>2. /\ Sound(db) /\ Complete(db) /\ Backfilled(db) /\ DOMAIN db = Fields
      /\ was \in [DOMAIN was -> Urls] /\ \A g \in DOMAIN was : Found(g, db.urls)
  BY <1>1, ServedDatabase DEF Complete
<1>3. /\ db'.leftovers = db.leftovers /\ db'.version = db.version
      /\ db'.seen_column = db.seen_column /\ db'.enabled = db.enabled
      /\ db'.urls = Restrict(db.urls, db.enabled)
      /\ db'.fetched = Restrict(db.fetched, kept) /\ db'.seen = Restrict(db.seen, kept)
      /\ DOMAIN db' = Fields
  BY <1>1, <1>2 DEF Fields
<1>4. /\ db.urls \in [DOMAIN db.urls -> Urls] /\ IsInjective(db.urls)
      /\ db.enabled \subseteq DOMAIN db.urls
  BY <1>2 DEF Sound, WellFormed
<1>5. /\ DOMAIN db'.urls = db.enabled /\ \A f \in db.enabled : db'.urls[f] = db.urls[f]
      /\ db'.urls \in [DOMAIN db'.urls -> Urls] /\ IsInjective(db'.urls)
  <2>1. DOMAIN db'.urls = db.enabled /\ \A f \in db.enabled : db'.urls[f] = db.urls[f]
    BY <1>3 DEF Restrict
  <2>2. db'.urls \in [db.enabled -> Urls]
    BY <1>3, <1>4 DEF Restrict
  <2>3. IsInjective(db'.urls)
    BY <1>4, <2>1 DEF IsInjective
  <2> QED BY <2>1, <2>2, <2>3
<1>6. \A f \in DOMAIN db.fetched \ kept : f \notin DOMAIN db'.urls
  BY <1>5
<1>7. kept \subseteq DOMAIN db.fetched /\ kept \subseteq db.enabled
  OBVIOUS
<1> HIDE DEF kept
<1>8. /\ DOMAIN db'.fetched = kept /\ DOMAIN db'.seen = kept
      /\ db'.fetched \in [kept -> Nat \ {0}] /\ db'.seen \in [kept -> Nat]
      /\ \A f \in kept : db'.fetched[f] <= db'.seen[f] /\ db'.seen[f] # 0
  BY <1>2, <1>3, <1>7, FewerArticles
<1>9. Sound(db') /\ Backfilled(db')
  BY <1>2, <1>3, <1>4, <1>5, <1>7, <1>8 DEF Sound, WellFormed, SeenSinceFetched, Backfilled, Fields
<1>10. /\ DOMAIN was' = {f \in DOMAIN was : canonical_url(was[f]) \in Range(db'.urls)}
       /\ \A f \in DOMAIN was' : was'[f] = was[f]
       /\ was' \in [DOMAIN was' -> Urls]
  <2>1. /\ DOMAIN was' = {f \in DOMAIN was : canonical_url(was[f]) \in Range(db'.urls)}
        /\ \A f \in DOMAIN was' : was'[f] = was[f]
    BY <1>1 DEF Restrict
  <2>2. was' \in [{f \in DOMAIN was : canonical_url(was[f]) \in Range(db'.urls)} -> Urls]
    BY <1>1, <1>2 DEF Restrict
  <2> QED BY <2>1, <2>2
<1>11. \A g \in DOMAIN was' : Found(g, db.urls)'
  <2> SUFFICES ASSUME NEW g \in DOMAIN was',
                      canonical_url(canonical_url(was'[g])) = canonical_url(was'[g])
               PROVE  /\ canonical_url(was'[g]) \in Range(db'.urls)
                      /\ Rivals(g)' = {} =>
                            g \in DOMAIN db'.urls /\ db'.urls[g] = canonical_url(was'[g])
    BY DEF Found
  <2>1. /\ g \in DOMAIN was /\ was'[g] = was[g]
        /\ canonical_url(was[g]) \in Range(db'.urls)
    BY <1>10
  <2>2. ASSUME Rivals(g)' = {} PROVE Rivals(g) = {}
    <3> SUFFICES ASSUME NEW h \in DOMAIN was, h # g, canonical_url(was[h]) = canonical_url(was[g])
                 PROVE  FALSE
      BY DEF Rivals
    <3>1. h \in DOMAIN was' /\ was'[h] = was[h]
      BY <1>10, <2>1
    <3> QED BY <2>1, <2>2, <3>1 DEF Rivals
  <2>3. ASSUME Rivals(g) = {}
        PROVE  g \in DOMAIN db'.urls /\ db'.urls[g] = canonical_url(was[g])
    <3>1. g \in DOMAIN db.urls /\ db.urls[g] = canonical_url(was[g])
      BY <1>2, <2>1, <2>3 DEF Found
    <3>2. PICK h \in db.enabled : db.urls[h] = canonical_url(was[g])
      BY <1>5, <2>1 DEF Range
    <3>3. h = g
      BY <1>4, <3>1, <3>2 DEF IsInjective
    <3> QED BY <1>5, <3>1, <3>2, <3>3
  <2> QED BY <2>1, <2>2, <2>3
<1>12. UrlsKept /\ RecentSpared
  BY <1>5, <1>6, <1>8 DEF UrlsKept, RecentSpared
<1>13. MigrationInv'
  BY <1>1, <1>2, <1>3, <1>9, <1>10, <1>11, ServingKeeps
<1> QED BY <1>12, <1>13

LEMMA CrashKeeps ==
  ASSUME MigrationInv, Crash
  PROVE  MigrationInv' /\ UrlsKept /\ RecentSpared
<1>1. /\ db' = disk /\ at' = "down" /\ once' = FALSE /\ todo' = {} /\ UNCHANGED <<disk, was>>
  BY DEF Crash
<1>2. Ranges'
  BY <1>1 DEF MigrationInv, Ranges, Places, Sound, WellFormed, SeenSinceFetched
<1>3. HeldBack' /\ VersionKnown'
  BY <1>1 DEF HeldBack, InTransaction, VersionKnown
<1>4. WorkDone'
  BY <1>1 DEF MigrationInv, WorkDone, Before, Complete, Backfilled
<1>5. History'
  BY <1>1 DEF MigrationInv, History, Found, Rivals
<1>6. UrlsKept /\ RecentSpared
  BY <1>1 DEF MigrationInv, HeldBack, UrlsKept, RecentSpared
<1> QED BY <1>2, <1>3, <1>4, <1>5, <1>6 DEF MigrationInv

----------------------------------------------------------------------------
\* The theorems

LEMMA InitKeeps == Init => MigrationInv
<1> SUFFICES ASSUME Init PROVE MigrationInv
  OBVIOUS
<1>1. /\ disk \in Databases /\ db = disk /\ at = "down" /\ once = FALSE /\ todo = {}
      /\ was = disk.urls
  BY DEF Init
<1>2. Sound(disk) /\ disk.version = 0 /\ disk.urls \in [DOMAIN disk.urls -> Urls]
  BY <1>1, DatabasesAssumption DEF Sound, WellFormed
<1>3. Ranges
  <2>1. Sound(db)
    BY <1>1, <1>2
  <2> QED BY <1>1, <1>2, <2>1 DEF Ranges, Places
<1>4. HeldBack /\ VersionKnown
  BY <1>1, <1>2 DEF HeldBack, InTransaction, VersionKnown
<1>5. WorkDone /\ History
  BY <1>1, <1>2 DEF WorkDone, Before, History
<1> QED BY <1>3, <1>4, <1>5 DEF MigrationInv

LEMMA StepKeeps ==
  ASSUME MigrationInv, [Next]_vars
  PROVE  MigrationInv' /\ UrlsKept /\ RecentSpared
<1>1. CASE UNCHANGED vars
  <2>1. UNCHANGED <<disk, db, at, once, todo, was>>
    BY <1>1 DEF vars
  <2>2. Ranges' /\ HeldBack' /\ VersionKnown'
    BY <2>1 DEF MigrationInv, Ranges, HeldBack, InTransaction, VersionKnown, Sound, WellFormed,
                SeenSinceFetched
  <2>3. WorkDone' /\ History'
    BY <2>1 DEF MigrationInv, WorkDone, Before, Complete, Backfilled, History, Found, Rivals
  <2> QED BY <2>1, <2>2, <2>3 DEF MigrationInv, UrlsKept, RecentSpared
<1>2. CASE Open \/ DropTables \/ AddSeenColumn \/ Backfill \/ DropColumns
  BY <1>2, OpenKeeps, DropTablesKeeps, AddSeenColumnKeeps, BackfillKeeps, DropColumnsKeeps
<1>3. ASSUME NEW f \in FeedIds, Canonicalise(f)
      PROVE  MigrationInv' /\ UrlsKept /\ RecentSpared
  BY <1>3, CanonicaliseKeeps
<1>4. CASE Stamp \/ Commit \/ Disable
  BY <1>4, StampKeeps, CommitKeeps, DisableKeeps
<1>5. ASSUME NEW url \in Clients, Subscribe(url)
      PROVE  MigrationInv' /\ UrlsKept /\ RecentSpared
  BY <1>5, SubscribeKeeps
<1>6. ASSUME NEW f \in FeedIds, Part(f)
      PROVE  MigrationInv' /\ UrlsKept /\ RecentSpared
  BY <1>6, PartKeeps
<1>7. CASE SweepArticles \/ SweepFeeds \/ Crash
  BY <1>7, SweepArticlesKeeps, SweepFeedsKeeps, CrashKeeps
<1> QED BY <1>1, <1>2, <1>3, <1>4, <1>5, <1>6, <1>7 DEF Next

LEMMA Invariance == Spec => []MigrationInv
<1>1. MigrationInv /\ [Next]_vars => MigrationInv'
  BY StepKeeps
<1> QED BY <1>1, InitKeeps, PTL DEF Spec

\* Whatever crashes cut it short, both copies of the database stay well formed, no two
\* rows have the same URL, and they differ only while the transaction is open.
THEOREM MigrationTypeCorrect == Spec => []TypeOK
<1>1. MigrationInv => TypeOK
  BY DEF MigrationInv, Ranges, HeldBack, InTransaction, TypeOK, Sound
<1> QED BY <1>1, Invariance, PTL

\* user_version says 1 on the disk only when every part of the migration is there.
THEOREM StampIsTrue == Spec => []StampedMeansMigrated
<1>1. MigrationInv => StampedMeansMigrated
  BY DEF MigrationInv, WorkDone, Complete, Backfilled, StampedMeansMigrated
<1> QED BY <1>1, Invariance, PTL

\* For any rows an older version left, looked at in any order, and any crashes: the
\* migrated database has the row a client's URL will be looked up by.
THEOREM HistoryIsFound == Spec => []HistoryReachable
<1>1. MigrationInv => HistoryReachable
  <2> SUFFICES ASSUME MigrationInv, at \in {"disable", "up"}, NEW f \in DOMAIN was
               PROVE  Found(f, db.urls)
    BY DEF HistoryReachable, Found, Rivals, Taken
  <2> QED BY ServedDatabase
<1> QED BY <1>1, Invariance, PTL

\* No step after the stamp, of any process, changes the URL of a row.
THEOREM UrlsStayFixed == Spec => UrlsFixedOnceMigrated
<1>1. MigrationInv /\ [Next]_vars =>
        [disk.version = 1 =>
            \A f \in DOMAIN db.urls \cap DOMAIN db'.urls : db'.urls[f] = db.urls[f]]_vars
  BY StepKeeps DEF UrlsKept
<1> QED BY <1>1, Invariance, PTL DEF Spec, UrlsFixedOnceMigrated

\* An article goes before its time only with its feed.
THEOREM RecentIsSpared == Spec => SweepSparesRecent
<1>1. MigrationInv /\ [Next]_vars =>
        [\A f \in DOMAIN db.fetched \ DOMAIN db'.fetched :
            f \in DOMAIN db'.urls => db.fetched[f] + Retention < Now]_vars
  BY StepKeeps DEF RecentSpared
<1> QED BY <1>1, Invariance, PTL DEF Spec, SweepSparesRecent
=============================================================================
