------------------------------ MODULE Migration ------------------------------
(***************************************************************************)
(* Opening the database (store.py, Store.__init__ and _migrate, main.py,   *)
(* build), with a crash between any two statements, and what the rest of a *)
(* process does with the rows: subscriptions that look a feed up by its    *)
(* canonical URL, and the sweep.                                           *)
(*                                                                         *)
(* Two copies of the database: `disk` is what the last commit left and     *)
(* what a crash leaves, `db` what the connection sees.  The sqlite3 module *)
(* begins a transaction before an UPDATE and before no DDL statement or    *)
(* PRAGMA: those before the first UPDATE take effect at once, and all that *)
(* follows it, the version stamp included, with the commit.                *)
(***************************************************************************)
EXTENDS Naturals, FiniteSets, Functions

CONSTANTS
    Databases,  \* the databases an older version may have left
    Clients,    \* the URLs clients name in their frames
    MaxFeedId,  \* bound: the largest rowid a run may use
    MaxCrashes, \* bound: how often the process may die or be stopped
    Now,        \* the time of the run, which is short beside the retention
    Retention   \* config.retention_days

ASSUME BoundsAssumption == MaxFeedId \in Nat /\ MaxCrashes \in Nat
ASSUME ClockAssumption == Now \in Nat /\ Retention \in Nat

VARIABLES
    disk,    \* the database as committed
    db,      \* the database as the connection sees it
    at,      \* the statement that comes next
    once,    \* user_version was below 1 when this process looked
    todo,    \* the rows the loop of _migrate has still to look at
    was,     \* history: the rows as the older version left them, until a sweep
    crashes  \* crashes so far

vars == <<disk, db, at, once, todo, was, crashes>>

FeedIds == 1 .. MaxFeedId

(***************************************************************************)
(* URLs, as far as canonical_url tells them apart: how scheme and host are *)
(* spelled, how many slashes end the path, and whether a query follows it  *)
(* or the port is no number, which leaves nothing to rebuild.  The rest of *)
(* the URL is one and the same: rows that differ there never meet.         *)
(***************************************************************************)
Urls == [upper : BOOLEAN, slashes : 0 .. 2, kind : {"path", "query", "port"}]

canonical_url(url) ==
    IF url.kind = "port" THEN url
    ELSE [url EXCEPT !.upper = FALSE,
                     !.slashes = IF url.kind = "query" \/ @ = 0 THEN @ ELSE @ - 1]

\* A database: user_version; what the user era left (its tables, its columns of feeds);
\* whether articles has last_seen_at; the URL of each row of feeds, and the rows that
\* are enabled.  A feed has at most one article, fetched and last seen at the times
\* given, 0 being the default of a column that is new or still missing.
WellFormed(d) ==
    /\ DOMAIN d = {"version", "leftovers", "seen_column", "urls", "enabled", "fetched", "seen"}
    /\ d.version \in {0, 1}
    /\ d.leftovers \subseteq {"tables", "columns"}
    /\ d.seen_column \in BOOLEAN
    /\ d.urls \in [DOMAIN d.urls -> Urls]
    /\ DOMAIN d.urls \subseteq FeedIds /\ IsInjective(d.urls)
    /\ d.enabled \subseteq DOMAIN d.urls
    /\ DOMAIN d.fetched \subseteq DOMAIN d.urls
    /\ d.fetched \in [DOMAIN d.fetched -> Nat \ {0}]
    /\ d.seen \in [DOMAIN d.fetched -> Nat]

\* No article was last seen before it was fetched; those of the older version, which is
\* told by its user_version, were not seen at all or after they had been fetched.
SeenSinceFetched(d) == \A f \in DOMAIN d.seen : d.seen[f] = 0 \/ d.fetched[f] <= d.seen[f]

ASSUME DatabasesAssumption ==
    \A d \in Databases : WellFormed(d) /\ SeenSinceFetched(d) /\ d.version = 0

ASSUME ClientsAssumption == Clients \subseteq Urls

Places == {"down", "tables", "column", "backfill", "columns", "rows", "commit", "disable", "up"}

TypeOK ==
    /\ WellFormed(disk) /\ WellFormed(db)
    /\ at \in Places /\ once \in BOOLEAN
    /\ todo \subseteq DOMAIN db.urls
    /\ at \in {"down", "tables", "column", "backfill", "up"} => db = disk

Init ==
    /\ disk \in Databases /\ db = disk
    /\ at = "down"
    /\ once = FALSE
    /\ todo = {}
    /\ was = disk.urls
    /\ crashes = 0

----------------------------------------------------------------------------
\* Store.__init__, statement by statement

Autocommit(d) == disk' = d /\ db' = d
Uncommitted(d) == db' = d /\ UNCHANGED disk
Then(place) == at' = place /\ UNCHANGED <<was, crashes>>

\* The schema script adds nothing the tables of an older version have; the version is
\* read.
Open ==
    /\ at = "down"
    /\ once' = (db.version < 1)
    /\ Then("tables")
    /\ UNCHANGED <<disk, db, todo>>

\* Mutant of DropTables: the version is stamped before the work it stands for is done.
DropTablesStamps ==
    /\ at = "tables"
    /\ IF once
       THEN Autocommit([db EXCEPT !.leftovers = @ \ {"tables"}, !.version = 1])
       ELSE UNCHANGED <<disk, db>>
    /\ Then("column")
    /\ UNCHANGED <<once, todo>>

DropTables ==
    /\ at = "tables"
    /\ IF once
       THEN Autocommit([db EXCEPT !.leftovers = @ \ {"tables"}])
       ELSE UNCHANGED <<disk, db>>
    /\ Then("column")
    /\ UNCHANGED <<once, todo>>

\* Mutant of AddSeenColumn: the backfill is done by the process that adds the column.
AddSeenColumnOnce ==
    /\ at = "column"
    /\ Autocommit([db EXCEPT !.seen_column = TRUE])
    /\ Then(IF db.seen_column THEN "columns" ELSE "backfill")
    /\ UNCHANGED <<once, todo>>

AddSeenColumn ==
    /\ at = "column"
    /\ Autocommit([db EXCEPT !.seen_column = TRUE])
    /\ Then("backfill")
    /\ UNCHANGED <<once, todo>>

\* The first UPDATE: what follows is one transaction.
Backfill ==
    /\ at = "backfill"
    /\ Uncommitted([db EXCEPT !.seen = [f \in DOMAIN @ |-> IF @[f] = 0 THEN db.fetched[f] ELSE @[f]]])
    /\ Then("columns")
    /\ UNCHANGED <<once, todo>>

\* Mutant of DropColumns: the rows are looked at on every open.
DropColumnsAlways ==
    /\ at = "columns"
    /\ Uncommitted([db EXCEPT !.leftovers = @ \ {"columns"}])
    /\ todo' = DOMAIN db.urls
    /\ Then("rows")
    /\ UNCHANGED once

\* The columns added without a value (author, favicon) are left out: no property reads them.
DropColumns ==
    /\ at = "columns"
    /\ IF once
       THEN /\ Uncommitted([db EXCEPT !.leftovers = @ \ {"columns"}])
            /\ todo' = DOMAIN db.urls
            /\ Then("rows")
       ELSE Then("commit") /\ UNCHANGED <<disk, db, todo>>
    /\ UNCHANGED once

Taken(url) == url \in Range(db.urls)

\* Mutants of Canonicalise: it does not look whether another row has the URL, or leaves
\* the loop at the first row that cannot move.
CanonicaliseStops(f) ==
    /\ at = "rows"
    /\ f \in todo
    /\ LET canon == canonical_url(db.urls[f])
       IN  IF Taken(canon)
           THEN todo' = {} /\ UNCHANGED <<disk, db>>
           ELSE todo' = todo \ {f} /\ Uncommitted([db EXCEPT !.urls[f] = canon])
    /\ UNCHANGED <<at, once, was, crashes>>

CanonicaliseBlindly(f) ==
    /\ at = "rows"
    /\ f \in todo
    /\ Uncommitted([db EXCEPT !.urls[f] = canonical_url(@)])
    /\ todo' = todo \ {f}
    /\ UNCHANGED <<at, once, was, crashes>>

\* One row: its URL becomes canonical, unless a row has that URL already.  The SELECT
\* gives the rows no order.
Canonicalise(f) ==
    /\ at = "rows"
    /\ f \in todo
    /\ LET canon == canonical_url(db.urls[f])
       IN  IF Taken(canon) THEN UNCHANGED <<disk, db>> ELSE Uncommitted([db EXCEPT !.urls[f] = canon])
    /\ todo' = todo \ {f}
    /\ UNCHANGED <<at, once, was, crashes>>

Stamp ==
    /\ at = "rows"
    /\ todo = {}
    /\ Uncommitted([db EXCEPT !.version = 1])
    /\ Then("commit")
    /\ UNCHANGED <<once, todo>>

Commit ==
    /\ at = "commit"
    /\ Autocommit(db)
    /\ Then("disable")
    /\ UNCHANGED <<once, todo>>

\* build(): nobody is connected yet.
Disable ==
    /\ at = "disable"
    /\ Autocommit([db EXCEPT !.enabled = {}])
    /\ Then("up")
    /\ UNCHANGED <<once, todo>>

----------------------------------------------------------------------------
\* The rest of the process

Serving == at = "up" /\ UNCHANGED <<at, once, todo, crashes>>

\* A client names url: upsert_feed finds the row of its canonical form or inserts it,
\* and set_feeds enables it.
Subscribe(url) ==
    /\ Serving
    /\ \E f \in FeedIds :
          /\ \/ f \in DOMAIN db.urls /\ db.urls[f] = canonical_url(url)
             \/ /\ ~Taken(canonical_url(url))
                /\ \A g \in DOMAIN db.urls : g < f
                /\ f = 1 \/ f - 1 \in DOMAIN db.urls
          /\ Autocommit([db EXCEPT
                !.urls = [g \in DOMAIN @ \cup {f} |-> IF g = f THEN canonical_url(url) ELSE @[g]],
                !.enabled = @ \cup {f}])
    /\ UNCHANGED was

Part(f) ==
    /\ Serving
    /\ f \in db.enabled
    /\ Autocommit([db EXCEPT !.enabled = @ \ {f}])
    /\ UNCHANGED was

\* sweep: by the time an article was last seen.
SweepArticles ==
    /\ Serving
    /\ LET kept == {f \in DOMAIN db.seen : ~(db.seen[f] + Retention < Now)}
       IN  Autocommit([db EXCEPT !.fetched = Restrict(@, kept), !.seen = Restrict(@, kept)])
    /\ UNCHANGED was

\* drop_disabled_feeds.  The history forgets the rows nobody finds any more.
SweepFeeds ==
    /\ Serving
    /\ LET kept == db.enabled \cap DOMAIN db.fetched
       IN  Autocommit([db EXCEPT !.urls = Restrict(@, db.enabled),
                                 !.fetched = Restrict(@, kept), !.seen = Restrict(@, kept)])
    /\ was' = Restrict(was, {f \in DOMAIN was : canonical_url(was[f]) \in Range(db'.urls)})

\* The process dies, or stops: what was not committed is gone.
Crash ==
    /\ crashes < MaxCrashes
    /\ crashes' = crashes + 1
    /\ db' = disk
    /\ at' = "down"
    /\ once' = FALSE
    /\ todo' = {}
    /\ UNCHANGED <<disk, was>>

Next ==
    \/ Open \/ DropTables \/ AddSeenColumn \/ Backfill \/ DropColumns
    \/ \E f \in FeedIds : Canonicalise(f)
    \/ Stamp \/ Commit \/ Disable
    \/ \E url \in Clients : Subscribe(url)
    \/ \E f \in FeedIds : Part(f)
    \/ SweepArticles \/ SweepFeeds
    \/ Crash

Spec == Init /\ [][Next]_vars

----------------------------------------------------------------------------
\* Properties

\* "One-slash stripping is not a fixed point" (_migrate): once a database is stamped no
\* row's URL changes again, whatever number of opens and crashes follows.
UrlsFixedOnceMigrated ==
    [][disk.version = 1 =>
          \A f \in DOMAIN db.urls \cap DOMAIN db'.urls : db'.urls[f] = db.urls[f]]_vars

\* The stamp means that the migration is complete, wherever a crash has cut it short
\* before: it is committed with the last of the work and not before it.
StampedMeansMigrated ==
    disk.version = 1 =>
        /\ disk.leftovers = {} /\ disk.seen_column
        /\ \A f \in DOMAIN disk.seen : disk.seen[f] # 0

\* After the migration the history of a feed is found by the URL its clients use: the
\* row of the canonical form is there, and it is the old row itself when no other row
\* had the same canonical form.  In whatever order the rows were visited this holds
\* for every URL whose canonical form is a fixed point: two slashes are too many.
HistoryReachable ==
    at \in {"disable", "up"} =>
        \A f \in DOMAIN was :
            LET canon == canonical_url(was[f])
                rivals == {g \in DOMAIN was \ {f} : canonical_url(was[g]) = canon}
            IN  canonical_url(canon) = canon =>
                    /\ Taken(canon)
                    /\ rivals = {} => f \in DOMAIN db.urls /\ db.urls[f] = canon

\* The retention sweep removes no article of a feed that stays before its time, even
\* after a crash between the new last_seen_at column and its backfill.
SweepSparesRecent ==
    [][\A f \in DOMAIN db.fetched \ DOMAIN db'.fetched :
          f \in DOMAIN db'.urls => db.fetched[f] + Retention < Now]_vars
==============================================================================
