------------------------------- MODULE Store -------------------------------
(***************************************************************************)
(* The SQLite pool of src/rss_ticker/store.py.  Every public method of     *)
(* Store runs under one RLock (_synchronized), so a method is one atomic   *)
(* step with respect to every other thread, and a caller that makes two    *)
(* store calls makes two steps.  Each method that writes is an action      *)
(* operator below; the modules that extend this one conjoin at most one of *)
(* them with the caller's own state change.                                *)
(*                                                                         *)
(* Columns no property reads (name, favicon, title, link, summary, author, *)
(* last_error, last_polled_at) are left out.                               *)
(***************************************************************************)
EXTENDS Naturals, FiniteSets, Sequences

CONSTANTS
    Urls,        \* canonical feed URLs, what canonical_url returns
    Guids,       \* article guids
    Validators,  \* values of the ETag / Last-Modified pair
    MaxFeedId,   \* bound: the largest rowid a run may use
    None         \* SQL NULL

ASSUME MaxFeedIdAssumption == MaxFeedId \in Nat
ASSUME NoneAssumption == None \notin Nat /\ None \notin Validators /\ None \notin Urls

VARIABLES
    feeds,       \* table feeds: feed id -> [url, enabled]
    feed_state,  \* table feed_state: feed id -> polling state
    articles     \* table articles: <<feed id, guid>> -> row (UNIQUE (feed_id, guid))

storeVars == <<feeds, feed_state, articles>>

FeedIds == 1 .. MaxFeedId

FeedRow == [url : Urls, enabled : BOOLEAN]

StateRow == [validator : Validators \cup {None},
             last_success_at : Nat \cup {None},
             consecutive_failures : Nat,
             next_poll_at : Nat]

ArticleRow == [published_at : Nat \cup {None}, sort_at : Nat, last_seen_at : Nat]

(* What the schema and the methods promise of the tables: ids in range, one *)
(* row per URL, a feed_state row for exactly the feeds that exist, and no   *)
(* article without its feed.                                                *)
StoreTypeOK ==
    /\ DOMAIN feeds \subseteq FeedIds
    /\ feeds \in [DOMAIN feeds -> FeedRow]
    /\ \A f, g \in DOMAIN feeds : feeds[f].url = feeds[g].url => f = g
    /\ DOMAIN feed_state = DOMAIN feeds
    /\ feed_state \in [DOMAIN feeds -> StateRow]
    /\ DOMAIN articles \subseteq (DOMAIN feeds) \X Guids
    /\ articles \in [DOMAIN articles -> ArticleRow]

----------------------------------------------------------------------------
\* Queries

\* feed_by_url: the ids whose row has this URL, none or one.
FeedByUrl(url) == {f \in DOMAIN feeds : feeds[f].url = url}

\* due_feeds: enabled rows whose next poll time has come.
DueFeeds(now) ==
    {f \in DOMAIN feeds \cap DOMAIN feed_state :
        feeds[f].enabled /\ feed_state[f].next_poll_at <= now}

\* The rowid SQLite gives a new row of feeds: id is INTEGER PRIMARY KEY without
\* AUTOINCREMENT, so it is one more than the largest id in use, and the largest
\* id is used again once its row is gone.
IsNextRowId(id) ==
    /\ id \in FeedIds
    /\ \A f \in DOMAIN feeds : f < id
    /\ id = 1 \/ id - 1 \in DOMAIN feeds

----------------------------------------------------------------------------
\* Methods that write

\* The tables of a database that was just created.
EmptyStore ==
    /\ feeds = <<>>
    /\ feed_state = <<>>
    /\ articles = <<>>

\* Mutant of upsert_feed: without the INSERT OR IGNORE INTO feed_state.
UpsertWithoutState(url, now, id) ==
    /\ \/ id \in FeedByUrl(url) /\ UNCHANGED feeds
       \/ /\ FeedByUrl(url) = {}
          /\ IsNextRowId(id)
          /\ feeds' = [f \in DOMAIN feeds \cup {id} |->
                          IF f = id THEN [url |-> url, enabled |-> TRUE] ELSE feeds[f]]
    /\ UNCHANGED <<feed_state, articles>>

\* Mutant of upsert_feed: a feed that is named again is due at once.
UpsertPollsAtOnce(url, now, id) ==
    /\ \/ id \in FeedByUrl(url) /\ UNCHANGED feeds
       \/ /\ FeedByUrl(url) = {}
          /\ IsNextRowId(id)
          /\ feeds' = [f \in DOMAIN feeds \cup {id} |->
                          IF f = id THEN [url |-> url, enabled |-> TRUE] ELSE feeds[f]]
    /\ feed_state' = [f \in DOMAIN feed_state \cup {id} |->
                         IF f = id THEN [validator |-> None, last_success_at |-> None,
                                         consecutive_failures |-> 0, next_poll_at |-> now]
                         ELSE feed_state[f]]
    /\ UNCHANGED articles

\* upsert_feed: find the row of url or insert it with the schema's enabled = 1,
\* and make sure it has a feed_state row, in one commit.  id is what it returns.
upsert_feed(url, now, id) ==
    /\ \/ /\ id \in FeedByUrl(url)
          /\ UNCHANGED feeds
       \/ /\ FeedByUrl(url) = {}
          /\ IsNextRowId(id)
          /\ feeds' = [f \in DOMAIN feeds \cup {id} |->
                          IF f = id THEN [url |-> url, enabled |-> TRUE] ELSE feeds[f]]
    /\ feed_state' = [f \in DOMAIN feed_state \cup {id} |->
                         IF f \in DOMAIN feed_state
                         THEN feed_state[f]
                         ELSE [validator |-> None, last_success_at |-> None,
                               consecutive_failures |-> 0, next_poll_at |-> now]]
    /\ UNCHANGED articles

\* set_enabled: an UPDATE by id, which changes nothing when the row is gone.
set_enabled(id, enabled) ==
    /\ feeds' = [f \in DOMAIN feeds |->
                    IF f = id THEN [feeds[f] EXCEPT !.enabled = enabled] ELSE feeds[f]]
    /\ UNCHANGED <<feed_state, articles>>

\* disable_all_feeds: the boot state.
disable_all_feeds ==
    /\ feeds' = [f \in DOMAIN feeds |-> [feeds[f] EXCEPT !.enabled = FALSE]]
    /\ UNCHANGED <<feed_state, articles>>

\* drop_disabled_feeds: one transaction removes every disabled feed with its
\* polling state and its articles.
EnabledFeeds == {f \in DOMAIN feeds : feeds[f].enabled}

\* Mutant of drop_disabled_feeds: the articles of the feeds stay behind.
DropFeedsAlone ==
    /\ feeds' = [f \in EnabledFeeds |-> feeds[f]]
    /\ feed_state' = [f \in EnabledFeeds |-> feed_state[f]]
    /\ UNCHANGED articles

drop_disabled_feeds ==
    LET kept == EnabledFeeds
    IN  /\ feeds' = [f \in kept |-> feeds[f]]
        /\ feed_state' = [f \in DOMAIN feed_state \ (DOMAIN feeds \ kept) |-> feed_state[f]]
        /\ articles' = [k \in {k \in DOMAIN articles : k[1] \notin DOMAIN feeds \ kept} |->
                           articles[k]]

\* The guids of a batch that no row of the feed has yet: what RETURNING yields.
NewGuids(f, entries) == {g \in DOMAIN entries : <<f, g>> \notin DOMAIN articles}

\* sort_at of a new row: the published date, never later than now.
SortAt(published, now) == IF published = None \/ published > now THEN now ELSE published

\* Mutant of insert_articles: last_seen_at is what it was when the row was added.
InsertWithoutRefresh(f, entries, now) ==
    /\ f \in DOMAIN feeds
    /\ articles' =
          [k \in DOMAIN articles \cup ({f} \X DOMAIN entries) |->
              IF k \in DOMAIN articles
              THEN articles[k]
              ELSE [published_at |-> entries[k[2]],
                    sort_at |-> SortAt(entries[k[2]], now), last_seen_at |-> now]]
    /\ UNCHANGED <<feeds, feed_state>>

\* insert_articles: one transaction adds a row for each new guid and, in chunks,
\* refreshes last_seen_at of every guid of the batch.  entries maps the guids of the
\* batch, after the removal of duplicates, to their published dates.  The foreign
\* key makes it raise, and change nothing, when the feed is gone.
insert_articles(f, entries, now) ==
    /\ f \in DOMAIN feeds
    /\ articles' =
          [k \in DOMAIN articles \cup ({f} \X DOMAIN entries) |->
              IF k \notin DOMAIN articles
              THEN [published_at |-> entries[k[2]],
                    sort_at |-> SortAt(entries[k[2]], now),
                    last_seen_at |-> now]
              ELSE IF k[1] = f /\ k[2] \in DOMAIN entries
                   THEN [articles[k] EXCEPT !.last_seen_at = now]
                   ELSE articles[k]]
    /\ UNCHANGED <<feeds, feed_state>>

\* sweep: articles not seen in their feed for `retention` are deleted.
sweep(now, retention) ==
    /\ articles' = [k \in {k \in DOMAIN articles :
                             ~(articles[k].last_seen_at + retention < now)} |-> articles[k]]
    /\ UNCHANGED <<feeds, feed_state>>

\* record_success and record_failure: UPDATEs by feed id, no-ops without the row.
record_success(f, validator, now, next_poll_at) ==
    /\ feed_state' =
          [g \in DOMAIN feed_state |->
              IF g = f THEN [validator |-> validator, last_success_at |-> now,
                             consecutive_failures |-> 0, next_poll_at |-> next_poll_at]
              ELSE feed_state[g]]
    /\ UNCHANGED <<feeds, articles>>

record_failure(f, next_poll_at) ==
    /\ feed_state' =
          [g \in DOMAIN feed_state |->
              IF g = f THEN [feed_state[g] EXCEPT !.consecutive_failures = @ + 1,
                                                  !.next_poll_at = next_poll_at]
              ELSE feed_state[g]]
    /\ UNCHANGED <<feeds, articles>>
============================================================================
