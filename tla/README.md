# A verification development of rss-ticker

TLA+ models of the server in `src/src/rss_ticker`, checked with TLC.
Their safety properties are also proved with TLAPS; their liveness properties are not.
Paths below are relative to that directory unless they say otherwise. `PROJECT.json`
lists the runs, the source lines each definition stands for, the hazards, the findings
and the theorems.

## The system

rss-ticker is one Python process: an asyncio event loop, a SQLite file, and a few
worker threads. Clients name feeds over a websocket; the server polls the union of
what they name, stores the articles, and pushes new ones to everybody.

| part | state | operations | interacts with |
| --- | --- | --- | --- |
| Store (`store.py`) | tables `feeds`, `feed_state`, `articles` | one method, one transaction, under one RLock | called by everything, from the loop and from worker threads |
| Subscriptions (`api.py` `ws_news`, `broadcast.py`) | registered subscriptions, reference counts, `feed_ids` and `closed` of each, the place of each handler | connect, subscribe frame, send, disconnect, overflow | drives `feeds.enabled`; is called by the poller through `publish` |
| Poller (`poller.py`, `fetch.py`) | the tick, its due feeds, the polls in flight | `run_once`, `poll_feed` | reads and writes the store around two awaits; hands articles to the broadcaster |
| Sweep (`main.py` `sweeper`) | none | `sweep`, then `drop_disabled_feeds`, hourly, each in a worker thread | deletes what the others hold ids of |
| Live TV (`live.py`) | an entry and a lock per channel | `video_id` | concurrent HTTP requests |
| Favicons (`favicon.py`) | `feeds.favicon`, the tasks, a semaphore | a pass at startup, one task per new feed | holds feed ids across fetches; is called by `resolve_subscription` |
| Paging (`store.py` `page_news`) | the cursor in the client's hands | `before`, `after` | reads while polls insert and the sweep deletes |
| Migration (`store.py` `_migrate`, `canonical_url`) | `user_version`, the URLs | once, at the first start, taken up again after a crash | before anything else |
| Normalisation, configuration, REST reads | none | pure functions, single reads | |

What is hard here is not any one function but their order. The event loop changes
hands at every `await`; the sweep runs in a thread and comes between any two store
calls, even where there is no `await`; ids of feeds are kept across awaits while
SQLite uses the largest rowid again once its row is deleted; a process that dies
leaves its `enabled` column behind, or half a migration; and a call of the store may
raise in the middle of what its caller was counting.

What makes each part correct:

- Subscriptions: the counts are exact, `enabled` follows them, a feed that is counted
  is not deleted once it is enabled, a feed that is not is reclaimed, and a dropped
  handler ends; a call
  that fails costs the feeds it was about and no other.
- Poller and sweep: one poll per feed at a time, no result over a later one, every due
  feed polled, one that nobody names not, and none before the time its server asked
  for; an article the feed still lists is kept, and is pushed once; articles belong to
  the feed they came from.
- Live TV: one fetch per window, no ended stream served again, answers of bounded age,
  every request answered once its fetch ends.
- Favicons: an icon belongs to the URL it was resolved for; a known icon is not lost;
  every row is asked for; the pass ends.
- Paging: a walk neither skips nor repeats what was there throughout.
- Migration: the history of a feed is found by its clients' URL, a second start
  changes nothing, and a crash in the middle loses nothing.

## Modules

    Store            the tables, and one action operator per method that writes them
    Subscriptions    EXTENDS Store: handlers, counts, publish, sweep, crash
    Presence         the abstract specification that Subscriptions implements
    Poller           EXTENDS Store: ticks, polls, sweep, clock, servers
    LiveCache        the Live TV lookups
    Paging           walks of a client through the history
    Favicons         EXTENDS Store: frames, tasks, fetches, sweep, restart
    Migration        opening an older database, with crashes, and what follows
    MC...            the values TLC is given
    StoreProofs      lemmas on the tables: what each method does to their types
    ...Proofs        the theorems about the module of that name

A definition whose comment says "Mutant of" is a faulty variant of the one after it,
used by no action: with it in the other's place TLC finds the property that
`PROJECT.json` names with it violated, which shows that the property would notice.

**Store.** A method of `Store` holds one RLock for its whole body (`_synchronized`)
and writes in one transaction, so it is one atomic step. Its operator is conjoined by
the callers' actions. `IsNextRowId` is SQLite's rule for an `INTEGER PRIMARY KEY`
without AUTOINCREMENT. Columns no property reads are left out.

**Subscriptions.** `pc[s]` is where the handler of connection `s` is: in `asyncio.wait`,
woken but not resumed, in `send_json`, in `close`, or gone. Code between two awaits that
makes no store call is one action. A subscribe frame, an unsubscribe and a publish make
several store calls without an await: they hold the event loop (`loop`), every store
call is an action, and only `Sweep` can come in between. `set_feeds` is `AddFeed` and
`RemoveFeed` once for each feed, in any order, as Python's sets iterate, and
`SetFeedsReturns`. They change the count; if it has become 1 or 0 the feed is `pending`
until `SwitchFeed` has made the `set_enabled`, and the sweep, in its thread, may run
before that call gets the lock. `Publish(full)` is a publish that overflows the queues
of `full`; as a batch may hold more articles than a queue (`MAX_QUEUE`), any set may
overflow. A publish that overflows nothing changes no state that is kept here, so it is
left out. `Restart` may happen between any two steps: the tables stay, the rest is lost,
`disable_all_feeds` runs. `UpsertRaises` and `SwitchRaises` are a store call that
raises, with its change made or not: `set_feeds` ends where it is, a frame goes on with
its finally clause, an unsubscribe or a publish with nothing. `tainted` is history: the
feeds that are left counted and not named, named and not counted, or enabled for nobody
(`Damage`).

**Presence** says the same with no counter: subscriptions have names, a named feed of
the pool is polled, the last one to let go stops it, the sweep removes the feeds that
are not polled. The mapping takes the names of `s` to be what the rows show of them at
that moment (`Settled`): a name for which `enabled` has to change is given, and taken
back, by the `set_enabled` and not by the count before it. It loses the tainted feeds
(`Lose`) until the next restart.

**Poller.** `RunOnce` takes the due feeds, `StartPoll` gives the next one a slot of
the semaphore and its snapshot of `feed_state`, and the other actions are what may
end the fetch and the parse. `Insert` and `Record` are the two store calls in a row of
`poll_feed`; the sweep may come between them, nothing else (`LoopFree`). Sockets are
reduced to the set of watched feeds; `Join`, `Joined` and `Part` make the store calls
of the first and the last socket of a feed. A server's `listed` body is a date, or
none, for each guid in it. `Edit` lists an article under any of its `Dates`, past or
future, gives it another, or takes it off; a validator is the body it was sent with,
and a 304 answers the validator of the current body, or none at all. `PollRaises` is
the parser or `insert_articles` raising. `full` and `handed` are history: what the last
full response of a feed listed, and for each article handed to the broadcaster the last
time a poll that succeeded found it in the feed.

**LiveCache.** `lock[c]` is the queue of the asyncio.Lock of a channel; its head holds
the lock across the fetch. `seen` and `served` are history: when an id was seen live
since the page last said "not live", and how old the answered id was. A page is a
record of what `parse_live_video_id` looks at; `ParserRaises` is the shape of the
player's JSON on which it raises (JSON nested too deep, on which it raises as well, is
`FetchRaises`, as any error is).

**Paging.** A row has the columns `page_news` reads, and a `serial` that tells an
article from a later one with its id. `Hits`, `Page` and `NextCursor` are the WHERE
clause, ORDER BY with LIMIT, and the cursor of the last row; a page is a set, as its
order is that of the walk. `NextPage` is one request. Inserts are batches with any
dates up to now, and the sweep may delete any rows: which ones are past their
retention depends on what the servers listed. `GoAway` and `ComeBack` are a client
that had everything, lost its connection and fills the gap from the newest article it
had. `got`, `twice`, `stayed`, `known` and `back` are history.

**Favicons.** `tasks` are the tasks of the startup pass (keys that are feed ids) and
those frames started (the keys after), each with the feed id and URL it was given and
the fetch it waits for: the known icon of its host, `/favicon.ico`, the homepage, the
icon the homepage links to. `Resolved` is an answer that is an icon, with the store call
that follows it without an await; `NotAnIcon` any other answer; `Fails` an exception,
the deadline or a store call that raises. `frame` is the frame in
`resolve_subscription`, one store call at a time as in Subscriptions, since it matters
what the sweep does between `feed_by_url` and `upsert_feed`; `FrameRaises` ends it where
a call raises. Counting is left out: a frame enables, `Part` disables. `missed` and
`owners` are history.

**Migration.** `disk` is what is committed and `db` what the connection sees. Python's
sqlite3 begins a transaction before the first UPDATE only, so that `DropTables` and
`AddSeenColumn` are committed at once, and the rest, `PRAGMA user_version` included,
at the end: `Crash` between them loses what is not. A URL is how its scheme and host
are spelled, how many slashes end its path and whether it has a query or a port that
is no number: what `canonical_url` looks at. The loop visits the rows in any order,
more than SQLite's, as the SELECT gives none. Then the process serves: `Subscribe`,
`Part` and the two sweeps act on what the migration left. `was` is history.

## Runs

| run | question | result |
| --- | --- | --- |
| Subscriptions | counts, `enabled`, sweep, failing calls, refinement of Presence | holds, 1.50 million states |
| SubscriptionsLive | overflow ends a handler; idle feeds are reclaimed | holds, 6,447 states |
| Poller | retention of what is listed; repeated pushes; who is polled, and when | holds, 5.03 million states |
| PollerLive | one poll per feed; time order of results; due feeds are polled | holds, 281,086 states |
| LiveCache | rate, resurrection, age, progress | holds, 208,388 states |
| Paging | walks between inserts and deletions; gap fills | holds, 1.27 million states |
| Favicons | icons kept, owned and asked for; the pass ends | holds, 154,016 states |
| Migration | crashes, order of rows, second opens | holds, 461,839 states |
| GhostSubscription | is a named feed always polled? | violated |
| LeakedCount | are counts derived from open sockets? | violated |
| RetentionClock | does a listed article stay? | violated |
| ReusedRowId | are articles under their own feed? | violated |

### What the passing runs show

- `CountsExact`, `EnabledMirrorsCount`: no mixture of frames, drops, the second
  unsubscribe of a dropped socket, sweeps and reused rowids leaves a count, or the
  `enabled` column, wrong. The count is that of the `Subscription` objects; that such
  an object always belongs to an open socket is what LeakedCount refutes. When a
  store call raises, only the feeds of that call and its subscription are excepted,
  and only until the next boot.
- `SweepSparesCounted`, `Refinement`: the sweep deletes a feed between `upsert_feed`
  and `set_enabled` of the first frame that names it, also when that frame has counted
  it already (`broadcast.py:61`), and never after: no feed that another subscription is
  counted for goes, nor one whose `set_enabled` has been made. `IInv` is the inductive
  invariant of the proofs, checked here first.
- `OverflowEndsHandler`, `IdleFeedReclaimed`: liveness, see the fairness below.
- `FullResponseKept`: `insert_articles` renews `last_seen_at` of every article in the
  response, so none of it is swept for the retention after it.
- `RepeatNeedsOutage`: an article with a date is handed to the sockets again only if
  the time since its feed was last read, and what its date lies after the last time the
  feed listed it (`Lead`), make up the retention less the grace and one tick. For an
  article whose date is past when it is first handed over, and stays what it is, `Lead`
  is 0, and it takes an outage about as long as the retention; that is what
  `poller.py:25-28` relies on. An article dated ahead, or dated anew, may need none, and
  the property says by how much less. The tick is that in which it is stored again, which
  may have begun before it was swept.
- `OnePollPerFeed`, `SuccessMovesForward`: both rest on the barrier of `gather`; the
  rowids used again do not break them.
- `DueIsPolled`: every due feed gets its poll, even when another poll of the tick
  raises, in the parser or because its feed was deleted.
- `StopsWithinTick`: no new tick picks a feed without a subscriber, after a crash and
  under a rowid that had another owner too. The tick under way goes on with it.
- `NeverBroughtForward`: no subscription, restart or late answer makes a feed due
  earlier than its backoff or Retry-After said, as long as its row stays. (A sweep
  deletes the row, and with it the backoff.)
- `RateCeiling`, `NoResurrection`, `AnswersAreRecent`: the promises of `live.py`, for
  requests that queue behind a fetch of any length. `AnsweredUnlessHung`: whatever a
  fetch brings, its end releases the lock and every waiter gets its answer; a fetch that
  never ends, which the code allows, is the only thing that can hold them. An age
  is counted to the moment a request samples the clock. The pages are a live one and
  those that differ from it in one thing the parser looks at.
- `NoneTwice`, `WalkComplete`: the strict comparison of both columns makes a cursor a
  position rather than a row, so that a walk goes on where it was although its row is
  deleted, dates are equal, or the id is used again.
- `GapMissesOnlyBackdated`: what a finished gap fill has not returned was inserted with
  a date before the newest the client knew; for equal dates this needs ids that only
  grow, which SQLite gives as long as no row the client knew is deleted.
- `KnownIconKept`, `IconOfAnOwner`: the pass and a frame's task may resolve one feed at
  the same time, fail in any order, or store under a rowid that has changed hands; an
  icon is never wiped, and a wrong one can only be that of a former owner of the row.
- `EveryRowAsked`: every row is asked for by the process that serves it, unless a sweep
  comes in the middle of the frame that adds it, or a store call of that frame raises.
  `PassEnds` is liveness, see below.
- `StampedMeansMigrated`, `UrlsFixedOnceMigrated`, `HistoryReachable`,
  `SweepSparesRecent`: the stamp is committed with the last of the work and not before
  it, so a crash repeats what is idempotent and never what is not; a feed is found by
  its clients' URL if the canonical form is a fixed point; and the backfill, which is
  outside the gate, makes up for a crash after the new column.

### What the violated ones show

- GhostSubscription: a feed is in the pool, disabled; a frame finds it with
  `upsert_feed`; the sweep deletes it; `set_enabled` updates no row. The socket has
  its reply and waits for a feed nobody polls. `api.py:261` knows of the race and
  expects another frame.
- LeakedCount: the wait of a handler completes with a frame; before the handler runs,
  `publish` drops the subscription; the frame is then handled for a subscription that
  is no longer registered, and `unsubscribe` in the finally clause does nothing.
- RetentionClock: a 304 records a success and refreshes no `last_seen_at`.
- ReusedRowId: a poll is in flight while its feed is dropped and swept and another URL
  gets the rowid; the articles are inserted under the other feed.

The traces of ReusedRowId and GhostSubscription need a sweep within one poll or one
frame: rare, and what no test of the repository arranges.

### Other disagreements met while modelling

They are visible in the models without a run of their own; `PROJECT.json` quotes the
lines.

- The 30 minutes of `live.py:31-33` are tested at the error, and the answer is then
  cached for another `LIVE_TTL_S`. The bound that holds is `AnswersAreRecent`.
- The age guard does not separate a returned article from a new one "by construction"
  (`poller.py:25-28`) if it was dated ahead or has been dated anew: it is pushed again
  with no outage. `RepeatNeedsOutage` bounds it.
- A cold start is broadcast if the feed has a subscriber (`poller.py:143-147`), although
  the repository's `README.md:73-75` and its design document say that it is not.
- Not "every new article" is pushed (`README.md:6-7`): those stored by a poll that is cut
  off, or whose `record_success` raises, before the push are not new to the next one.
- A gap fill misses what was inserted with an older date (`store.py:472-474`). It takes
  no more than two feeds polled in the other order.
- "Stops polling at once" (`README.md` of the repository, line 70) is at the next tick.
- `parse_live_video_id` "never raises" (`live.py:42-43`), but raises if
  `playabilityStatus` is a non-empty string or list; and a page it cannot parse makes
  it forget the id, although `live.py:32` counts a parse error among the errors.
- `set_enabled` raising inside `set_feeds` leaves counts no subscription accounts for.
- An icon may land on the next owner of a rowid (`favicon.py:259`), and a feed that the
  sweep deletes between `feed_by_url` and `upsert_feed` gets none until the next boot.
- A page of HTML with an inline `<svg` near its top passes for an icon
  (`favicon.py:89`), although `favicon.py:192-193` says it does not.
- A row the migration leaves alone is not "unreachable by lookup" (`store.py:243-246`)
  if a client's URL has one slash more; and a row may be left alone because of another
  that moves away later, so that its history is lost without a collision in the end:
  the case that `HistoryReachable` excepts.

## Bounds

- Subscriptions: two connections (a count of 0, 1 and 2, one drop while the other is
  anywhere), two URLs in six frames (nothing, one, both in either order, one twice),
  three rowids (one more than the URLs, so that a row is deleted and another takes a
  rowid, used before or new), one failing store call, one crash (no failing call in the
  liveness run and in the two that are violated). The connections are interchangeable, so
  `MCSymmetry` permutes them; the liveness run uses no symmetry, one URL and two rowids.
- Poller: two URLs share one rowid, so that it is used again; two articles of one
  publisher, one without a date and one dated 1 or 5, that is past or ahead, and changed
  from one to the other; a retention of 4, a grace of 1 and an interval of 2 units
  within a clock of 6, so that an article is swept and comes back; two edits; a backoff
  that meets its limit after one failure, and a Retry-After longer than an interval; one
  crash; one slot. A tick lasts at most `MaxTickTime` = 1: `TOTAL_TIMEOUT_S` is a minute
  and the retention a day or more. With these values `RepeatNeedsOutage` without its
  `Lead` is violated, by an article dated 5.
- PollerLive: two rowids and two slots, so that polls overlap; a clock of 1, one article
  with one date, and a Retry-After below and above the floor.
- LiveCache: one channel (channels share nothing), three requests, so that two wait,
  and one id, as an id is only ever replaced by the latest one; a clock of 7 over a
  window of 2 and a stale window of 5: an id, a page that says "not live" and an error
  fit within one stale window, and an id can outlive it.
- Paging: two feeds (interchangeable), four articles in batches of one or two, pages of
  one and two, and dates 0 and 1, so that dates are equal and a date may be older than
  the cursor.

- Favicons: two URLs, one with a known icon URL; two rowids; frames with one and with
  both; one slot, so that the pass queues; one task of a frame at a time, beside up to
  two of the pass; one restart. `RoomFor` keeps frames within these bounds.
- Migration: up to three rows of the six spellings of one path, and rows with a query
  and a bad port; with and without `last_seen_at`; an article past its retention and
  one within it; four rowids; two crashes, so that a migration can be cut short,
  finished, and its database opened again.

The clocks are bounded only so that the runs end. `Frames`, `Urls`, `Guids` and the
rest are CONSTANTS.

## Fairness, and why the code gives it

- `LoopStep` (weak): code between two awaits runs on; nothing preempts it for good.
- `Sweep` (weak): the sleep of the sweeper ends, and an exception does not end its loop.
- `Overflowed`, the woken handler, `Closed`, `Sent` or `SendFails` (strong, because the
  loop is taken by others in between): asyncio resumes a completed task, and a close
  or a send ends at the latest when the server's keepalive ping goes unanswered.
- `RunOnce`, `StartPoll`, `PollStep` (strong, for the same reason): `run_forever`
  survives every exception, the semaphore is first come first served, and `fetch_feed`
  has a total deadline. `Joined` (weak) is code between two awaits.
- `Acquire` (weak): asyncio.Lock wakes its waiters in order. Nothing is assumed of
  `FetchEnds`: the timeout of `live.py:162` is per read, and a server that keeps sending a
  little is not stopped by it (see the hazards). `AnsweredUnlessHung` excepts it.
- In Favicons, `FrameStep` (weak) is code between two awaits; `Begin` (strong), as
  asyncio.Semaphore wakes its waiters in order; and `Fails` of each task of the pass
  (strong), as `asyncio.timeout` ends a resolution that nothing else has ended, and the
  loop is only sometimes free to do so.

No fairness is assumed of clients, servers, publishes, crashes or time.

## Proofs

Every invariant and every action property of the passing runs is a theorem.

| module | theorem | proves |
| --- | --- | --- |
| SubscriptionsProofs | `TypeCorrect`, `Invariance` | `TypeOK`, `IInv` |
| | `CountsAreExact` | `CountsExact` |
| | `EnabledMirrors` | `EnabledMirrorsCount` |
| | `SweepSpares` | `SweepSparesCounted` |
| PresenceProofs | `SubscriptionsImplementPresence` | `Refinement` |
| | `CountedIsPolled` | `P!NamedIsPolled`, at every step |
| PollerProofs | `PollerTypeCorrect`, `PolledOnce` | `TypeOK`, `OnePollPerFeed` |
| | `FullResponsesStay` | `FullResponseKept` |
| | `RepeatsTellOutage` | `RepeatNeedsOutage` |
| | `SuccessIsForward`, `BackoffStands` | `SuccessMovesForward`, `NeverBroughtForward` |
| | `TicksAreWatched` | `StopsWithinTick` |
| LiveCacheProofs | `CacheTypeCorrect`, `NothingResurrected` | `TypeOK`, `NoResurrection` |
| | `AnswersRecent`, `RateCeilingHolds` | `AnswersAreRecent`, `RateCeiling` |
| PagingProofs | `PagingTypeCorrect`, `NeverTwice` | `TypeOK`, `NoneTwice` |
| | `WalksComplete`, `GapsAreBackdated` | `WalkComplete`, `GapMissesOnlyBackdated` |
| FaviconsProofs | `FaviconsTypeCorrect`, `IconsOfOwners` | `TypeOK`, `IconOfAnOwner` |
| | `EveryRowIsAsked`, `KnownIconsKept` | `EveryRowAsked`, `KnownIconKept` |
| MigrationProofs | `MigrationTypeCorrect`, `StampIsTrue` | `TypeOK`, `StampedMeansMigrated` |
| | `HistoryIsFound`, `UrlsStayFixed` | `HistoryReachable`, `UrlsFixedOnceMigrated` |
| | `RecentIsSpared` | `SweepSparesRecent` |

They hold for all values of the constants: any URLs, guids and rowids, frames, pages
and dates, any number of restarts, edits, requests and articles. Only the connections
of Subscriptions are a finite set, as there the counts are cardinalities. The
assumptions are those the modules name. Those that say more than what a constant is:

- `None` is no URL, no number, no cursor: NULL is not a value.
- `LiveTTL` is not 0: with a window of nothing an answer may be as old as `StaleTTL`
  and `AnswersAreRecent`, which is strict, fails. `LIVE_TTL_S` is 300.
- `DatabasesAssumption`: the databases Migration opens are well formed and of the older
  version, and no article in them was seen before it was fetched: an older process
  writes both times in that order, from a clock that is not set back.
- `ClientsAssumption`: the URLs clients name are URLs.

Each module has one inductive invariant, proved with one lemma for each action; TLC
checked each of them on the values of the run before. The lemmas of StoreProofs on the
operators of the store are shared by Subscriptions, Presence, Poller and Favicons.

**Subscriptions.** `EnabledMirrorsCount` is not inductive. While a frame holds the loop
a row may be enabled and not counted, because `upsert_feed` inserts it enabled; and
`counts` says nothing unless it is known to be exact. `IInv` therefore adds
`CountsExact` and `EnabledTracksCounts`, in which an enabled row is counted or is about
to be by the frame at hand, but for the `pending` feed, whose `set_enabled` is still to
come, and `LoopWellFormed`, which keeps a publish from dropping a subscription twice and
knows the count of the pending feed to be 1 or 0. That in turn needs `Counted`: in the
middle of `set_feeds` the counts include neither the old nor the new set of its
subscription but the part already done. Each of them excepts the tainted feeds;
`StoreRaisesInv` says that a call which raises taints whatever it leaves wrong (`Damage`
is what the counts and the names disagree about). `CountsExact` follows from two facts
on the cardinality of a finite set with one element more or less. `EnabledMirrors` then
needs only that an idle loop is about to count nothing. `SweepSpares` and the refinement
follow from the same invariant, step by step: a name that needs no `set_enabled` is
given or taken by the change of the count, any other by the `set_enabled`, with a
stutter before it; a step on a tainted feed is a stutter, and one that taints is `Lose`.
`CountedIsPolled` is proved of Presence, and carried over.

**Poller.** `OnePollPerFeed` needs `OncePerTick`: a feed id is once in `due` or in
flight, which holds as `RunOnce` waits for both to be empty. `SuccessMovesForward` and
`NeverBroughtForward` need that a recorded time is never later than the tick
(`OneTick`) and that a feed in a tick is due (`Overdue`), also when its row was swept
and its id taken by another, whose row is due at once. `StopsWithinTick` needs
`EnabledAreWatched`. `FullResponseKept` needs `FullSeen`: the articles of the last full
response have been seen since. `RepeatNeedsOutage` needs most: `ColdStarts` (what was
handed over is of a feed that had been read) and `Fates`: an article that was handed
over is in the table and has been seen since its feed last listed it, or that is a
retention ago (`Seen`); and while a poll is between its two calls of the store, what it
inserted and was handed over before had been swept, a retention less at most a tick
after its feed last listed it. The age guard then does the rest (`RepeatTells`). Nothing
is assumed of dates. That the backoff is a number at all needs 2^n to be one: the library
has no such fact, but 2^n is the number of subsets of `1 .. n`.

**LiveCache.** What `NoResurrection` says of `cached` must be said of the last id known
(`good_id`) as well, as an error brings it back, and with the time it was seen
(`Truthful`); and an entry is only known to be as old as the last fetch while no fetch
is under way (`Remembered`), which the lock gives: a fetch is at the head of its queue,
and nobody is queued twice (`Queue`).

**Paging.** `Separated` is the invariant of a walk: what was returned does not come
after the cursor, and what was there throughout was returned or does. It needs the
strict order on (date, id), and that the rows there are have ids that grow with
insertion, although an id comes back once its row is gone (`Numbered`). For a gap fill
`Resumed` adds that the cursor is a row the client knew. That a page has a last row
needs `FirstOf`: a strict order on a finite set has a first element.

**Favicons.** `Owned` says of rows, icons and tasks at once that their URL had their
rowid. `FrameReports` knows the row the frame is about to ask for: without it
`EveryRowAsked`, which speaks of the idle loop only, is not inductive; a frame that
raises takes its feeds out of `missed`. `SlotsCounted`
relates the semaphore to the tasks that run, so that its type is an invariant.

**Migration.** The invariant follows the statements: what is done by each place
(`WorkDone`), what the transaction still holds back from the disk (`HeldBack`), and
that what was read of the version is so until the work is done (`VersionKnown`). In the
loop a row is as it was or as it shall be, and those it has looked at are found
(`History`). A crash falls back to the disk, for which the same is stated.

Only model-checked: liveness, that is `OverflowEndsHandler`, `IdleFeedReclaimed`,
`DueIsPolled`, `AnsweredUnlessHung` and `PassEnds`. Liveness under fairness and
ENABLED are out of the prover's reach, as is what a recursive definition computes for
every input; no operator here is recursive.

## Not modelled

- `config.py` (validation of a file that is read once: no state, no order; its values
  are CONSTANTS and what it guarantees of them their assumptions).
- `normalize.py`: a function of one entry. Poller takes the guids and dates it yields.
- `parse_subscribe`, cursors, `_retry_after`, the detection of images and of icon links,
  `wrapper_html`: parsing and formatting of bytes. Their outcomes are choices in the
  models: a bad frame, a refused page, an answer that is no icon.
- `refuse_internal`, redirects, byte limits, redaction: I/O that ends in a failed fetch.
- `/api/feeds`, `/api/health`, the names in `/api/news`: reads whose result is given
  away. They may be torn (see the hazards), but nothing kept depends on them.
- Errors of SQLite in the poller's calls, beyond those `PollRaises` stands for. If
  `record_success` raises after `insert_articles` has committed, the articles are stored
  and not pushed, as after the crash `Restart` makes there; the poll ends.
- In Migration, the columns added without a value (`store.py:268-273`), which no property
  reads, and an error of `urlsplit` (`store.py:41`): it ends the start where it is, as
  `Crash` does, and every start after it too.
- A wall clock that is set back; a graceful shutdown, which cancels at awaits what a
  crash cuts anywhere.
- The container and the scripts.

## Plan

Done: the models of Store, Subscriptions with Presence, Poller, LiveCache, Paging,
Favicons and Migration, and the proofs of all their safety properties.

1. Abstract specifications of other components and their refinement: a cache that gives
   a live id or nothing, implemented by LiveCache; a lock for each channel, by its queue.
2. Subscriptions and Poller composed: the cold start rule with real counts.
