------------------------------- MODULE Poller -------------------------------
(***************************************************************************)
(* The poller (poller.py), the sweep (main.py, sweeper) and the store: a   *)
(* tick takes a snapshot of the due feeds, polls them with at most         *)
(* max_concurrent_polls at a time, and ends when all of them have been     *)
(* polled.  A poll awaits the fetch and then the parse; in between, the    *)
(* sockets come and go, feeds are deleted and their rowids used again.     *)
(*                                                                         *)
(* Sockets are reduced to `watched`, the feeds with a subscriber; the      *)
(* counting behind it is Subscriptions.tla.  A feed's web server is        *)
(* external: `listed` is the body it serves, a date or none for each guid  *)
(* in it, past, future or changed as the publisher likes; a validator      *)
(* (ETag) is the body it was sent with.  Times count in units of which     *)
(* poll interval, grace and retention are small multiples.                 *)
(***************************************************************************)
EXTENDS Store

CONSTANTS
    Publisher,      \* guid -> the URL of the feed it appears in
    Dates,          \* guid -> the published dates it may bear, None for no date
    BaseInterval,   \* config.default_poll_interval_s
    MaxBackoff,     \* MAX_BACKOFF_S
    MinRetryAfter,  \* MIN_RETRY_AFTER_S
    RetryAfters,    \* the Retry-After values a server may answer with
    Grace,          \* BROADCAST_GRACE_S
    Retention,      \* config.retention_days
    MaxPolls,       \* config.max_concurrent_polls
    MaxTickTime,    \* how long a tick may take: it is over long before the retention
    MaxTime,        \* bound: the clock stops here
    MaxEdits,       \* bound: how often the servers' bodies change
    MaxRestarts     \* bound: how often the process crashes

\* What a feed can list: some guids, each with a published date or without.
Bodies ==
    {body \in UNION {[gs -> UNION {Dates[g] : g \in gs}] : gs \in SUBSET Guids} :
        \A g \in DOMAIN body : body[g] \in Dates[g]}
NoBody == [g \in {} |-> None]

ASSUME PollerAssumption ==
    /\ {BaseInterval, MaxBackoff, MinRetryAfter, Grace, Retention, MaxTickTime,
        MaxTime, MaxEdits, MaxRestarts} \subseteq Nat
    /\ MaxPolls \in Nat \ {0}
    /\ RetryAfters \subseteq Nat
    /\ Publisher \in [Guids -> Urls]
    /\ Dates \in [Guids -> SUBSET (Nat \cup {None})]
    /\ Bodies \subseteq Validators

VARIABLES
    clock,     \* time.time(), rounded
    due,       \* the feeds of this tick whose poll has not started
    polls,     \* the polls in flight
    tick,      \* the `now` of this tick
    watched,   \* the feeds with a subscriber (Broadcaster._counts > 0)
    joining,   \* a frame between upsert_feed and set_enabled: its feed id
    listed,    \* url -> the body its server serves
    edits, restarts,
    \* History, for the properties only:
    full,      \* feed id -> the guids of the last full body stored, and when
    handed     \* articles handed to the broadcaster, while their feed exists:
               \* the last time a poll that succeeded found them in the feed

pollVars == <<due, polls, tick>>
envVars == <<watched, joining, listed, edits, restarts>>
history == <<full, handed>>
vars == <<storeVars, clock, pollVars, envVars, history>>

\* What poll_feed holds in local variables; stage "fetching" awaits the server,
\* "parsing" the parser, "inserted" is between its last two store calls.
Poll == [feed : FeedIds, url : Urls, now : Nat,
         cold_start : BOOLEAN, validator : Validators \cup {None},
         failures : Nat, last_success_at : Nat \cup {None},
         stage : {"fetching", "parsing", "inserted"},
         body : Bodies, etag : Validators \cup {None}, inserted : SUBSET Guids]

\* The event loop is free: nothing stands between two store calls of one stretch.
LoopFree == joining = None /\ \A p \in polls : p.stage # "inserted"

TypeOK ==
    /\ StoreTypeOK
    /\ clock \in 0 .. MaxTime
    /\ due \subseteq [feed : FeedIds, url : Urls, next_poll_at : Nat]
    /\ polls \subseteq Poll
    /\ tick \in 0 .. clock
    /\ watched \subseteq FeedIds
    /\ joining \in FeedIds \cup {None}
    /\ listed \in [Urls -> Bodies]
    /\ edits \in 0 .. MaxEdits
    /\ restarts \in 0 .. MaxRestarts
    /\ DOMAIN full \subseteq DOMAIN feeds
    /\ \A f \in DOMAIN full : full[f] \in [at : Nat, body : SUBSET Guids]
    /\ DOMAIN handed \subseteq FeedIds \X Guids
    /\ \A k \in DOMAIN handed : handed[k] \in Nat

Init ==
    /\ EmptyStore
    /\ clock = 0
    /\ due = {}
    /\ polls = {}
    /\ tick = 0
    /\ watched = {}
    /\ joining = None
    /\ listed = [u \in Urls |-> NoBody]
    /\ edits = 0
    /\ restarts = 0
    /\ full = <<>>
    /\ handed = <<>>

----------------------------------------------------------------------------
\* Scheduling

Smaller(a, b) == IF a < b THEN a ELSE b
Larger(a, b) == IF a > b THEN a ELSE b

\* next_interval: a Retry-After overrides the exponential backoff.
next_interval(failures, retry_after) ==
    IF retry_after # None
    THEN Larger(MinRetryAfter, Smaller(retry_after, MaxBackoff))
    ELSE IF failures = 0 THEN BaseInterval
         ELSE Smaller(BaseInterval * 2 ^ failures, MaxBackoff)

\* int(delay * jitter()) with a jitter of 0.9 to 1.1.
Jittered(delay) == (delay * 9) \div 10 .. (delay * 11) \div 10

\* Mutant of RunOnce: a tick does not wait for the polls of the last one.
RunOnceAtOnce ==
    /\ LoopFree
    /\ DueFeeds(clock) # {}
    /\ due' = {[feed |-> f, url |-> feeds[f].url,
                next_poll_at |-> feed_state[f].next_poll_at] : f \in DueFeeds(clock)}
    /\ tick' = clock
    /\ UNCHANGED <<storeVars, clock, polls, envVars, history>>

\* run_once: a snapshot of the due feeds.
RunOnce ==
    /\ LoopFree
    /\ due = {} /\ polls = {}
    /\ DueFeeds(clock) # {}
    /\ due' = {[feed |-> f, url |-> feeds[f].url,
                next_poll_at |-> feed_state[f].next_poll_at] : f \in DueFeeds(clock)}
    /\ tick' = clock
    /\ UNCHANGED <<storeVars, clock, polls, envVars, history>>

\* A feed gets a slot of the semaphore, in the order of next_poll_at: poll_feed reads
\* its polling state and sends the request.
StartPoll(d) ==
    /\ LoopFree
    /\ Cardinality(polls) < MaxPolls
    /\ \A e \in due : d.next_poll_at <= e.next_poll_at
    /\ due' = due \ {d}
    /\ LET known == d.feed \in DOMAIN feed_state
           state == feed_state[d.feed]
       IN  polls' = polls \cup
             {[feed |-> d.feed, url |-> d.url, now |-> tick,
               cold_start |-> ~known \/ state.last_success_at = None,
               validator |-> IF known THEN state.validator ELSE None,
               failures |-> IF known THEN state.consecutive_failures ELSE 0,
               last_success_at |-> IF known THEN state.last_success_at ELSE None,
               stage |-> "fetching", body |-> NoBody, etag |-> None, inserted |-> {}]}
    /\ UNCHANGED <<storeVars, clock, tick, envVars, history>>

\* What ends a poll as a failure; delay is jittered already where the code does.
Fails(p, delay) ==
    /\ record_failure(p.feed, p.now + delay)
    /\ polls' = polls \ {p}
    /\ UNCHANGED <<clock, due, tick, envVars, history>>

\* The fetch failed: an error, a status of 400 or more, or the deadline.
FetchFails(p) ==
    /\ LoopFree
    /\ p.stage = "fetching"
    /\ \/ \E delay \in Jittered(next_interval(p.failures + 1, None)) : Fails(p, delay)
       \/ \E retry_after \in RetryAfters :
             Fails(p, next_interval(p.failures + 1, retry_after))

\* 304 to a request with the validator of the current body, or out of the blue to
\* one without: a failure if the feed has never been read, otherwise a success that
\* keeps the validator and touches no article.
NotModified(p) ==
    /\ LoopFree
    /\ p.stage = "fetching"
    /\ p.validator \in {None, listed[p.url]}
    /\ IF p.cold_start
       THEN \E delay \in Jittered(next_interval(p.failures + 1, None)) : Fails(p, delay)
       ELSE /\ \E delay \in Jittered(BaseInterval) :
                  record_success(p.feed, p.validator, p.now, p.now + delay)
            /\ polls' = polls \ {p}
            /\ UNCHANGED <<clock, due, tick, envVars, history>>

\* 200 with the body of that moment, with or without a validator; it goes to the
\* parser thread.
FetchOk(p) ==
    /\ LoopFree
    /\ p.stage = "fetching"
    /\ \E etag \in {None, listed[p.url]} :
          polls' = (polls \ {p}) \cup
             {[p EXCEPT !.stage = "parsing", !.body = listed[p.url], !.etag = etag]}
    /\ UNCHANGED <<storeVars, clock, due, tick, envVars, history>>

\* No usable entry in it.
ParsedEmpty(p) ==
    /\ LoopFree
    /\ p.stage = "parsing"
    /\ DOMAIN p.body = {}
    /\ \E delay \in Jittered(next_interval(p.failures + 1, None)) : Fails(p, delay)

\* insert_articles under the feed id the poll started with.
Insert(p) ==
    /\ LoopFree
    /\ p.stage = "parsing"
    /\ DOMAIN p.body # {}
    /\ insert_articles(p.feed, p.body, p.now)
    /\ polls' = (polls \ {p}) \cup
          {[p EXCEPT !.stage = "inserted", !.inserted = NewGuids(p.feed, p.body)]}
    /\ full' = [f \in DOMAIN full \cup {p.feed} |->
                   IF f = p.feed THEN [at |-> p.now, body |-> DOMAIN p.body] ELSE full[f]]
    /\ UNCHANGED <<clock, due, tick, envVars, handed>>

\* Mutant of PollRaises: nobody catches the exception, and the tick never ends.
PollHangs(p) ==
    /\ LoopFree
    /\ p.stage = "parsing"
    /\ UNCHANGED vars

\* poll_feed raises before it has written anything: in the parser, or in insert_articles,
\* as the foreign key makes it when the feed was deleted meanwhile.  run_once catches it.
PollRaises(p) ==
    /\ LoopFree
    /\ p.stage = "parsing"
    /\ polls' = polls \ {p}
    /\ UNCHANGED <<storeVars, clock, due, tick, envVars, history>>

\* Mutant of Batch: no cold start rule and no age guard.
BatchUnguarded(p) == p.inserted

\* The articles poll_feed returns for the live push.
Batch(p) ==
    IF p.cold_start
    THEN IF p.feed \in watched THEN p.inserted ELSE {}
    ELSE {g \in p.inserted : \/ p.body[g] = None
                             \/ p.body[g] + Grace >= p.last_success_at}

\* The articles of p that are handed to the broadcaster, now or before.
HandedBy(p) ==
    {k \in ({p.feed} \cap DOMAIN feeds) \X DOMAIN p.body :
        k[2] \in Batch(p) \/ k \in DOMAIN handed}

\* record_success, and in the same stretch the hand-over to the broadcaster.
Record(p) ==
    /\ p.stage = "inserted"
    /\ \E delay \in Jittered(BaseInterval) :
          record_success(p.feed, p.etag, p.now, p.now + delay)
    /\ polls' = polls \ {p}
    /\ handed' = [k \in DOMAIN handed \cup HandedBy(p) |->
                     IF k \in HandedBy(p) THEN p.now ELSE handed[k]]
    /\ UNCHANGED <<clock, due, tick, envVars, full>>

PollStep(p) ==
    \/ FetchFails(p)
    \/ NotModified(p)
    \/ FetchOk(p)
    \/ ParsedEmpty(p)
    \/ Insert(p)
    \/ PollRaises(p)
    \/ Record(p)

----------------------------------------------------------------------------
\* The sockets, the sweep, the servers and the process

\* The first socket names url: upsert_feed, and then set_feeds.
Join(url) ==
    /\ LoopFree
    /\ FeedByUrl(url) \cap watched = {}
    /\ \E id \in FeedIds : upsert_feed(url, clock, id) /\ joining' = id
    /\ UNCHANGED <<clock, pollVars, watched, listed, edits, restarts, history>>

Joined ==
    /\ joining # None
    /\ IF joining \in watched
       THEN UNCHANGED storeVars
       ELSE set_enabled(joining, TRUE)
    /\ watched' = watched \cup {joining}
    /\ joining' = None
    /\ UNCHANGED <<clock, pollVars, listed, edits, restarts, history>>

\* Mutant of Part: the broadcaster forgets to tell the store.
PartLeavesEnabled(f) ==
    /\ LoopFree
    /\ f \in watched
    /\ watched' = watched \ {f}
    /\ UNCHANGED <<storeVars, clock, pollVars, joining, listed, edits, restarts, history>>

\* The last socket that names f lets go of it.
Part(f) ==
    /\ LoopFree
    /\ f \in watched
    /\ set_enabled(f, FALSE)
    /\ watched' = watched \ {f}
    /\ UNCHANGED <<clock, pollVars, joining, listed, edits, restarts, history>>

\* The two halves of the sweep, each in a worker thread.
SweepArticles ==
    /\ sweep(clock, Retention)
    /\ UNCHANGED <<clock, pollVars, envVars, history>>

SweepFeeds ==
    /\ drop_disabled_feeds
    /\ full' = [f \in DOMAIN full \cap EnabledFeeds |-> full[f]]
    /\ handed' = [k \in {k \in DOMAIN handed : k[1] \in EnabledFeeds} |-> handed[k]]
    /\ UNCHANGED <<clock, pollVars, envVars>>

\* A publisher lists an article under any date, dates it anew, or takes it off its feed.
Edit(g) ==
    /\ edits < MaxEdits
    /\ edits' = edits + 1
    /\ LET url == Publisher[g]
           old == listed[url]
       IN  \/ \E date \in Dates[g] :
                 listed' = [listed EXCEPT ![url] =
                              [h \in DOMAIN old \cup {g} |-> IF h = g THEN date ELSE old[h]]]
           \/ /\ g \in DOMAIN old
              /\ listed' = [listed EXCEPT ![url] = [h \in DOMAIN old \ {g} |-> old[h]]]
    /\ UNCHANGED <<storeVars, clock, pollVars, watched, joining, restarts, history>>

\* Time passes, but a tick does not last for ever: its fetches have a deadline.
Tick ==
    /\ clock < MaxTime
    /\ due \cup polls # {} => clock < tick + MaxTickTime
    /\ clock' = clock + 1
    /\ UNCHANGED <<storeVars, pollVars, envVars, history>>

\* The process dies and starts again: the polls are lost and no feed is enabled.
Restart ==
    /\ restarts < MaxRestarts
    /\ restarts' = restarts + 1
    /\ disable_all_feeds
    /\ due' = {}
    /\ polls' = {}
    /\ watched' = {}
    /\ joining' = None
    /\ UNCHANGED <<clock, tick, listed, edits, history>>

Next ==
    \/ RunOnce
    \/ \E d \in due : StartPoll(d)
    \/ \E p \in polls : PollStep(p)
    \/ \E url \in Urls : Join(url)
    \/ Joined
    \/ \E f \in watched : Part(f)
    \/ SweepArticles
    \/ SweepFeeds
    \/ \E g \in Guids : Edit(g)
    \/ Tick
    \/ Restart

\* run_forever ticks again and again, the semaphore is first come first served, and
\* a fetch ends by its total deadline, so no poll stays in flight.
Fairness ==
    /\ SF_vars(RunOnce)
    /\ SF_vars(\E d \in due : StartPoll(d))
    /\ SF_vars(\E p \in polls : PollStep(p))
    /\ WF_vars(Joined)

Spec == Init /\ [][Next]_vars
FairSpec == Spec /\ Fairness

----------------------------------------------------------------------------
\* Properties

\* No feed id is polled twice at the same time (run_forever awaits run_once, and
\* due_feeds names a feed once), although rowids are used again meanwhile.
OnePollPerFeed == \A p, q \in polls : p.feed = q.feed => p = q

\* A result is never recorded over a later one: the time of the last success of a
\* feed that stays in the pool only moves forward (run_once, the barrier of gather).
SuccessMovesForward ==
    [][\A f \in DOMAIN feed_state \cap DOMAIN feed_state' :
          feed_state[f].last_success_at # None =>
              /\ feed_state'[f].last_success_at # None
              /\ feed_state'[f].last_success_at >= feed_state[f].last_success_at]_vars

\* What the last full response of a feed listed stays in the store for the whole
\* retention after it, whatever was stored before (insert_articles, the separate
\* last_seen_at update; sweep).
FullResponseKept ==
    \A f \in DOMAIN full : \A g \in full[f].body :
        <<f, g>> \in DOMAIN articles \/ clock > full[f].at + Retention

\* How far the date of an article lies after the time its feed last listed it: 0 unless
\* it was dated in the future, or has been given a later date since.
Lead(date, seen) == Larger(date, seen) - seen

\* An article that has been handed to the sockets and comes with a date is not handed to
\* them again as long as its feed is read regularly and does not date it ahead.  It must
\* have been swept, the retention after its feed last listed it (or a tick less, if the
\* tick began before the sweep), and the age guard lets it pass only if the feed has not
\* been read for that long, less the grace and less what its date is ahead (poll_feed,
\* cutoff).
RepeatNeedsOutage ==
    \A p \in polls : p.stage = "inserted" =>
        \A g \in Batch(p) : <<p.feed, g>> \in DOMAIN handed /\ p.body[g] # None =>
            (p.now - p.last_success_at) + Lead(p.body[g], handed[<<p.feed, g>>])
                + Grace + MaxTickTime > Retention

\* "items still present in the feed keep their retention clock alive"
\* (store.py:438): an article the feed listed at its last successful poll, whose ETag
\* the store still holds, is not swept before the retention has passed since then.
ListedIsKept ==
    [][\A k \in DOMAIN articles \ DOMAIN articles' :
          k[1] \in DOMAIN feeds' =>
              LET state == feed_state[k[1]]
              IN  state.validator # None =>
                      ~(/\ k[2] \in DOMAIN state.validator
                        /\ clock <= state.last_success_at + Retention)]_vars

\* Articles are stored under the feed they were fetched from (README, the feed_id by
\* which a client maps stream items back to its feeds).
StoredUnderOwnFeed ==
    \A k \in DOMAIN articles : feeds[k[1]].url = Publisher[k[2]]

\* A feed nobody subscribes to is in no tick that begins after its last socket parted,
\* whatever was swept, recreated under its rowid or left behind by a crash ("a feed at
\* zero subscribers stops polling at once", README.md:70-71; but the tick under way goes
\* on with it).
StopsWithinTick == [][\A d \in due' \ due : d.feed \in watched]_vars

\* What a server asked for, or a backoff, is not cut short while the row of the feed
\* stays: no subscription, crash, answer to an earlier poll or reuse of a rowid makes a
\* feed due earlier that is not due yet (upsert_feed, ON CONFLICT DO NOTHING).
NeverBroughtForward ==
    [][\A f \in DOMAIN feed_state \cap DOMAIN feed_state' :
          clock < feed_state[f].next_poll_at =>
              feed_state'[f].next_poll_at >= feed_state[f].next_poll_at]_vars

\* An enabled feed whose time has come is polled or stops being due.
IsDue(f) == f \in DueFeeds(clock)
DueIsPolled ==
    \A f \in FeedIds : IsDue(f) ~> (~IsDue(f) \/ \E p \in polls : p.feed = f)
=============================================================================
