------------------------------- MODULE Favicons -------------------------------
(***************************************************************************)
(* The icons of the feeds: the startup pass over every row and the tasks a *)
(* subscribe frame starts for the feeds it adds (favicon.py, and           *)
(* resolve_subscription and on_feed_added, which decide who is asked for), *)
(* beside frames, unsubscriptions, the sweep and restarts.                 *)
(*                                                                         *)
(* All of it but the sweep runs on the event loop.  A frame makes several  *)
(* store calls without an await, so `frame` holds the loop and the sweep   *)
(* alone comes between its calls; a task gives the loop up for each fetch, *)
(* and what it does with the answer, store call included, is one action.   *)
(* The icon a site serves is named after the feed URL it was found for.    *)
(***************************************************************************)
EXTENDS Store

CONSTANTS
    Frames,      \* the subscribe frames clients may send, as sequences of URLs
    KnownHosts,  \* the URLs whose host has an icon URL of its own in _KNOWN_ICON_URLS
    Concurrency, \* config.max_concurrent_polls
    MaxAdded,    \* bound: tasks started by frames and not ended
    MaxRestarts  \* bound: how often the process may crash and start again

ASSUME FramesAssumption == Frames \subseteq Seq(Urls)
ASSUME ConcurrencyAssumption == Concurrency \in Nat \ {0}
ASSUME MaxAddedAssumption == MaxAdded \in Nat
ASSUME MaxRestartsAssumption == MaxRestarts \in Nat

VARIABLES
    favicon,  \* column favicon of table feeds: feed id -> icon
    tasks,    \* the asyncio tasks: the startup pass has feed ids as keys
    slots,    \* the free slots of the semaphore of the startup pass
    frame,    \* the frame that holds the event loop across store calls
    restarts, \* restarts so far
    missed,   \* history: the rows this process added and started no task for, but for
              \* those added by a frame that a sweep or an exception came in the middle of
    owners    \* history: the URLs whose row ever had a rowid

historyVars == <<restarts, missed, owners>>
vars == <<storeVars, favicon, tasks, slots, frame, historyVars>>

\* queued behind the semaphore, or waiting for the answer of one of the fetches of
\* resolve_favicon.
Stages == {"queued", "known", "ico", "home", "link"}

TaskKeys == 1 .. MaxFeedId + MaxAdded
Startup(k) == k <= MaxFeedId
Queued == {k \in DOMAIN tasks : tasks[k].stage = "queued"}

\* A frame in resolve_subscription or, with no entry left, in set_feeds.  found says
\* whether feed_by_url returned a row, id what upsert_feed returned.
NoFrame == [at |-> "none", entries |-> <<>>, ids |-> {}, found |-> FALSE, id |-> 0,
            swept |-> FALSE]
LoopIdle == frame.at = "none"

TypeOK ==
    /\ StoreTypeOK
    /\ favicon \in [DOMAIN feeds -> Urls \cup {None}]
    /\ DOMAIN tasks \subseteq TaskKeys
    /\ tasks \in [DOMAIN tasks -> [feed : FeedIds, url : Urls, stage : Stages]]
    /\ slots \in 0 .. Concurrency
    /\ frame.at \in {"none", "look", "upsert", "get", "name"}
    /\ frame.ids \subseteq FeedIds /\ frame.id \in FeedIds \cup {0}
    /\ frame.entries \in Seq(Urls)
    /\ missed \subseteq DOMAIN feeds
    /\ owners \in [FeedIds -> SUBSET Urls]

Init ==
    /\ EmptyStore
    /\ favicon = <<>>
    /\ tasks = <<>>
    /\ slots = Concurrency
    /\ frame = NoFrame
    /\ restarts = 0
    /\ missed = {}
    /\ owners = [f \in FeedIds |-> {}]

\* The column goes where its row goes, and starts as NULL.
ColumnFollows ==
    favicon' = [f \in DOMAIN feeds' |-> IF f \in DOMAIN feeds THEN favicon[f] ELSE None]

\* set_feed_favicon: an UPDATE by id.
set_feed_favicon(f, icon) ==
    /\ favicon' = [g \in DOMAIN feeds |-> IF g = f THEN icon ELSE favicon[g]]
    /\ UNCHANGED storeVars

----------------------------------------------------------------------------
\* resolve_subscription

\* The rowids and the tasks that n new rows beside `rows` take are within the bounds.
RoomFor(rows, n) ==
    \/ n = 0
    \/ /\ \A f \in rows \cup {0} : f + n <= MaxFeedId
       /\ n <= MaxAdded - Cardinality({k \in DOMAIN tasks : ~Startup(k)})

ReceiveFrame(entries) ==
    /\ LoopIdle
    /\ entries # <<>>
    /\ RoomFor(DOMAIN feeds, Cardinality({i \in DOMAIN entries : FeedByUrl(entries[i]) = {}}))
    /\ frame' = [NoFrame EXCEPT !.at = "look", !.entries = entries]
    /\ UNCHANGED <<storeVars, favicon, tasks, slots, historyVars>>

Look ==
    /\ frame.at = "look"
    /\ frame' = [frame EXCEPT !.at = "upsert", !.found = FeedByUrl(Head(frame.entries)) # {}]
    /\ UNCHANGED <<storeVars, favicon, tasks, slots, historyVars>>

\* The next entry, or set_feeds after the last.
NextEntry(fr) ==
    [fr EXCEPT !.entries = Tail(@), !.found = FALSE, !.id = 0,
               !.at = IF Tail(fr.entries) = <<>> THEN "name" ELSE "look"]

\* A feed id that an earlier entry of the frame returned is passed over.
Upsert ==
    /\ frame.at = "upsert"
    /\ \E id \in FeedIds :
          /\ upsert_feed(Head(frame.entries), 0, id)
          /\ frame' = IF id \in frame.ids THEN NextEntry(frame)
                      ELSE [frame EXCEPT !.at = "get", !.id = id, !.ids = @ \cup {id}]
          /\ owners' = [owners EXCEPT ![id] = @ \cup {Head(frame.entries)}]
    /\ ColumnFollows
    /\ missed' = missed \cup (DOMAIN feeds' \ DOMAIN feeds)
    /\ UNCHANGED <<tasks, slots, restarts>>

\* A task that does not wait for the semaphore asks for the icon of its host first.
FirstStage(url) == IF url \in KnownHosts THEN "known" ELSE "ico"

\* get_feed, and on_feed_added for a feed that feed_by_url did not find.  The row may
\* be gone: then there is nothing to report.
Get ==
    /\ frame.at = "get"
    /\ frame' = NextEntry(frame)
    /\ IF frame.id \in DOMAIN feeds /\ ~frame.found
       THEN /\ missed' = missed \ {frame.id}
            /\ \E k \in TaskKeys \ DOMAIN tasks :
                  /\ ~Startup(k) /\ \A j \in TaskKeys \ DOMAIN tasks : Startup(j) \/ k <= j
                  /\ tasks' = [j \in DOMAIN tasks \cup {k} |->
                                  IF j = k THEN [feed |-> frame.id, url |-> feeds[frame.id].url,
                                                 stage |-> FirstStage(feeds[frame.id].url)]
                                  ELSE tasks[j]]
       ELSE UNCHANGED <<missed, tasks>>
    /\ UNCHANGED <<storeVars, favicon, slots, restarts, owners>>

\* set_feeds enables the feeds of the frame one by one, and the handler goes on.
Name(f) ==
    /\ frame.at = "name"
    /\ f \in frame.ids
    /\ set_enabled(f, TRUE)
    /\ frame' = IF frame.ids = {f} THEN NoFrame ELSE [frame EXCEPT !.ids = @ \ {f}]
    /\ missed' = IF frame.swept THEN missed \ {f} ELSE missed
    /\ UNCHANGED <<favicon, tasks, slots, restarts, owners>>

\* A store call of the frame raises, which ends the handler: what it has added stays.
FrameRaises ==
    /\ ~LoopIdle
    /\ frame' = NoFrame
    /\ missed' = missed \ frame.ids
    /\ UNCHANGED <<storeVars, favicon, tasks, slots, restarts, owners>>

FrameStep == Look \/ Upsert \/ Get \/ \E f \in FeedIds : Name(f)

----------------------------------------------------------------------------
\* resolve_and_store and refresh_favicons

\* Mutant of Ends: every task gives a slot back, those of the frames too.
EndsAlwaysReleases(k) ==
    /\ tasks' = [j \in DOMAIN tasks \ {k} |-> tasks[j]]
    /\ slots' = slots + 1

\* The task is over, and leaves the semaphore if it held it.
Ends(k) ==
    /\ tasks' = [j \in DOMAIN tasks \ {k} |-> tasks[j]]
    /\ slots' = IF Startup(k) THEN slots + 1 ELSE slots

Goes(k, stage) == tasks' = [tasks EXCEPT ![k].stage = stage] /\ UNCHANGED slots

\* The semaphore lets the tasks of the startup pass in, in the order of their rows.
Begin(k) ==
    /\ LoopIdle
    /\ k \in Queued /\ \A j \in Queued : k <= j
    /\ slots > 0
    /\ tasks' = [tasks EXCEPT ![k].stage = FirstStage(tasks[k].url)]
    /\ slots' = slots - 1
    /\ UNCHANGED <<storeVars, favicon, frame, historyVars>>

\* An icon arrives, and is stored under the feed id the task was started with.
Resolved(k) ==
    /\ LoopIdle
    /\ tasks[k].stage \in {"known", "ico", "link"}
    /\ set_feed_favicon(tasks[k].feed, tasks[k].url)
    /\ Ends(k)
    /\ UNCHANGED <<frame, historyVars>>

\* Something else than an icon arrives: the next place is tried, and for the homepage
\* the icon it links to.
NotAnIcon(k) ==
    /\ LoopIdle
    /\ \/ tasks[k].stage = "known" /\ Goes(k, "ico")
       \/ tasks[k].stage = "ico" /\ Goes(k, "home")
       \/ tasks[k].stage = "home" /\ (Goes(k, "link") \/ Ends(k))
       \/ tasks[k].stage = "link" /\ Ends(k)
    /\ UNCHANGED <<storeVars, favicon, frame, historyVars>>

\* Mutants of Fails: it wipes the icon of the feed, or keeps the slot.
FailsWipes(k) ==
    /\ LoopIdle
    /\ k \notin Queued
    /\ set_feed_favicon(tasks[k].feed, None)
    /\ Ends(k)
    /\ UNCHANGED <<frame, historyVars>>

FailsKeepsSlot(k) ==
    /\ LoopIdle
    /\ k \notin Queued
    /\ tasks' = [j \in DOMAIN tasks \ {k} |-> tasks[j]]
    /\ UNCHANGED <<storeVars, favicon, slots, frame, historyVars>>

\* A fetch raises, the deadline of the whole resolution passes, or the store raises.
Fails(k) ==
    /\ LoopIdle
    /\ k \notin Queued
    /\ Ends(k)
    /\ UNCHANGED <<storeVars, favicon, frame, historyVars>>

----------------------------------------------------------------------------
\* The last subscriber of f leaves.
Part(f) ==
    /\ LoopIdle
    /\ f \in EnabledFeeds
    /\ set_enabled(f, FALSE)
    /\ UNCHANGED <<favicon, tasks, slots, frame, historyVars>>

\* The hourly sweep, in a thread of its own.
Sweep ==
    /\ RoomFor(EnabledFeeds, Len(frame.entries))
    /\ drop_disabled_feeds
    /\ ColumnFollows
    /\ frame' = IF LoopIdle THEN frame
                ELSE [frame EXCEPT !.swept = @ \/ EnabledFeeds # DOMAIN feeds]
    /\ missed' = missed \cap EnabledFeeds
    /\ UNCHANGED <<tasks, slots, restarts, owners>>

\* Mutant of StartupTasks: the tasks close over a loop variable, and each stores what
\* the last feed has.
StartupTasksShareOne ==
    LET last == CHOOSE f \in DOMAIN feeds : \A g \in DOMAIN feeds : g <= f
    IN  [f \in DOMAIN feeds |-> [feed |-> f, url |-> feeds[last].url, stage |-> "queued"]]

\* Another: only the rows that have no icon are asked for.
StartupTasksForMissing ==
    [f \in {g \in DOMAIN feeds : favicon[g] = None} |->
        [feed |-> f, url |-> feeds[f].url, stage |-> "queued"]]

\* One task for each row that all_feeds returns.
StartupTasks ==
    [f \in DOMAIN feeds |-> [feed |-> f, url |-> feeds[f].url, stage |-> "queued"]]

\* The process dies and starts again.  Its tasks are gone, every feed is disabled, and
\* the startup pass reads the rows before the first connection is accepted.
Restart ==
    /\ restarts < MaxRestarts
    /\ restarts' = restarts + 1
    /\ disable_all_feeds
    /\ missed' = DOMAIN feeds \ DOMAIN StartupTasks
    /\ tasks' = StartupTasks
    /\ slots' = Concurrency
    /\ frame' = NoFrame
    /\ UNCHANGED <<favicon, owners>>

TaskStep(k) == Begin(k) \/ Resolved(k) \/ NotAnIcon(k) \/ Fails(k)

Next ==
    \/ \E entries \in Frames : ReceiveFrame(entries)
    \/ FrameStep
    \/ FrameRaises
    \/ \E k \in DOMAIN tasks : TaskStep(k)
    \/ \E f \in FeedIds : Part(f)
    \/ Sweep
    \/ Restart

Spec == Init /\ [][Next]_vars

\* A frame's code goes on; the semaphore hands its slots on; and a resolution ends, if
\* only by its deadline (asyncio.timeout), whenever the loop is often enough idle.
Fairness ==
    /\ WF_vars(FrameStep)
    /\ SF_vars(\E k \in DOMAIN tasks : Begin(k))
    /\ \A f \in FeedIds : SF_vars(f \in DOMAIN tasks /\ Fails(f))

FairSpec == Spec /\ Fairness

----------------------------------------------------------------------------
\* Properties

\* "Never wipes a known icon on failure" (favicon.py, resolve_and_store): a row keeps
\* having an icon once it has one, through every order of two tasks for one feed,
\* a restart in the middle of the pass, and a frame that names the feed again.
KnownIconKept ==
    [][\A f \in DOMAIN feeds \cap DOMAIN feeds' : favicon[f] # None => favicon'[f] # None]_vars

\* An icon may be stored after its row was swept and its rowid given to another feed
\* (resolve_and_store updates by id): still a row never shows the icon of a feed
\* that did not have that very rowid before it.
IconOfAnOwner ==
    \A f \in DOMAIN feeds : favicon[f] # None => favicon[f] \in owners[f]

\* Every row of the pool is asked for its icon by the process that serves it: the rows
\* it found by the startup pass, with an icon or without, and the rows added since
\* by the frame that added them (refresh_favicons, resolve_subscription).  Only when
\* a sweep came in the middle of that frame, or a store call of it raised, may a row
\* have been missed.
EveryRowAsked == LoopIdle => missed = {}

\* Every task of the startup pass ends, although they share a few slots and a site may
\* never answer (refresh_favicons: one bad feed never holds up the others).
PassEnds == \A f \in FeedIds : f \in DOMAIN tasks ~> f \notin DOMAIN tasks
===============================================================================
