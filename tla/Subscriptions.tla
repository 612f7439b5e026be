---------------------------- MODULE Subscriptions ----------------------------
(***************************************************************************)
(* Who is subscribed to what: the /ws/news handlers (api.py, ws_news), the *)
(* reference counts of Broadcaster (broadcast.py), the `enabled` column    *)
(* they drive in the Store, and the hourly sweep that deletes disabled     *)
(* feeds (main.py, sweeper).                                               *)
(*                                                                         *)
(* Everything here but the sweep runs on one asyncio event loop, which     *)
(* changes hands only at an await.  A stretch of code between two awaits   *)
(* that makes no store call is one action.  A stretch that makes several   *)
(* (a subscribe frame, an unsubscribe, the drops of one publish) holds the *)
(* loop: `loop` says how far it has come, and each of its store calls is   *)
(* one action, apart from the change of a count before it.  Only the sweep,*)
(* which runs in a thread of its own, can come in between.                 *)
(*                                                                         *)
(* A member of Sockets is one connection, hence one Subscription object:   *)
(* a client that reconnects is another member.  How full a queue is is not *)
(* kept: a batch larger than MAX_QUEUE overflows even an empty queue, so a *)
(* publish may overflow any registered subscription.                       *)
(***************************************************************************)
EXTENDS Store

CONSTANTS
    Sockets,     \* the connections of a run
    Frames,      \* the subscribe frames a client may send, as sequences of URLs
    MaxRestarts, \* bound: how often the process may crash and start again
    MaxFaults    \* bound: how often a call of the store may raise

ASSUME SocketsAssumption == IsFiniteSet(Sockets) /\ None \notin Sockets
ASSUME FramesAssumption == Frames \subseteq Seq(Urls)
ASSUME MaxRestartsAssumption == MaxRestarts \in Nat
ASSUME MaxFaultsAssumption == MaxFaults \in Nat

VARIABLES
    subs,      \* Broadcaster._subs
    counts,    \* Broadcaster._counts; a missing key is 0
    feed_ids,  \* Subscription.feed_ids
    closed,    \* Subscription.closed is set
    pc,        \* where each handler is
    loop,      \* the code that holds the event loop across store calls
    restarts,  \* restarts so far
    faults,    \* calls of the store that raised so far
    tainted    \* history: the feeds one of them left wrong since the process started

subVars == <<subs, counts, feed_ids, closed>>
runVars == <<restarts, faults, tainted>>
vars == <<storeVars, subVars, pc, loop, runVars>>

\* pc[s]: "new" before the connection, "wait" in asyncio.wait, "woken" once the
\* wait has completed for the receiver or the sender but the handler has not run
\* again, "sending" in send_json, "closing" in websocket.close, "gone" at the end.
HandlerStates == {"new", "wait", "woken", "sending", "closing", "gone"}

\* The loop is held by `caller` on behalf of the subscription sock.  entries are
\* the entries of its frame still to upsert, ids the new feed set as far as known,
\* counted the feeds of sock the counts include right now, pending the feed whose
\* count has just become 1 or 0 and whose set_enabled is still to come, and drops the
\* other subscriptions the same publish has to unsubscribe.
Callers == {"nobody", "frame", "finally", "publish"}

LoopStates == [caller : Callers, sock : Sockets \cup {None}, entries : Seq(Urls),
               ids : SUBSET FeedIds, counted : SUBSET FeedIds,
               pending : SUBSET FeedIds, drops : SUBSET Sockets]

Idle == [caller |-> "nobody", sock |-> None, entries |-> <<>>,
         ids |-> {}, counted |-> {}, pending |-> {}, drops |-> {}]

\* unsubscribe(s) is set_feeds(s, set()) followed by the removal from _subs.
Unsubscribing(s, caller, drops) ==
    [caller |-> caller, sock |-> s, entries |-> <<>>,
     ids |-> {}, counted |-> feed_ids[s], pending |-> {}, drops |-> drops]

LoopIdle == loop.caller = "nobody"
Resolving == ~LoopIdle /\ loop.entries # <<>>
InSetFeeds == ~LoopIdle /\ loop.entries = <<>>

TypeOK ==
    /\ StoreTypeOK
    /\ subs \subseteq Sockets
    /\ counts \in [FeedIds -> Nat]
    /\ feed_ids \in [Sockets -> SUBSET FeedIds]
    /\ closed \in [Sockets -> BOOLEAN]
    /\ pc \in [Sockets -> HandlerStates]
    /\ loop \in LoopStates
    /\ LoopIdle \/ loop.sock \in Sockets
    /\ restarts \in Nat
    /\ faults \in Nat
    /\ tainted \subseteq FeedIds

Init ==
    /\ EmptyStore
    /\ subs = {}
    /\ counts = [f \in FeedIds |-> 0]
    /\ feed_ids = [s \in Sockets |-> {}]
    /\ closed = [s \in Sockets |-> FALSE]
    /\ pc = [s \in Sockets |-> "new"]
    /\ loop = Idle
    /\ restarts = 0
    /\ faults = 0
    /\ tainted = {}

----------------------------------------------------------------------------
\* The handler of one connection

Moves(s, from, to) == pc[s] = from /\ pc' = [pc EXCEPT ![s] = to]

\* accept, subscribe, and the first asyncio.wait.
Connect(s) ==
    /\ LoopIdle
    /\ Moves(s, "new", "wait")
    /\ subs' = subs \cup {s}
    /\ UNCHANGED <<storeVars, counts, feed_ids, closed, loop, runVars>>

\* The receiver or the sender completes and the handler is scheduled to run.  If
\* the queue overflowed before that, the closer completes first: see Overflowed.
Wake(s) ==
    /\ LoopIdle
    /\ ~closed[s]
    /\ Moves(s, "wait", "woken")
    /\ UNCHANGED <<storeVars, subVars, loop, runVars>>

\* The closer is in `done`: close with 1013.
Overflowed(s) ==
    /\ LoopIdle
    /\ closed[s]
    /\ Moves(s, "wait", "closing")
    /\ UNCHANGED <<storeVars, subVars, loop, runVars>>

\* The finally clause.  unsubscribe does nothing when s is not registered.
Leave(s) ==
    /\ LoopIdle
    /\ pc' = [pc EXCEPT ![s] = "gone"]
    /\ loop' = IF s \in subs THEN Unsubscribing(s, "finally", {}) ELSE Idle
    /\ UNCHANGED <<storeVars, subVars, runVars>>

\* The receiver delivered websocket.disconnect.
Disconnect(s) == pc[s] = "woken" /\ Leave(s)

\* It delivered something parse_subscribe refuses: close with 4400.
BadFrame(s) ==
    /\ LoopIdle
    /\ Moves(s, "woken", "closing")
    /\ UNCHANGED <<storeVars, subVars, loop, runVars>>

\* The rowids a frame may need are within the bound.
RoomFor(frame) == \A f \in DOMAIN feeds \cup {0} : f + Len(frame) <= MaxFeedId

\* It delivered a subscribe frame.  The handler looks at the closer only when it
\* waits again, so this happens even when the queue overflowed since Wake.
ReceiveFrame(s, frame) ==
    /\ LoopIdle
    /\ pc[s] = "woken"
    /\ RoomFor(frame)
    /\ loop' = [caller |-> "frame", sock |-> s, entries |-> frame,
                ids |-> {}, counted |-> feed_ids[s], pending |-> {}, drops |-> {}]
    /\ UNCHANGED <<storeVars, subVars, pc, runVars>>

\* The sender delivered an article: send it.
Deliver(s) ==
    /\ LoopIdle
    /\ Moves(s, "woken", "sending")
    /\ UNCHANGED <<storeVars, subVars, loop, runVars>>

\* send_json returns, and the handler waits again.
Sent(s) ==
    /\ LoopIdle
    /\ Moves(s, "sending", "wait")
    /\ UNCHANGED <<storeVars, subVars, loop, runVars>>

\* send_json raises: the client went away, or did not answer a ping in time.
SendFails(s) == pc[s] = "sending" /\ Leave(s)

\* Mutant of Closed: the handler does not break out of its loop after the close.
ClosedWaitsAgain(s) ==
    /\ LoopIdle
    /\ Moves(s, "closing", "wait")
    /\ UNCHANGED <<storeVars, subVars, loop, runVars>>

\* websocket.close returns or raises.
Closed(s) == pc[s] = "closing" /\ Leave(s)

----------------------------------------------------------------------------
\* resolve_subscription and Broadcaster.set_feeds, one store call at a time

\* upsert_feed for the next entry of the frame.  The reads around it (feed_by_url,
\* get_feed) decide what the reply says and which favicons are fetched.
UpsertEntry ==
    /\ Resolving
    /\ \E id \in FeedIds :
          /\ upsert_feed(Head(loop.entries), 0, id)
          /\ loop' = [loop EXCEPT !.entries = Tail(@), !.ids = @ \cup {id}]
    /\ UNCHANGED <<subVars, pc, runVars>>

\* set_feeds is between two feeds: nothing is left to do about the last one.
Counting == InSetFeeds /\ loop.pending = {}

\* Mutant of AddFeed: it relies on the enabled = 1 of upsert_feed.
AddWithoutEnable(f) ==
    /\ Counting
    /\ f \in loop.ids \ loop.counted
    /\ counts' = [counts EXCEPT ![f] = @ + 1]
    /\ loop' = [loop EXCEPT !.counted = @ \cup {f}]
    /\ UNCHANGED <<storeVars, subs, feed_ids, closed, pc, runVars>>

\* A feed of the new set that sock did not name is counted.  The first to name it
\* goes on to enable it: that is a call of the store, and the sweep may come first.
AddFeed(f) ==
    /\ Counting
    /\ f \in loop.ids \ loop.counted
    /\ counts' = [counts EXCEPT ![f] = @ + 1]
    /\ loop' = [loop EXCEPT !.counted = @ \cup {f},
                            !.pending = IF counts'[f] = 1 THEN {f} ELSE {}]
    /\ UNCHANGED <<storeVars, subs, feed_ids, closed, pc, runVars>>

\* Mutants of RemoveFeed: it disables a feed others still name, or none at all.
RemoveAlwaysDisables(f) ==
    /\ Counting
    /\ loop.ids \subseteq loop.counted
    /\ f \in loop.counted \ loop.ids
    /\ counts' = [counts EXCEPT ![f] = IF @ <= 1 THEN 0 ELSE @ - 1]
    /\ loop' = [loop EXCEPT !.counted = @ \ {f}, !.pending = {f}]
    /\ UNCHANGED <<storeVars, subs, feed_ids, closed, pc, runVars>>

RemoveNeverDisables(f) ==
    /\ Counting
    /\ loop.ids \subseteq loop.counted
    /\ f \in loop.counted \ loop.ids
    /\ counts' = [counts EXCEPT ![f] = IF @ <= 1 THEN 0 ELSE @ - 1]
    /\ loop' = [loop EXCEPT !.counted = @ \ {f}]
    /\ UNCHANGED <<storeVars, subs, feed_ids, closed, pc, runVars>>

\* Then the feeds it no longer names: the last to leave one goes on to disable it.
RemoveFeed(f) ==
    /\ Counting
    /\ loop.ids \subseteq loop.counted
    /\ f \in loop.counted \ loop.ids
    /\ counts' = [counts EXCEPT ![f] = IF @ <= 1 THEN 0 ELSE @ - 1]
    /\ loop' = [loop EXCEPT !.counted = @ \ {f},
                            !.pending = IF counts[f] <= 1 THEN {f} ELSE {}]
    /\ UNCHANGED <<storeVars, subs, feed_ids, closed, pc, runVars>>

\* The set_enabled of that feed: TRUE for one just counted, FALSE for one given up.
Switch(f) ==
    \/ f \in loop.counted /\ set_enabled(f, TRUE)
    \/ f \notin loop.counted /\ set_enabled(f, FALSE)

SwitchFeed(f) ==
    /\ InSetFeeds
    /\ loop.pending = {f}
    /\ Switch(f)
    /\ loop' = [loop EXCEPT !.pending = {}]
    /\ UNCHANGED <<subVars, pc, runVars>>

\* Mutant of SetFeedsReturns: unsubscribe does not empty feed_ids, so that the
\* second unsubscribe of a dropped subscription counts down again.
SetFeedsForgets ==
    /\ Counting
    /\ loop.counted = loop.ids
    /\ feed_ids' = IF loop.caller = "frame"
                   THEN [feed_ids EXCEPT ![loop.sock] = loop.ids] ELSE feed_ids

SetFeedsReturns ==
    /\ Counting
    /\ loop.counted = loop.ids
    /\ feed_ids' = [feed_ids EXCEPT ![loop.sock] = loop.ids]

\* ws_news goes on to send the reply.
FrameDone ==
    /\ SetFeedsReturns
    /\ loop.caller = "frame"
    /\ pc' = [pc EXCEPT ![loop.sock] = "sending"]
    /\ loop' = Idle
    /\ UNCHANGED <<storeVars, subs, counts, closed, runVars>>

\* unsubscribe removes the subscription; a publish then turns to the next queue
\* that overflows.
UnsubscribeDone ==
    /\ SetFeedsReturns
    /\ loop.caller \in {"finally", "publish"}
    /\ subs' = subs \ {loop.sock}
    /\ IF loop.drops = {}
       THEN loop' = Idle
       ELSE \E s \in loop.drops : loop' = Unsubscribing(s, "publish", loop.drops \ {s})
    /\ UNCHANGED <<storeVars, counts, closed, pc, runVars>>

----------------------------------------------------------------------------
\* A call of the store raises (the disk is full, another process holds the file), at
\* once or at its commit, when its change stays in the connection's transaction and
\* the next commit of any method completes it.

\* What set_feeds leaves wrong when it ends early: feeds counted and not named, named
\* and no longer counted, or inserted enabled and never to be counted.
Damage ==
    LET named == feed_ids[loop.sock]
    IN  (loop.ids \cup loop.counted \cup named) \ (loop.counted \cap named)

\* Mutant of CallRaises: set_feeds is assumed to undo what it has counted.
CallRaisesHarmless(about) ==
    /\ faults < MaxFaults
    /\ faults' = faults + 1
    /\ loop.drops = {}
    /\ IF loop.caller = "frame"
       THEN /\ pc' = [pc EXCEPT ![loop.sock] = "gone"]
            /\ loop' = IF loop.sock \in subs
                       THEN Unsubscribing(loop.sock, "finally", {}) ELSE Idle
       ELSE loop' = Idle /\ UNCHANGED pc
    /\ UNCHANGED <<subs, feed_ids, closed, restarts, tainted>>

\* A frame's handler logs the exception and goes through its finally clause; an
\* unsubscribe and a publish end where they are, with the subscription registered.
\* A publish that fails turns to no further queue, so its last drop stands for it.
\* `about` is the feed of the call, if any was touched.
CallRaises(about) ==
    /\ faults < MaxFaults
    /\ faults' = faults + 1
    /\ loop.drops = {}
    /\ tainted' = tainted \cup Damage \cup about
    /\ IF loop.caller = "frame"
       THEN /\ pc' = [pc EXCEPT ![loop.sock] = "gone"]
            /\ loop' = IF loop.sock \in subs
                       THEN Unsubscribing(loop.sock, "finally", {}) ELSE Idle
       ELSE loop' = Idle /\ UNCHANGED pc
    /\ UNCHANGED <<subs, feed_ids, closed, restarts>>

UpsertRaises ==
    /\ Resolving
    /\ \/ UNCHANGED storeVars /\ CallRaises({})
       \/ \E id \in FeedIds : /\ upsert_feed(Head(loop.entries), 0, id)
                              /\ CallRaises({id})
    /\ UNCHANGED counts

\* The count has been changed, sub.feed_ids will not be.
SwitchRaises(f) ==
    /\ InSetFeeds
    /\ loop.pending = {f}
    /\ Switch(f) \/ UNCHANGED storeVars
    /\ CallRaises({f})
    /\ UNCHANGED counts

StoreRaises == UpsertRaises \/ \E f \in FeedIds : SwitchRaises(f)

----------------------------------------------------------------------------
\* The poller's publish, the sweep, and the process

\* publish puts a batch on every queue.  The queues of `full` overflow: their
\* closers are set and they are unsubscribed.
Publish(full) ==
    /\ LoopIdle
    /\ full # {}
    /\ \E s \in full : loop' = Unsubscribing(s, "publish", full \ {s})
    /\ closed' = [s \in Sockets |-> closed[s] \/ s \in full]
    /\ UNCHANGED <<storeVars, subs, counts, feed_ids, pc, runVars>>

\* The second half of the hourly sweep, in a worker thread: it waits for no await.
Sweep ==
    /\ drop_disabled_feeds
    /\ UNCHANGED <<subVars, pc, loop, runVars>>

\* Mutant of Restart: build() leaves the feeds as the last process left them.
RestartStillEnabled ==
    /\ restarts < MaxRestarts
    /\ restarts' = restarts + 1
    /\ UNCHANGED storeVars
    /\ subs' = {}
    /\ counts' = [f \in FeedIds |-> 0]
    /\ feed_ids' = [s \in Sockets |-> {}]
    /\ closed' = [s \in Sockets |-> FALSE]
    /\ pc' = [s \in Sockets |-> "new"]
    /\ loop' = Idle
    /\ tainted' = {}
    /\ UNCHANGED faults

\* The process dies between any two steps and starts again: the store is what it
\* was, build() disables every feed, and every connection is lost.
Restart ==
    /\ restarts < MaxRestarts
    /\ restarts' = restarts + 1
    /\ disable_all_feeds
    /\ subs' = {}
    /\ counts' = [f \in FeedIds |-> 0]
    /\ feed_ids' = [s \in Sockets |-> {}]
    /\ closed' = [s \in Sockets |-> FALSE]
    /\ pc' = [s \in Sockets |-> "new"]
    /\ loop' = Idle
    /\ tainted' = {}
    /\ UNCHANGED faults

----------------------------------------------------------------------------
Handler(s) ==
    \/ Connect(s)
    \/ Wake(s)
    \/ Overflowed(s)
    \/ Disconnect(s)
    \/ BadFrame(s)
    \/ \E frame \in Frames : ReceiveFrame(s, frame)
    \/ Deliver(s)
    \/ Sent(s)
    \/ SendFails(s)
    \/ Closed(s)

LoopStep ==
    \/ UpsertEntry
    \/ \E f \in FeedIds : AddFeed(f) \/ RemoveFeed(f) \/ SwitchFeed(f)
    \/ FrameDone
    \/ UnsubscribeDone

Next ==
    \/ \E s \in Sockets : Handler(s)
    \/ LoopStep
    \/ StoreRaises
    \/ \E full \in SUBSET subs : Publish(full)
    \/ Sweep
    \/ Restart

\* The thread that holds the loop goes on; the sweep's timer fires; a handler whose
\* closer completed is resumed; a close ends; and a send ends too, if only because
\* the server's ping goes unanswered and it fails.
Fairness ==
    /\ WF_vars(LoopStep)
    /\ WF_vars(Sweep)
    /\ \A s \in Sockets : /\ SF_vars(Overflowed(s))
                          /\ SF_vars(Closed(s))
                          /\ SF_vars(Sent(s) \/ SendFails(s))
                          /\ SF_vars(Disconnect(s) \/ BadFrame(s) \/ Deliver(s)
                                     \/ \E frame \in Frames : ReceiveFrame(s, frame))

Spec == Init /\ [][Next]_vars
FairSpec == Spec /\ Fairness

----------------------------------------------------------------------------
\* Properties

\* The feeds of s that the counts include at this moment: all it names, except in
\* the middle of its own set_feeds.
Counted(s) == IF loop.sock = s THEN loop.counted ELSE feed_ids[s]

Namers(f) == {s \in Sockets : f \in Counted(s)}

\* The reference count of a feed is the number of Subscription objects that name
\* it, through every mixture of frames, disconnects, overflows and sweeps: no
\* double decrement when a dropped subscription is unsubscribed again, no lost
\* increment when two sockets name a feed (broadcast.py, set_feeds).  A call of the
\* store that raises costs the feeds of its own subscription at most: for every
\* other feed the count stays exact until the restart that starts all counts anew.
CountsExact ==
    \A f \in FeedIds \ tainted : counts[f] = Cardinality(Namers(f))

\* The `enabled` flag mirrors "count > 0" (broadcast.py, Broadcaster) for every feed
\* that has a row, whenever the event loop is free to run the poller: no frame,
\* drop, sweep or reuse of a rowid leaves a counted feed disabled or an uncounted
\* one enabled, unless a failed call was about that feed.
EnabledMirrorsCount ==
    LoopIdle => \A f \in DOMAIN feeds \ tainted : feeds[f].enabled <=> counts[f] > 0

\* What the two invariants above rest on at every step: an idle loop holds nothing, a
\* publish drops each subscription once, and set_feeds leaves at most one count the
\* flag does not follow yet.  But for that feed, a counted feed is enabled if it has a
\* row, and an enabled feed is counted or is about to be by the frame that holds the
\* loop (upsert_feed inserts a row enabled, set_feeds counts it later).
LoopWellFormed ==
    /\ LoopIdle => loop = Idle
    /\ loop.sock \notin loop.drops
    /\ Resolving => loop.pending = {}
    /\ \A f \in loop.pending : counts[f] = IF f \in loop.counted THEN 1 ELSE 0

EnabledTracksCounts ==
    \A f \in DOMAIN feeds \ (tainted \cup loop.pending) :
        /\ counts[f] > 0 => feeds[f].enabled
        /\ feeds[f].enabled => counts[f] > 0 \/ f \in loop.ids \ loop.counted

IInv == TypeOK /\ LoopWellFormed /\ CountsExact /\ EnabledTracksCounts

\* The sweep runs in another thread and may come between any two store calls of a
\* frame.  The one counted feed it can delete is the one of that frame whose count has
\* become 1 and whose set_enabled is still to come (broadcast.py:61 and :63): a feed
\* that was counted before, by whomever, is spared.  Again but for the feeds a failed
\* call was about.
SweepSparesCounted ==
    [][\A f \in DOMAIN feeds \ (DOMAIN feeds' \cup tainted) :
          counts[f] = 0 \/ (f \in loop.pending /\ counts[f] = 1)]_vars

\* A subscription whose queue overflowed is not left half open: its handler ends
\* (ws_news looks at the closer every time it waits), unless the process restarts.
OverflowEndsHandler ==
    \A s \in Sockets : closed[s] ~> (pc[s] = "gone" \/ ~closed[s])

\* A feed with no subscriber does not stay in the pool for ever: it finds a
\* subscriber again or the sweep removes it (decision 3, drop_disabled_feeds).
IdleFeedReclaimed ==
    \A f \in FeedIds : (f \in DOMAIN feeds /\ counts[f] = 0)
                          ~> (f \notin DOMAIN feeds \/ counts[f] > 0)

\* "A feed is polled while at least one socket names it" (broadcast.py:42): what a
\* registered subscription names has an enabled row whenever the loop is idle.
PolledWhileNamed ==
    LoopIdle => \A s \in subs : feed_ids[s] \subseteq EnabledFeeds

\* "Counts are in memory, derived from open sockets" (broadcast.py:42): when the
\* loop is idle the count of a feed is the number of sockets still open that name
\* it, so that a feed whose last socket has gone is no longer counted.
CountsFromOpenSockets ==
    LoopIdle =>
        \A f \in FeedIds :
            counts[f] = Cardinality({s \in Sockets : pc[s] # "gone" /\ f \in feed_ids[s]})

\* What the rows of feeds show of the names of s: a name is given, and taken back,
\* when the set_enabled that goes with it has been made.
Settled(s) ==
    IF loop.sock = s
    THEN (loop.counted \ loop.pending) \cup (loop.pending \ loop.counted)
    ELSE feed_ids[s]

\* Counting and one store call at a time implement the uncounted specification, in
\* which a failure loses the feeds it was about and a restart finds them again.
P == INSTANCE Presence WITH
        names <- [s \in Sockets |-> Settled(s) \ tainted],
        pool <- DOMAIN feeds \ tainted,
        polled <- EnabledFeeds \ tainted,
        lost <- tainted

Refinement == P!Spec
=============================================================================
