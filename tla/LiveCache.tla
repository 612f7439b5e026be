------------------------------ MODULE LiveCache ------------------------------
(***************************************************************************)
(* The Live TV lookups (live.py, LiveTV): a cache of the video id that is  *)
(* live on each channel, filled on demand.  Requests for one channel take  *)
(* turns by an asyncio.Lock; the holder looks at the clock, answers from a *)
(* fresh entry or fetches the channel's page, and waits for it with the    *)
(* lock held.                                                              *)
(*                                                                         *)
(* asyncio.Lock serves its waiters in order, and a newcomer queues behind  *)
(* them even between a release and the wake-up of the first: `lock` is the *)
(* queue, its head the holder.  A member of Requests is one client, which  *)
(* may ask again after each answer.                                        *)
(***************************************************************************)
EXTENDS Naturals, Sequences, SequencesExt

CONSTANTS
    Channels,   \* config.live_tv
    Requests,   \* the HTTP clients
    VideoIds,
    Pages,      \* what YouTube may answer
    LiveTTL,    \* LIVE_TTL_S
    StaleTTL,   \* STALE_TTL_S
    MaxTime,    \* bound: the clock stops here
    None        \* Python's None; also the -inf of a time stamp never set

\* A page, by what the parser looks at: whether it has player data with videoDetails,
\* the id in them if it is one, isLive, isUpcoming, and playabilityStatus, which is
\* LIVE_STREAM_OFFLINE, something else or missing, or no JSON object at all.
Page == [player : BOOLEAN, id : VideoIds \cup {None}, isLive : BOOLEAN,
         isUpcoming : BOOLEAN, status : {"offline", "other", "no object"}]

ASSUME LiveCacheAssumption ==
    /\ Pages \subseteq Page
    /\ LiveTTL \in Nat \ {0} /\ StaleTTL \in Nat /\ MaxTime \in Nat
    /\ None \notin Nat \cup VideoIds \cup Channels

VARIABLES
    clock,    \* time.monotonic(), rounded
    entries,  \* LiveTV._entries
    lock,     \* LiveTV._locks
    request,  \* where each request is, and the `now` of its turn
    \* History, for the properties only:
    fetched,  \* channel -> when its last fetch began
    seen,     \* channel, id -> when it was last seen live, None if never
              \* or if the page said "not live" since
    served    \* how long before its last answer the id in it had been seen

vars == <<clock, entries, lock, request, fetched, seen, served>>

Entry == [cached : VideoIds \cup {None}, cached_at : Nat \cup {None},
          good_id : VideoIds \cup {None}, good_at : Nat \cup {None}]

Idle == [at |-> "idle", channel |-> None, now |-> 0]

TypeOK ==
    /\ clock \in 0 .. MaxTime
    /\ entries \in [Channels -> Entry]
    /\ \A c \in Channels :
          /\ lock[c] \in Seq(Requests)
          /\ IsInjective(lock[c])
          /\ \A r \in Requests : request[r].channel = c <=> Contains(lock[c], r)
          /\ \A i \in DOMAIN lock[c] :
                request[lock[c][i]].at = "fetching" => i = 1
    /\ request \in [Requests -> [at : {"idle", "waiting", "fetching"},
                                 channel : Channels \cup {None}, now : Nat]]
    /\ fetched \in [Channels -> Nat \cup {None}]
    /\ seen \in [Channels -> [VideoIds -> Nat \cup {None}]]
    /\ served \in [Requests -> Nat \cup {None}]

Init ==
    /\ clock = 0
    /\ entries = [c \in Channels |-> [cached |-> None, cached_at |-> None,
                                      good_id |-> None, good_at |-> None]]
    /\ lock = [c \in Channels |-> <<>>]
    /\ request = [r \in Requests |-> Idle]
    /\ fetched = [c \in Channels |-> None]
    /\ seen = [c \in Channels |-> [vid \in VideoIds |-> None]]
    /\ served = [r \in Requests |-> None]

----------------------------------------------------------------------------
\* video_id

Fresh(c) == entries[c].cached_at # None /\ clock - entries[c].cached_at < LiveTTL

\* Mutant of Answer: the release forgets who is waiting.
AnswerDropsQueue(r, c, queue, entry, now) ==
    /\ entries' = [entries EXCEPT ![c] = entry]
    /\ lock' = [lock EXCEPT ![c] = <<>>]
    /\ request' = [request EXCEPT ![r] = Idle]
    /\ UNCHANGED served

\* r, which holds the lock of c in `queue`, answers entry.cached and releases it.
Answer(r, c, queue, entry, now) ==
    /\ entries' = [entries EXCEPT ![c] = entry]
    /\ lock' = [lock EXCEPT ![c] = Tail(queue)]
    /\ request' = [request EXCEPT ![r] = Idle]
    /\ LET vid == entry.cached
       IN  served' = [served EXCEPT ![r] =
              IF vid # None /\ seen'[c][vid] # None THEN now - seen'[c][vid] ELSE None]

\* From the acquisition of the lock to the first await, or to the answer.
Enter(r, c, queue) ==
    IF Fresh(c)
    THEN /\ UNCHANGED <<fetched, seen>>
         /\ Answer(r, c, queue, entries[c], clock)
    ELSE /\ lock' = [lock EXCEPT ![c] = queue]
         /\ request' = [request EXCEPT ![r] = [at |-> "fetching", channel |-> c,
                                               now |-> clock]]
         /\ fetched' = [fetched EXCEPT ![c] = clock]
         /\ UNCHANGED <<entries, seen, served>>

\* A request for channel c (api.py, live_video and yt) finds the lock free ...
AskFree(r, c) ==
    /\ request[r] = Idle
    /\ lock[c] = <<>>
    /\ Enter(r, c, <<r>>)
    /\ UNCHANGED clock

\* ... or waits for it.
AskBusy(r, c) ==
    /\ request[r] = Idle
    /\ lock[c] # <<>>
    /\ lock' = [lock EXCEPT ![c] = Append(@, r)]
    /\ request' = [request EXCEPT ![r] = [at |-> "waiting", channel |-> c, now |-> 0]]
    /\ UNCHANGED <<clock, entries, fetched, seen, served>>

\* The lock was released, and the first of its waiters goes on.
Acquire(r, c) ==
    /\ request[r].at = "waiting"
    /\ lock[c] # <<>> /\ Head(lock[c]) = r
    /\ Enter(r, c, lock[c])
    /\ UNCHANGED clock

\* Mutants of FetchRaises: the failure is not cached; the window is measured from the
\* error and not from when the id was obtained; the lock is not released.
RaisesUncached(r, c) ==
    /\ request[r].at = "fetching" /\ request[r].channel = c
    /\ UNCHANGED <<clock, fetched, seen>>
    /\ Answer(r, c, lock[c], [entries[c] EXCEPT !.cached = None], request[r].now)

RaisesRenews(r, c) ==
    /\ request[r].at = "fetching" /\ request[r].channel = c
    /\ UNCHANGED <<clock, fetched, seen>>
    /\ LET e == entries[c]
           now == request[r].now
           kept == e.good_id # None /\ now - e.good_at < StaleTTL
       IN  Answer(r, c, lock[c],
                  [e EXCEPT !.cached = IF kept THEN e.good_id ELSE None,
                            !.cached_at = now, !.good_at = now], now)

RaisesLocked(r, c) ==
    /\ request[r].at = "fetching" /\ request[r].channel = c
    /\ request' = [request EXCEPT ![r] = Idle]
    /\ UNCHANGED <<clock, entries, lock, fetched, seen, served>>

\* The fetch raises: an error of the network, a status of 400 or more, a timeout,
\* or the parser.
FetchRaises(r, c) ==
    /\ request[r].at = "fetching" /\ request[r].channel = c
    /\ UNCHANGED <<clock, fetched, seen>>
    /\ LET e == entries[c]
           now == request[r].now
           kept == e.good_id # None /\ now - e.good_at < StaleTTL
       IN  Answer(r, c, lock[c],
                  [e EXCEPT !.cached = IF kept THEN e.good_id ELSE None,
                            !.cached_at = now], now)

\* Mutant of parse_live_video_id: isLive is trusted.
ParseTrustsIsLive(page) == IF page.player /\ page.isLive THEN page.id ELSE None

Dismissed(page) == ~page.player \/ page.id = None \/ ~page.isLive \/ page.isUpcoming

\* The id that is live now; None also for a page it cannot read.
parse_live_video_id(page) ==
    IF Dismissed(page) \/ page.status = "offline" THEN None ELSE page.id

\* .get of what is not an object raises.  So does JSON nested too deeply, which is as good
\* as a fetch that fails (FetchRaises).
ParserRaises(page) == ~Dismissed(page) /\ page.status = "no object"

OnAir(page) ==
    page.player /\ page.id # None /\ page.isLive /\ ~page.isUpcoming /\ page.status # "offline"

Saw(r, c, page) ==
    seen' = [seen EXCEPT ![c] = [vid \in VideoIds |->
                IF ~OnAir(page) THEN None
                ELSE IF vid = page.id THEN request[r].now ELSE @[vid]]]

\* Mutant of FetchReads: the good id stays for the next error.
OffAirRemembers(r, c, page) ==
    /\ request[r].at = "fetching" /\ request[r].channel = c
    /\ Saw(r, c, page)
    /\ LET now == request[r].now
           vid == parse_live_video_id(page)
       IN  Answer(r, c, lock[c],
                  IF vid # None
                  THEN [cached |-> vid, cached_at |-> now, good_id |-> vid, good_at |-> now]
                  ELSE [entries[c] EXCEPT !.cached = None, !.cached_at = now], now)
    /\ UNCHANGED <<clock, fetched>>

\* The page is read.  If nothing is live, the good id is forgotten (but not its time).
FetchReads(r, c, page) ==
    /\ request[r].at = "fetching" /\ request[r].channel = c
    /\ Saw(r, c, page)
    /\ LET now == request[r].now
           vid == parse_live_video_id(page)
       IN  Answer(r, c, lock[c],
                  [cached |-> vid, cached_at |-> now, good_id |-> vid,
                   good_at |-> IF vid # None THEN now ELSE entries[c].good_at], now)
    /\ UNCHANGED <<clock, fetched>>

FetchEnds(r, c) ==
    \/ FetchRaises(r, c)
    \/ \E page \in Pages :
          IF ParserRaises(page) THEN FetchRaises(r, c) ELSE FetchReads(r, c, page)

Tick ==
    /\ clock < MaxTime
    /\ clock' = clock + 1
    /\ UNCHANGED <<entries, lock, request, fetched, seen, served>>

Next ==
    \/ \E r \in Requests, c \in Channels :
          AskFree(r, c) \/ AskBusy(r, c) \/ Acquire(r, c) \/ FetchEnds(r, c)
    \/ Tick

\* A waiter whose turn has come is resumed.  Nothing says that a fetch ends: TIMEOUT_S is
\* for each read, and a server that sends a byte now and then holds it for as long as it
\* likes (fetch.py:20-24).
Fairness == \A r \in Requests, c \in Channels : WF_vars(Acquire(r, c))

Spec == Init /\ [][Next]_vars
FairSpec == Spec /\ Fairness

----------------------------------------------------------------------------
\* Properties

\* "The rate ceiling: <=1 outbound request per channel per 5 minutes" (live.py:31),
\* with any number of requests, waiters behind a slow fetch, and errors.
RateCeiling ==
    [][\A c \in Channels :
          fetched'[c] # fetched[c] /\ fetched[c] # None =>
              fetched'[c] >= fetched[c] + LiveTTL]_vars

\* Once a page has said that nothing is live, no later error brings back an id that
\* was seen before it (live.py, "so a later error can't resurrect it").
NoResurrection ==
    \A c \in Channels :
        LET vid == entries[c].cached IN vid # None => seen[c][vid] # None

\* An id is answered for less than STALE_TTL_S and one more LIVE_TTL_S after it was
\* obtained, through any mixture of errors and fresh answers.
AnswersAreRecent ==
    \A r \in Requests : served[r] # None => served[r] < StaleTTL + LiveTTL

\* A request is answered, unless some fetch of its channel never ends: the lock is released
\* on every path, whatever the page or the error, and its queue is served in order (live.py,
\* async with self._locks[key]).
FetchHangs(c) == \E r \in Requests : <>[](request[r].at = "fetching" /\ request[r].channel = c)
AnsweredUnlessHung ==
    \A r \in Requests, c \in Channels :
        (request[r].channel = c ~> request[r] = Idle) \/ FetchHangs(c)
=============================================================================
