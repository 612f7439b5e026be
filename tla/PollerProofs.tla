---------------------------- MODULE PollerProofs ----------------------------
(***************************************************************************)
(* Theorems about the poller: no feed is polled twice at a time, results   *)
(* and due times only move forward, a feed without subscribers is in no    *)
(* new tick, what a feed listed is kept, and nothing is handed over twice  *)
(* without an outage unless its date allows it.                            *)
(***************************************************************************)
EXTENDS Poller, StoreProofs, FiniteSetTheorems

----------------------------------------------------------------------------
\* The inductive invariant

\* A feed id is at most once in a tick, waiting or in flight.
OncePerTick ==
    /\ \A d, e \in due : d.feed = e.feed => d = e
    /\ \A d \in due, p \in polls : d.feed # p.feed
    /\ OnePollPerFeed

\* All that is known of the feeds is from this tick or from an earlier one.
OneTick ==
    /\ \A p \in polls : p.now = tick
    /\ due \cup polls # {} => clock <= tick + MaxTickTime
    /\ \A f \in DOMAIN feed_state :
          feed_state[f].last_success_at # None => feed_state[f].last_success_at <= tick
    /\ \A p \in polls : p.last_success_at # None => p.last_success_at <= tick

\* A feed that waits for its poll, or is polled, is due; the row may be gone, and a new
\* row with its id is due at once.
Overdue ==
    /\ \A d \in due : d.feed \in DOMAIN feed_state => feed_state[d.feed].next_poll_at <= clock
    /\ \A p \in polls : p.feed \in DOMAIN feed_state => feed_state[p.feed].next_poll_at <= clock

\* Only feeds with a subscriber are enabled, or the one whose frame is not done.
EnabledAreWatched == \A f \in DOMAIN feeds : feeds[f].enabled => f \in watched \/ f = joining

\* What has been handed over is of a feed that has been read; a cold start is the first
\* reading.
ColdStarts ==
    /\ \A k \in DOMAIN handed :
          k[1] \in DOMAIN feeds /\ feed_state[k[1]].last_success_at # None
    /\ \A p \in polls : ~p.cold_start => p.last_success_at # None
    /\ \A p \in polls : p.cold_start => \A k \in DOMAIN handed : k[1] # p.feed

\* An article that its feed listed at some time is there, last seen then or later, or it
\* has been swept and that time is a retention ago.
Seen(f, g, at) ==
    IF <<f, g>> \in DOMAIN articles
    THEN at <= articles[<<f, g>>].last_seen_at
    ELSE at + Retention < clock

\* So it is with the articles handed over, and with those a poll has just inserted: one
\* that was handed over before had been swept when this poll found it.
Fates ==
    /\ \A k \in DOMAIN handed : handed[k] <= tick /\ Seen(k[1], k[2], handed[k])
    /\ \A p \in polls : p.stage = "inserted" =>
          /\ p.inserted \subseteq DOMAIN p.body
          /\ p.feed \in DOMAIN feeds => \A g \in DOMAIN p.body : Seen(p.feed, g, p.now)
          /\ \A g \in p.inserted : <<p.feed, g>> \in DOMAIN handed =>
                handed[<<p.feed, g>>] + Retention < p.now + MaxTickTime

\* What the last full response listed has been seen since.
FullSeen ==
    \A f \in DOMAIN full : \A g \in full[f].body :
        <<f, g>> \in DOMAIN articles => articles[<<f, g>>].last_seen_at >= full[f].at

PollerInv ==
    /\ TypeOK
    /\ OncePerTick
    /\ OneTick
    /\ Overdue
    /\ EnabledAreWatched
    /\ ColdStarts
    /\ Fates
    /\ FullSeen
    /\ FullResponseKept

----------------------------------------------------------------------------
\* Operators of the model

\* A power of two is the number of subsets of an interval.
LEMMA PowersOfTwo == \A n \in Nat : 2 ^ n \in Nat
<1> SUFFICES ASSUME NEW n \in Nat PROVE 2 ^ n \in Nat
  OBVIOUS
<1>1. IsFiniteSet(1 .. n) /\ Cardinality(1 .. n) = n
  BY FS_Interval
<1>2. IsFiniteSet(SUBSET (1 .. n)) /\ Cardinality(SUBSET (1 .. n)) = 2 ^ n
  BY <1>1, FS_SUBSET
<1> QED BY <1>2, FS_CardinalityType

\* Every delay is a time, jittered or not.
LEMMA Delays ==
  ASSUME NEW failures \in Nat, NEW retry_after \in RetryAfters \cup {None}
  PROVE  /\ next_interval(failures, retry_after) \in Nat
         /\ Jittered(next_interval(failures, retry_after)) \subseteq Nat
<1>1. BaseInterval \in Nat /\ MaxBackoff \in Nat /\ MinRetryAfter \in Nat /\ RetryAfters \subseteq Nat
  BY PollerAssumption
<1>2. BaseInterval * 2 ^ failures \in Nat
  <2>1. 2 ^ failures \in Nat
    BY PowersOfTwo
  <2> QED BY <1>1, <2>1
<1>3. next_interval(failures, retry_after) \in Nat
  BY <1>1, <1>2 DEF next_interval, Smaller, Larger
<1> QED BY <1>3 DEF Jittered

LEMMA BaseDelays == Jittered(BaseInterval) \subseteq Nat
  BY PollerAssumption DEF Jittered

\* The bounds are numbers.
LEMMA Numbers ==
  Retention \in Nat /\ Grace \in Nat /\ MaxTickTime \in Nat /\ MaxTime \in Nat
  BY PollerAssumption

\* A body maps guids to dates, and a function that does so is one.
LEMMA BodyFacts ==
  /\ \A body \in Bodies :
        /\ DOMAIN body \subseteq Guids /\ body \in [DOMAIN body -> Nat \cup {None}]
        /\ \A g \in DOMAIN body : body[g] \in Dates[g]
  /\ \A gs \in SUBSET Guids : \A body : 
        /\ body = [g \in gs |-> body[g]]
        /\ \A g \in gs : body[g] \in Dates[g]
        => body \in Bodies
<1>1. Dates \in [Guids -> SUBSET (Nat \cup {None})]
  BY PollerAssumption
<1>2. ASSUME NEW body \in Bodies
      PROVE  /\ DOMAIN body \subseteq Guids /\ body \in [DOMAIN body -> Nat \cup {None}]
             /\ \A g \in DOMAIN body : body[g] \in Dates[g]
  <2>1. PICK gs \in SUBSET Guids : body \in [gs -> UNION {Dates[g] : g \in gs}]
    BY DEF Bodies
  <2>2. DOMAIN body = gs /\ \A g \in gs : body[g] \in Dates[g]
    BY <2>1 DEF Bodies
  <2>3. \A g \in gs : body[g] \in Nat \cup {None}
    BY <1>1, <2>2
  <2> QED BY <2>1, <2>2, <2>3
<1>3. ASSUME NEW gs \in SUBSET Guids, NEW body, body = [g \in gs |-> body[g]],
             \A g \in gs : body[g] \in Dates[g]
      PROVE  body \in Bodies
  <2> DEFINE R == UNION {Dates[g] : g \in gs}
  <2>1. \A g \in gs : body[g] \in R
    BY <1>3
  <2>2. body \in [gs -> R] /\ DOMAIN body = gs
    <3> HIDE DEF R
    <3> QED BY <1>3, <2>1
  <2> QED BY <1>3, <2>2 DEF Bodies
<1> QED BY <1>2, <1>3

LEMMA NoBodyIsBody == NoBody \in Bodies /\ DOMAIN NoBody = {}
<1>1. NoBody = [g \in {} |-> NoBody[g]] /\ DOMAIN NoBody = {}
  BY DEF NoBody
<1>2. {} \in SUBSET Guids /\ \A g \in {} : NoBody[g] \in Dates[g]
  OBVIOUS
<1> QED BY <1>1, <1>2, BodyFacts

----------------------------------------------------------------------------
\* Every step keeps the invariant, and moves nothing back

SuccessForward ==
    \A f \in DOMAIN feed_state \cap DOMAIN feed_state' :
        feed_state[f].last_success_at # None =>
            /\ feed_state'[f].last_success_at # None
            /\ feed_state'[f].last_success_at >= feed_state[f].last_success_at

DueForward ==
    \A f \in DOMAIN feed_state \cap DOMAIN feed_state' :
        clock < feed_state[f].next_poll_at =>
            feed_state'[f].next_poll_at >= feed_state[f].next_poll_at

NewDueWatched == \A d \in due' \ due : d.feed \in watched

\* A step that leaves the polling states alone moves nothing back.
LEMMA StatesStay ==
  ASSUME StoreTypeOK,
         \A f \in DOMAIN feed_state \cap DOMAIN feed_state' : feed_state'[f] = feed_state[f]
  PROVE  SuccessForward /\ DueForward
<1> SUFFICES ASSUME NEW f \in DOMAIN feed_state \cap DOMAIN feed_state'
             PROVE  /\ feed_state[f].last_success_at \in Nat \cup {None}
                    /\ feed_state[f].next_poll_at \in Nat
                    /\ feed_state'[f] = feed_state[f]
  BY DEF SuccessForward, DueForward
<1> QED BY DEF StoreTypeOK, StateRow

LEMMA RunOnceKeeps ==
  ASSUME PollerInv, RunOnce
  PROVE  PollerInv' /\ SuccessForward /\ DueForward /\ NewDueWatched
<1> DEFINE item(f) == [feed |-> f, url |-> feeds[f].url, next_poll_at |-> feed_state[f].next_poll_at]
<1>1. /\ due = {} /\ polls = {} /\ polls' = {} /\ joining = None
      /\ due' = {item(f) : f \in DueFeeds(clock)}
      /\ tick' = clock
      /\ UNCHANGED <<storeVars, clock, polls, envVars, history>>
  BY DEF RunOnce, LoopFree
<1>2. UNCHANGED <<feeds, feed_state, articles, watched, joining, listed, edits, restarts,
                  full, handed>>
  BY <1>1 DEF storeVars, envVars, history
<1>3. TypeOK
  BY DEF PollerInv
<1>4. /\ clock \in Nat /\ tick \in Nat /\ tick <= clock
      /\ feeds \in [DOMAIN feeds -> FeedRow] /\ feed_state \in [DOMAIN feeds -> StateRow]
      /\ DOMAIN feeds \subseteq FeedIds /\ DOMAIN feed_state = DOMAIN feeds
  BY <1>3, Numbers DEF TypeOK, StoreTypeOK
<1>5. \A f \in DueFeeds(clock) :
         /\ f \in DOMAIN feeds /\ f \in FeedIds /\ feeds[f].enabled /\ feeds[f].url \in Urls
         /\ feed_state[f].next_poll_at \in Nat /\ feed_state[f].next_poll_at <= clock
  BY <1>4 DEF DueFeeds, FeedRow, StateRow
<1>6. \A d \in due' : \E f \in DueFeeds(clock) : d = item(f)
  BY <1>1
<1>7. TypeOK'
  <2>1. due' \subseteq [feed : FeedIds, url : Urls, next_poll_at : Nat]
    BY <1>5, <1>6
  <2> QED BY <1>1, <1>2, <1>3, <1>4, <2>1 DEF TypeOK, StoreTypeOK
<1>8. OncePerTick'
  BY <1>1, <1>6 DEF OncePerTick, OnePollPerFeed
<1>9. OneTick'
  BY <1>1, <1>2, <1>4, Numbers DEF PollerInv, OneTick, StateRow
<1>10. Overdue'
  BY <1>1, <1>2, <1>5, <1>6 DEF Overdue
<1>11. EnabledAreWatched' /\ ColdStarts'
  BY <1>1, <1>2 DEF PollerInv, EnabledAreWatched, ColdStarts
<1>12. Fates'
  <2>1. \A k \in DOMAIN handed : handed[k] <= clock
    BY <1>3, <1>4 DEF PollerInv, Fates, TypeOK
  <2> QED BY <1>1, <1>2, <2>1 DEF PollerInv, Fates, Seen
<1>13. FullSeen' /\ FullResponseKept'
  BY <1>1, <1>2 DEF PollerInv, FullSeen, FullResponseKept
<1>14. NewDueWatched
  <2> SUFFICES ASSUME NEW f \in DueFeeds(clock) PROVE f \in watched
    BY <1>6 DEF NewDueWatched
  <2>1. f \in watched \/ f = joining
    BY <1>5 DEF PollerInv, EnabledAreWatched
  <2>2. f # None
    BY <1>5, NoneAssumption DEF FeedIds
  <2> QED BY <1>1, <2>1, <2>2
<1>15. SuccessForward /\ DueForward
  BY <1>2, <1>3, StatesStay DEF TypeOK
<1> QED BY <1>7, <1>8, <1>9, <1>10, <1>11, <1>12, <1>13, <1>14, <1>15 DEF PollerInv

\* What is known of a poll, of a snapshot and of the rows they are about.
LEMMA Typed ==
  ASSUME PollerInv
  PROVE  /\ StoreTypeOK
         /\ clock \in Nat /\ tick \in Nat /\ tick <= clock
         /\ \A f \in DOMAIN feed_state :
               /\ feed_state[f].validator \in Validators \cup {None}
               /\ feed_state[f].last_success_at \in Nat \cup {None}
               /\ feed_state[f].consecutive_failures \in Nat
               /\ feed_state[f].next_poll_at \in Nat
         /\ \A p \in polls :
               /\ p \in Poll /\ p.feed \in FeedIds /\ p.now \in Nat /\ p.failures \in Nat
               /\ p.validator \in Validators \cup {None} /\ p.etag \in Validators \cup {None}
               /\ p.last_success_at \in Nat \cup {None} /\ p.cold_start \in BOOLEAN
               /\ p.body \in Bodies /\ p.inserted \subseteq Guids /\ p.url \in Urls
<1>1. TypeOK
  BY DEF PollerInv
<1>2. clock \in Nat /\ tick \in Nat /\ tick <= clock /\ StoreTypeOK
  BY <1>1, Numbers DEF TypeOK
<1>3. \A f \in DOMAIN feed_state : feed_state[f] \in StateRow
  BY <1>2 DEF StoreTypeOK
<1>4. \A p \in polls : p \in Poll
  BY <1>1 DEF TypeOK
<1> QED BY <1>2, <1>3, <1>4 DEF StateRow, Poll

LEMMA StartPollKeeps ==
  ASSUME PollerInv, NEW d \in due, StartPoll(d)
  PROVE  PollerInv' /\ SuccessForward /\ DueForward /\ NewDueWatched
<1> DEFINE known == d.feed \in DOMAIN feed_state
           state == feed_state[d.feed]
           cold == ~known \/ state.last_success_at = None
           last == IF known THEN state.last_success_at ELSE None
           new == [feed |-> d.feed, url |-> d.url, now |-> tick,
                   cold_start |-> cold,
                   validator |-> IF known THEN state.validator ELSE None,
                   failures |-> IF known THEN state.consecutive_failures ELSE 0,
                   last_success_at |-> last,
                   stage |-> "fetching", body |-> NoBody, etag |-> None, inserted |-> {}]
<1>1. /\ due' = due \ {d} /\ polls' = polls \cup {new}
      /\ UNCHANGED <<feeds, feed_state, articles, clock, tick, watched, joining, listed, edits,
                     restarts, full, handed>>
  BY DEF StartPoll, storeVars, envVars, history
<1>2. TypeOK /\ d.feed \in FeedIds /\ d.url \in Urls
  BY DEF PollerInv, TypeOK
<1>3. /\ cold \in BOOLEAN /\ last \in Nat \cup {None} /\ (~cold => last # None)
      /\ (last # None => known /\ last = state.last_success_at)
      /\ (cold /\ known => state.last_success_at = None)
  BY Typed
<1>4. /\ new.feed = d.feed /\ new.now = tick /\ new.cold_start = cold /\ new.last_success_at = last
      /\ new.stage = "fetching"
      /\ new \in Poll
  <2>1. /\ (IF known THEN state.validator ELSE None) \in Validators \cup {None}
        /\ (IF known THEN state.consecutive_failures ELSE 0) \in Nat
        /\ tick \in Nat
    BY Typed
  <2> HIDE DEF cold, last, known, state
  <2> QED BY <1>2, <1>3, <2>1, NoBodyIsBody DEF Poll
<1> HIDE DEF new
<1>5. TypeOK'
  BY <1>1, <1>2, <1>4 DEF TypeOK, StoreTypeOK
<1>6. OncePerTick'
  <2>1. \A e \in due' : e \in due /\ e.feed # d.feed
    BY <1>1 DEF PollerInv, OncePerTick
  <2>2. \A p \in polls : p.feed # d.feed
    BY DEF PollerInv, OncePerTick
  <2> QED BY <1>1, <1>4, <2>1, <2>2 DEF PollerInv, OncePerTick, OnePollPerFeed
<1>7. OneTick'
  <2>1. clock <= tick + MaxTickTime
    BY DEF PollerInv, OneTick
  <2>2. last # None => last <= tick
    BY <1>3 DEF PollerInv, OneTick
  <2> QED BY <1>1, <1>4, <2>1, <2>2 DEF PollerInv, OneTick
<1>8. Overdue'
  BY <1>1, <1>4 DEF PollerInv, Overdue
<1>9. ColdStarts'
  <2>1. cold => \A k \in DOMAIN handed : k[1] # d.feed
    <3> SUFFICES ASSUME cold, NEW k \in DOMAIN handed, k[1] = d.feed PROVE FALSE
      OBVIOUS
    <3>1. d.feed \in DOMAIN feeds /\ feed_state[d.feed].last_success_at # None
      BY DEF PollerInv, ColdStarts
    <3> QED BY <1>3, <3>1, Typed DEF StoreTypeOK
  <2> HIDE DEF cold, last
  <2> QED BY <1>1, <1>3, <1>4, <2>1 DEF PollerInv, ColdStarts
<1>10. EnabledAreWatched'
  BY <1>1 DEF PollerInv, EnabledAreWatched
<1>11. Fates'
  BY <1>1, <1>4 DEF PollerInv, Fates, Seen
<1>12. FullSeen' /\ FullResponseKept'
  BY <1>1 DEF PollerInv, FullSeen, FullResponseKept
<1>13. SuccessForward /\ DueForward /\ NewDueWatched
  BY <1>1, StatesStay, Typed DEF NewDueWatched
<1> QED BY <1>5, <1>6, <1>7, <1>8, <1>9, <1>10, <1>11, <1>12, <1>13 DEF PollerInv

\* A poll that ends without an article: its row moves forward, if it is still there.
LEMMA PollEndsKeeps ==
  ASSUME PollerInv, NEW p \in polls, polls' = polls \ {p},
         UNCHANGED <<feeds, articles, clock, due, tick, watched, joining, listed, edits, restarts,
                     full, handed>>,
         StoreTypeOK', DOMAIN feed_state' = DOMAIN feed_state,
         \A f \in DOMAIN feed_state : f # p.feed => feed_state'[f] = feed_state[f],
         p.feed \in DOMAIN feed_state =>
            feed_state'[p.feed].last_success_at \in {feed_state[p.feed].last_success_at, p.now}
  PROVE  PollerInv' /\ SuccessForward /\ DueForward /\ NewDueWatched
<1>1. /\ p.now = tick /\ tick \in Nat
      /\ \A q \in polls' : q \in polls /\ q.feed # p.feed
      /\ \A d \in due : d.feed # p.feed
  BY Typed DEF PollerInv, OneTick, OncePerTick, OnePollPerFeed
<1>2. TypeOK'
  BY DEF PollerInv, TypeOK
<1>3. OncePerTick'
  BY DEF PollerInv, OncePerTick, OnePollPerFeed
<1>4. \A f \in DOMAIN feed_state :
         /\ feed_state[f].last_success_at \in Nat \cup {None}
         /\ feed_state[f].last_success_at # None => feed_state[f].last_success_at <= tick
         /\ feed_state'[f].last_success_at \in {feed_state[f].last_success_at, tick}
  BY <1>1, Typed DEF PollerInv, OneTick
<1>5. tick # None
  BY <1>1, NoneAssumption
<1>6. OneTick'
  BY <1>1, <1>4 DEF PollerInv, OneTick
<1>7. Overdue'
  BY <1>1 DEF PollerInv, Overdue
<1>8. EnabledAreWatched'
  BY DEF PollerInv, EnabledAreWatched
<1>9. ColdStarts'
  <2>1. \A k \in DOMAIN handed : k[1] \in DOMAIN feed_state
    BY Typed DEF PollerInv, ColdStarts, StoreTypeOK
  <2> QED BY <1>4, <1>5, <2>1 DEF PollerInv, ColdStarts
<1>10. Fates'
  BY DEF PollerInv, Fates, Seen
<1>11. FullSeen' /\ FullResponseKept'
  BY DEF PollerInv, FullSeen, FullResponseKept
<1>12. SuccessForward
  BY <1>1, <1>4, <1>5 DEF SuccessForward
<1>13. DueForward
  <2>1. p.feed \in DOMAIN feed_state => feed_state[p.feed].next_poll_at <= clock
    BY DEF PollerInv, Overdue
  <2> SUFFICES ASSUME NEW f \in DOMAIN feed_state, clock < feed_state[f].next_poll_at
               PROVE  feed_state'[f].next_poll_at >= feed_state[f].next_poll_at
    BY DEF DueForward
  <2>2. f # p.feed
    BY <2>1, Typed
  <2> QED BY <2>2, Typed
<1>14. NewDueWatched
  BY DEF NewDueWatched
<1> QED BY <1>2, <1>3, <1>6, <1>7, <1>8, <1>9, <1>10, <1>11, <1>12, <1>13, <1>14 DEF PollerInv

LEMMA FailsKeeps ==
  ASSUME PollerInv, NEW p \in polls, NEW delay \in Nat, Fails(p, delay)
  PROVE  PollerInv' /\ SuccessForward /\ DueForward /\ NewDueWatched
<1>1. /\ record_failure(p.feed, p.now + delay)
      /\ polls' = polls \ {p}
      /\ UNCHANGED <<clock, due, tick, watched, joining, listed, edits, restarts, full, handed>>
  BY DEF Fails, envVars, history
<1>2. p.now + delay \in Nat /\ StoreTypeOK
  BY Typed
<1>3. /\ StoreTypeOK' /\ UNCHANGED <<feeds, articles>> /\ DOMAIN feed_state' = DOMAIN feed_state
      /\ \A g \in DOMAIN feed_state : g # p.feed => feed_state'[g] = feed_state[g]
      /\ p.feed \in DOMAIN feed_state =>
            feed_state'[p.feed].last_success_at = feed_state[p.feed].last_success_at
  BY <1>1, <1>2, RecordFailureOK
<1> QED BY <1>1, <1>3, PollEndsKeeps

LEMMA FetchFailsKeeps ==
  ASSUME PollerInv, NEW p \in polls, FetchFails(p)
  PROVE  PollerInv' /\ SuccessForward /\ DueForward /\ NewDueWatched
<1>1. p.failures + 1 \in Nat
  BY Typed
<1>2. CASE \E delay \in Jittered(next_interval(p.failures + 1, None)) : Fails(p, delay)
  <2>1. Jittered(next_interval(p.failures + 1, None)) \subseteq Nat
    BY <1>1, Delays
  <2> QED BY <1>2, <2>1, FailsKeeps
<1>3. CASE \E retry_after \in RetryAfters : Fails(p, next_interval(p.failures + 1, retry_after))
  <2>1. PICK retry_after \in RetryAfters : Fails(p, next_interval(p.failures + 1, retry_after))
    BY <1>3
  <2>2. next_interval(p.failures + 1, retry_after) \in Nat
    BY <1>1, Delays
  <2> QED BY <2>1, <2>2, FailsKeeps
<1> QED BY <1>2, <1>3 DEF FetchFails

LEMMA NotModifiedKeeps ==
  ASSUME PollerInv, NEW p \in polls, NotModified(p)
  PROVE  PollerInv' /\ SuccessForward /\ DueForward /\ NewDueWatched
<1>1. CASE p.cold_start
  <2>1. PICK delay \in Jittered(next_interval(p.failures + 1, None)) : Fails(p, delay)
    BY <1>1 DEF NotModified
  <2>2. p.failures + 1 \in Nat
    BY Typed
  <2>3. delay \in Nat
    BY <2>1, <2>2, Delays
  <2> QED BY <2>1, <2>3, FailsKeeps
<1>2. CASE ~p.cold_start
  <2>1. PICK delay \in Jittered(BaseInterval) :
           record_success(p.feed, p.validator, p.now, p.now + delay)
    BY <1>2 DEF NotModified
  <2>2. /\ polls' = polls \ {p}
        /\ UNCHANGED <<clock, due, tick, watched, joining, listed, edits, restarts, full, handed>>
    BY <1>2 DEF NotModified, envVars, history
  <2>3. /\ p.validator \in Validators \cup {None} /\ p.now \in Nat /\ p.now + delay \in Nat
        /\ StoreTypeOK
    BY Typed, BaseDelays
  <2>4. /\ StoreTypeOK' /\ UNCHANGED <<feeds, articles>> /\ DOMAIN feed_state' = DOMAIN feed_state
        /\ \A g \in DOMAIN feed_state : g # p.feed => feed_state'[g] = feed_state[g]
        /\ p.feed \in DOMAIN feed_state => feed_state'[p.feed].last_success_at = p.now
    BY <2>1, <2>3, RecordSuccessOK
  <2> QED BY <2>2, <2>4, PollEndsKeeps
<1> QED BY <1>1, <1>2

LEMMA ParsedEmptyKeeps ==
  ASSUME PollerInv, NEW p \in polls, ParsedEmpty(p)
  PROVE  PollerInv' /\ SuccessForward /\ DueForward /\ NewDueWatched
<1>1. PICK delay \in Jittered(next_interval(p.failures + 1, None)) : Fails(p, delay)
  BY DEF ParsedEmpty
<1>2. p.failures + 1 \in Nat
  BY Typed
<1>3. delay \in Nat
  BY <1>1, <1>2, Delays
<1> QED BY <1>1, <1>3, FailsKeeps

LEMMA PollRaisesKeeps ==
  ASSUME PollerInv, NEW p \in polls, PollRaises(p)
  PROVE  PollerInv' /\ SuccessForward /\ DueForward /\ NewDueWatched
<1>1. /\ polls' = polls \ {p}
      /\ UNCHANGED <<feeds, feed_state, articles, clock, due, tick, watched, joining, listed, edits,
                     restarts, full, handed>>
  BY DEF PollRaises, storeVars, envVars, history
<1>2. StoreTypeOK /\ StoreTypeOK'
  BY <1>1, Typed DEF StoreTypeOK
<1> QED BY <1>1, <1>2, PollEndsKeeps

\* A poll in flight that goes on to its next stage, as the same poll of the same feed.
LEMMA SamePoll ==
  ASSUME PollerInv, NEW p \in polls, NEW q, polls' = (polls \ {p}) \cup {q}, q \in Poll,
         q.feed = p.feed, q.now = p.now, q.last_success_at = p.last_success_at,
         q.cold_start = p.cold_start, UNCHANGED <<due, feed_state, clock, tick, handed>>,
         UNCHANGED feeds
  PROVE  OncePerTick' /\ OneTick' /\ Overdue' /\ ColdStarts'
<1>1. OncePerTick'
  BY DEF PollerInv, OncePerTick, OnePollPerFeed
<1>2. OneTick'
  BY DEF PollerInv, OneTick
<1>3. Overdue'
  BY DEF PollerInv, Overdue
<1>4. ColdStarts'
  BY DEF PollerInv, ColdStarts
<1> QED BY <1>1, <1>2, <1>3, <1>4

LEMMA FetchOkKeeps ==
  ASSUME PollerInv, NEW p \in polls, FetchOk(p)
  PROVE  PollerInv' /\ SuccessForward /\ DueForward /\ NewDueWatched
<1>1. PICK etag \in {None, listed[p.url]} :
         polls' = (polls \ {p}) \cup
            {[p EXCEPT !.stage = "parsing", !.body = listed[p.url], !.etag = etag]}
  BY DEF FetchOk
<1> DEFINE q == [p EXCEPT !.stage = "parsing", !.body = listed[p.url], !.etag = etag]
<1>2. /\ UNCHANGED <<feeds, feed_state, articles, clock, due, tick, watched, joining, listed, edits,
                     restarts, full, handed>>
      /\ p.stage = "fetching"
  BY DEF FetchOk, storeVars, envVars, history
<1>3. p \in Poll /\ p.url \in Urls /\ listed[p.url] \in Bodies /\ listed[p.url] \in Validators
  BY Typed, PollerAssumption DEF PollerInv, TypeOK
<1>4. /\ q \in Poll /\ q.feed = p.feed /\ q.now = p.now /\ q.last_success_at = p.last_success_at
      /\ q.cold_start = p.cold_start /\ q.stage = "parsing"
  BY <1>3 DEF Poll
<1>5. polls' = (polls \ {p}) \cup {q}
  BY <1>1
<1> HIDE DEF q
<1>6. TypeOK'
  BY <1>2, <1>4, <1>5 DEF PollerInv, TypeOK, StoreTypeOK
<1>7. OncePerTick' /\ OneTick' /\ Overdue' /\ ColdStarts'
  BY <1>2, <1>4, <1>5, SamePoll
<1>8. EnabledAreWatched'
  BY <1>2 DEF PollerInv, EnabledAreWatched
<1>9. Fates'
  BY <1>2, <1>4, <1>5 DEF PollerInv, Fates, Seen
<1>10. FullSeen' /\ FullResponseKept'
  BY <1>2 DEF PollerInv, FullSeen, FullResponseKept
<1>11. SuccessForward /\ DueForward /\ NewDueWatched
  BY <1>2, StatesStay, Typed DEF NewDueWatched
<1> QED BY <1>6, <1>7, <1>8, <1>9, <1>10, <1>11 DEF PollerInv

LEMMA InsertKeeps ==
  ASSUME PollerInv, NEW p \in polls, Insert(p)
  PROVE  PollerInv' /\ SuccessForward /\ DueForward /\ NewDueWatched
<1> DEFINE f == p.feed
           q == [p EXCEPT !.stage = "inserted", !.inserted = NewGuids(f, p.body)]
<1>1. /\ insert_articles(f, p.body, p.now)
      /\ polls' = (polls \ {p}) \cup {q}
      /\ full' = [h \in DOMAIN full \cup {f} |->
                     IF h = f THEN [at |-> p.now, body |-> DOMAIN p.body] ELSE full[h]]
      /\ UNCHANGED <<clock, due, tick, watched, joining, listed, edits, restarts, handed>>
      /\ LoopFree
  <2>1. /\ insert_articles(f, p.body, p.now)
        /\ polls' = (polls \ {p}) \cup {q}
        /\ LoopFree
    BY Zenon DEF Insert
  <2>2. full' = [h \in DOMAIN full \cup {f} |->
                    IF h = f THEN [at |-> p.now, body |-> DOMAIN p.body] ELSE full[h]]
    BY Zenon DEF Insert
  <2>3. UNCHANGED <<clock, due, tick, watched, joining, listed, edits, restarts, handed>>
    BY DEF Insert, envVars
  <2> QED BY <2>1, <2>2, <2>3
<1>2. /\ p \in Poll /\ p.body \in Bodies /\ p.now = tick /\ tick \in Nat /\ f \in FeedIds
      /\ StoreTypeOK
  BY Typed DEF PollerInv, OneTick
<1>3. DOMAIN p.body \subseteq Guids /\ p.body \in [DOMAIN p.body -> Nat \cup {None}]
  BY <1>2, BodyFacts
<1>4. /\ StoreTypeOK' /\ f \in DOMAIN feeds /\ UNCHANGED <<feeds, feed_state>>
      /\ DOMAIN articles' = DOMAIN articles \cup ({f} \X DOMAIN p.body)
      /\ \A g \in DOMAIN p.body : articles'[<<f, g>>].last_seen_at = tick
      /\ \A k \in DOMAIN articles : k \notin {f} \X DOMAIN p.body => articles'[k] = articles[k]
  <2>1. ArticlesInserted(f, p.body, p.now)
    BY <1>1, <1>2, <1>3, InsertArticlesOK
  <2> QED BY <1>2, <2>1 DEF ArticlesInserted
<1>5. /\ NewGuids(f, p.body) \subseteq DOMAIN p.body
      /\ \A g \in NewGuids(f, p.body) : <<f, g>> \notin DOMAIN articles
  BY DEF NewGuids
<1>6. /\ q \in Poll /\ q.feed = f /\ q.now = p.now /\ q.last_success_at = p.last_success_at
      /\ q.cold_start = p.cold_start /\ q.stage = "inserted" /\ q.body = p.body
      /\ q.inserted = NewGuids(f, p.body)
  BY <1>2, <1>3, <1>5 DEF Poll
<1> HIDE DEF q
<1>7. /\ DOMAIN full' = DOMAIN full \cup {f}
      /\ full'[f].at = tick /\ full'[f].body = DOMAIN p.body /\ full'[f] \in [at : Nat, body : SUBSET Guids]
      /\ \A h \in DOMAIN full : h # f => full'[h] = full[h]
  BY <1>1, <1>2, <1>3
<1>8. TypeOK'
  BY <1>1, <1>2, <1>4, <1>6, <1>7 DEF PollerInv, TypeOK
<1>9. OncePerTick' /\ OneTick' /\ Overdue' /\ ColdStarts'
  BY <1>1, <1>4, <1>6, SamePoll
<1>10. EnabledAreWatched'
  BY <1>1, <1>4 DEF PollerInv, EnabledAreWatched
\* An article seen at some time up to this tick is so after the batch: in the batch, it is
\* seen now.
<1>11. ASSUME NEW h, NEW g, NEW at \in Nat, at <= tick, Seen(h, g, at)
       PROVE  Seen(h, g, at)'
  <2>1. CASE h = f /\ g \in DOMAIN p.body
    <3>1. <<h, g>> \in DOMAIN articles' /\ articles'[<<h, g>>].last_seen_at = tick
      BY <1>4, <2>1
    <3> QED BY <1>11, <3>1 DEF Seen
  <2>2. CASE ~(h = f /\ g \in DOMAIN p.body)
    <3>1. <<h, g>> \notin {f} \X DOMAIN p.body
      BY <2>2
    <3>2. <<h, g>> \in DOMAIN articles' <=> <<h, g>> \in DOMAIN articles
      BY <1>4, <3>1
    <3> QED BY <1>1, <1>4, <1>11, <3>1, <3>2 DEF Seen
  <2> QED BY <2>1, <2>2
<1>12. \A g \in DOMAIN p.body : Seen(f, g, tick)'
  <2> SUFFICES ASSUME NEW g \in DOMAIN p.body PROVE Seen(f, g, tick)'
    OBVIOUS
  <2>1. <<f, g>> \in DOMAIN articles' /\ articles'[<<f, g>>].last_seen_at = tick
    BY <1>4
  <2> QED BY <1>1, <1>2, <2>1 DEF Seen
<1>13. ASSUME NEW g \in q.inserted, <<f, g>> \in DOMAIN handed
       PROVE  handed[<<f, g>>] + Retention < q.now + MaxTickTime
  <2>1. <<f, g>> \notin DOMAIN articles /\ handed[<<f, g>>] \in Nat
    BY <1>5, <1>6, <1>13 DEF PollerInv, TypeOK
  <2>2. Seen(f, g, handed[<<f, g>>])
    BY <1>13 DEF PollerInv, Fates
  <2>3. handed[<<f, g>>] + Retention < clock
    BY <2>1, <2>2 DEF Seen
  <2>4. clock <= tick + MaxTickTime
    BY DEF PollerInv, OneTick
  <2> QED BY <1>2, <1>6, <2>1, <2>3, <2>4, Typed, Numbers
<1>14. Fates'
  <2>1. \A k \in DOMAIN handed :
           handed[k] \in Nat /\ handed[k] <= tick /\ Seen(k[1], k[2], handed[k])'
    BY <1>1, <1>11 DEF PollerInv, Fates, TypeOK
  <2>2. ASSUME NEW r \in polls', r.stage = "inserted"
        PROVE  /\ r.inserted \subseteq DOMAIN r.body
               /\ \A g \in DOMAIN r.body : Seen(r.feed, g, r.now)'
               /\ \A g \in r.inserted : <<r.feed, g>> \in DOMAIN handed =>
                     handed[<<r.feed, g>>] + Retention < r.now + MaxTickTime
    <3>1. r = q
      BY <1>1, <2>2 DEF LoopFree
    <3>2. r.feed = f /\ r.body = p.body /\ r.now = tick /\ r.inserted = NewGuids(f, p.body)
      BY <1>2, <1>6, <3>1
    <3>3. \A g \in DOMAIN r.body : Seen(r.feed, g, r.now)'
      BY <1>1, <1>12, <3>2
    <3>4. \A g \in r.inserted : <<r.feed, g>> \in DOMAIN handed =>
             handed[<<r.feed, g>>] + Retention < r.now + MaxTickTime
      BY <1>6, <1>13, <3>1
    <3> QED BY <1>5, <3>2, <3>3, <3>4
  <2> QED BY <1>1, <2>1, <2>2 DEF Fates, Seen
<1>15. FullSeen'
  <2> SUFFICES ASSUME NEW h \in DOMAIN full', NEW g \in full'[h].body, <<h, g>> \in DOMAIN articles'
               PROVE  articles'[<<h, g>>].last_seen_at >= full'[h].at
    BY DEF FullSeen
  <2>1. CASE h = f
    BY <1>2, <1>4, <1>7, <2>1
  <2>2. CASE h # f
    <3>1. <<h, g>> \notin {f} \X DOMAIN p.body /\ h \in DOMAIN full /\ full'[h] = full[h]
      BY <1>7, <2>2
    <3> QED BY <1>4, <3>1 DEF PollerInv, FullSeen
  <2> QED BY <2>1, <2>2
<1>16. FullResponseKept'
  <2> SUFFICES ASSUME NEW h \in DOMAIN full', NEW g \in full'[h].body
               PROVE  <<h, g>> \in DOMAIN articles' \/ clock' > full'[h].at + Retention
    BY DEF FullResponseKept
  <2>1. CASE h = f
    BY <1>4, <1>7, <2>1
  <2>2. CASE h # f
    BY <1>1, <1>4, <1>7, <2>2 DEF PollerInv, FullResponseKept
  <2> QED BY <2>1, <2>2
<1>17. SuccessForward /\ DueForward /\ NewDueWatched
  BY <1>1, <1>2, <1>4, StatesStay DEF NewDueWatched
<1> QED BY <1>8, <1>9, <1>10, <1>14, <1>15, <1>16, <1>17 DEF PollerInv

\* A second hand-over of a dated article tells of an outage, or of a date ahead.
LEMMA RepeatTells ==
  ASSUME PollerInv
  PROVE  RepeatNeedsOutage
<1> SUFFICES ASSUME NEW p \in polls, p.stage = "inserted", NEW g \in Batch(p),
                    <<p.feed, g>> \in DOMAIN handed, p.body[g] # None
             PROVE  (p.now - p.last_success_at) + Lead(p.body[g], handed[<<p.feed, g>>])
                       + Grace + MaxTickTime > Retention
  BY DEF RepeatNeedsOutage
<1>1. ~p.cold_start
  BY DEF PollerInv, ColdStarts
<1>2. g \in p.inserted /\ p.body[g] + Grace >= p.last_success_at
  BY <1>1 DEF Batch
<1>3. p.now \in Nat /\ p.last_success_at \in Nat
  <2>1. p.last_success_at # None
    BY <1>1 DEF PollerInv, ColdStarts
  <2> QED BY <2>1, Typed
<1>4. handed[<<p.feed, g>>] \in Nat /\ handed[<<p.feed, g>>] + Retention < p.now + MaxTickTime
  BY <1>2 DEF PollerInv, Fates, TypeOK
<1>5. p.body[g] \in Nat
  <2>1. g \in DOMAIN p.body
    BY <1>2 DEF PollerInv, Fates
  <2> QED BY <2>1, Typed, BodyFacts
<1>6. p.body[g] <= handed[<<p.feed, g>>] + Lead(p.body[g], handed[<<p.feed, g>>])
  BY <1>4, <1>5 DEF Lead, Larger
<1>7. Lead(p.body[g], handed[<<p.feed, g>>]) \in Nat
  BY <1>4, <1>5 DEF Lead, Larger
<1> QED BY <1>2, <1>3, <1>4, <1>5, <1>6, <1>7, Numbers

LEMMA RecordKeeps ==
  ASSUME PollerInv, NEW p \in polls, Record(p)
  PROVE  PollerInv' /\ SuccessForward /\ DueForward /\ NewDueWatched
<1>1. PICK delay \in Jittered(BaseInterval) : record_success(p.feed, p.etag, p.now, p.now + delay)
  BY DEF Record
<1>2. /\ p.stage = "inserted" /\ polls' = polls \ {p}
      /\ handed' = [k \in DOMAIN handed \cup HandedBy(p) |->
                       IF k \in HandedBy(p) THEN p.now ELSE handed[k]]
      /\ UNCHANGED <<clock, due, tick, watched, joining, listed, edits, restarts, full>>
  BY DEF Record, envVars
<1>3. \A k \in HandedBy(p) :
         /\ k = <<p.feed, k[2]>> /\ k[1] = p.feed /\ k[2] \in DOMAIN p.body
         /\ p.feed \in DOMAIN feeds
  BY DEF HandedBy
<1>4. /\ p.feed \in FeedIds /\ p.now = tick /\ tick \in Nat /\ tick # None
      /\ p.etag \in Validators \cup {None} /\ p.now + delay \in Nat /\ StoreTypeOK
      /\ DOMAIN p.body \subseteq Guids
  BY Typed, BaseDelays, BodyFacts, NoneAssumption DEF PollerInv, OneTick
<1>5. /\ StoreTypeOK' /\ UNCHANGED <<feeds, articles>> /\ DOMAIN feed_state' = DOMAIN feed_state
      /\ \A g \in DOMAIN feed_state : g # p.feed => feed_state'[g] = feed_state[g]
      /\ p.feed \in DOMAIN feed_state => feed_state'[p.feed].last_success_at = tick
  <2>1. /\ p.now \in Nat /\ p.etag \in Validators \cup {None} /\ p.now + delay \in Nat
        /\ StoreTypeOK
    BY <1>4
  <2>2. /\ StoreTypeOK' /\ UNCHANGED <<feeds, articles>> /\ DOMAIN feed_state' = DOMAIN feed_state
        /\ \A g \in DOMAIN feed_state : g # p.feed => feed_state'[g] = feed_state[g]
        /\ p.feed \in DOMAIN feed_state => feed_state'[p.feed].last_success_at = p.now
    BY <1>1, <2>1, RecordSuccessOK
  <2> QED BY <1>4, <2>2
<1>6. /\ \A r \in polls' : r \in polls /\ r.feed # p.feed
      /\ \A d \in due : d.feed # p.feed
  BY <1>2 DEF PollerInv, OncePerTick, OnePollPerFeed
<1>7. /\ DOMAIN handed' = DOMAIN handed \cup HandedBy(p)
      /\ \A k \in HandedBy(p) : handed'[k] = tick
      /\ \A k \in DOMAIN handed : k \notin HandedBy(p) => handed'[k] = handed[k]
  BY <1>2, <1>4
<1>8. \A k \in DOMAIN handed' : k \in HandedBy(p) \/ (k \in DOMAIN handed /\ k \notin HandedBy(p))
  BY <1>7
<1>9. TypeOK'
  <2>1. DOMAIN handed' \subseteq FeedIds \X Guids
    <3>1. HandedBy(p) \subseteq FeedIds \X Guids
      BY <1>4 DEF HandedBy
    <3> QED BY <1>7, <3>1 DEF PollerInv, TypeOK
  <2>2. \A k \in DOMAIN handed' : handed'[k] \in Nat
    BY <1>4, <1>7, <1>8 DEF PollerInv, TypeOK
  <2> QED BY <1>2, <1>5, <2>1, <2>2 DEF PollerInv, TypeOK
<1>10. OncePerTick'
  BY <1>2 DEF PollerInv, OncePerTick, OnePollPerFeed
<1>11. \A f \in DOMAIN feed_state :
          /\ feed_state[f].last_success_at \in Nat \cup {None}
          /\ feed_state[f].last_success_at # None => feed_state[f].last_success_at <= tick
          /\ feed_state'[f].last_success_at \in {feed_state[f].last_success_at, tick}
          /\ f = p.feed => feed_state'[f].last_success_at = tick
  BY <1>5, Typed DEF PollerInv, OneTick
<1>12. OneTick'
  BY <1>2, <1>4, <1>5, <1>11 DEF PollerInv, OneTick
<1>13. Overdue'
  BY <1>2, <1>5, <1>6 DEF PollerInv, Overdue
<1>14. EnabledAreWatched'
  BY <1>2, <1>5 DEF PollerInv, EnabledAreWatched
<1>15. ColdStarts'
  <2>1. ASSUME NEW k \in DOMAIN handed'
        PROVE  k[1] \in DOMAIN feeds' /\ feed_state'[k[1]].last_success_at # None
    <3>1. CASE k \in DOMAIN handed
      BY <1>4, <1>5, <1>11, <3>1 DEF PollerInv, ColdStarts, StoreTypeOK
    <3>2. CASE k \in HandedBy(p)
      BY <1>3, <1>4, <1>5, <3>2 DEF StoreTypeOK
    <3> QED BY <1>8, <3>1, <3>2
  <2>2. ASSUME NEW r \in polls', r.cold_start, NEW k \in DOMAIN handed' PROVE k[1] # r.feed
    <3>1. r \in polls /\ r.feed # p.feed
      BY <1>6, <2>2
    <3>2. k \in DOMAIN handed => k[1] # r.feed
      BY <2>2, <3>1 DEF PollerInv, ColdStarts
    <3> QED BY <1>3, <1>8, <3>1, <3>2
  <2>3. \A r \in polls' : ~r.cold_start => r.last_success_at # None
    BY <1>2 DEF PollerInv, ColdStarts
  <2> QED BY <2>1, <2>2, <2>3 DEF ColdStarts
<1>16. Fates'
  <2>1. ASSUME NEW k \in DOMAIN handed' PROVE handed'[k] <= tick /\ Seen(k[1], k[2], handed'[k])
    <3>1. CASE k \in DOMAIN handed /\ k \notin HandedBy(p)
      BY <1>7, <3>1 DEF PollerInv, Fates
    <3>2. CASE k \in HandedBy(p)
      <4>1. handed'[k] = tick /\ k[1] = p.feed /\ k[2] \in DOMAIN p.body /\ p.feed \in DOMAIN feeds
        BY <1>3, <1>7, <3>2
      <4>2. Seen(p.feed, k[2], p.now)
        BY <1>2, <4>1 DEF PollerInv, Fates
      <4> QED BY <1>4, <4>1, <4>2
    <3> QED BY <1>8, <3>1, <3>2
  <2>2. ASSUME NEW r \in polls', r.stage = "inserted"
        PROVE  /\ r.inserted \subseteq DOMAIN r.body
               /\ r.feed \in DOMAIN feeds => \A g \in DOMAIN r.body : Seen(r.feed, g, r.now)
               /\ \A g \in r.inserted : <<r.feed, g>> \in DOMAIN handed' =>
                     handed'[<<r.feed, g>>] + Retention < r.now + MaxTickTime
    <3>1. r \in polls /\ r.feed # p.feed
      BY <1>6, <2>2
    <3>2. ASSUME NEW g \in r.inserted, <<r.feed, g>> \in DOMAIN handed'
          PROVE  <<r.feed, g>> \in DOMAIN handed /\ handed'[<<r.feed, g>>] = handed[<<r.feed, g>>]
      <4>1. <<r.feed, g>> \notin HandedBy(p)
        BY <1>3, <3>1
      <4> QED BY <1>7, <1>8, <3>2, <4>1
    <3> QED BY <2>2, <3>1, <3>2 DEF PollerInv, Fates
  <2> QED BY <1>2, <1>5, <2>1, <2>2 DEF Fates, Seen
<1>17. FullSeen' /\ FullResponseKept'
  BY <1>2, <1>5 DEF PollerInv, FullSeen, FullResponseKept
<1>18. SuccessForward
  BY <1>4, <1>11 DEF SuccessForward
<1>19. DueForward
  <2>1. p.feed \in DOMAIN feed_state => feed_state[p.feed].next_poll_at <= clock
    BY DEF PollerInv, Overdue
  <2> SUFFICES ASSUME NEW f \in DOMAIN feed_state, clock < feed_state[f].next_poll_at
               PROVE  feed_state'[f].next_poll_at >= feed_state[f].next_poll_at
    BY DEF DueForward
  <2>2. f # p.feed
    BY <2>1, Typed
  <2> QED BY <1>5, <2>2, Typed
<1>20. NewDueWatched
  BY <1>2 DEF NewDueWatched
<1> QED BY <1>9, <1>10, <1>12, <1>13, <1>14, <1>15, <1>16, <1>17, <1>18, <1>19, <1>20
        DEF PollerInv

----------------------------------------------------------------------------
\* The sockets, the sweep, the servers and the process

\* A step that leaves the polls and the tick alone, the polling states too, and of the
\* rows at most whether they are enabled.
LEMMA FlagsKeep ==
  ASSUME PollerInv, StoreTypeOK', DOMAIN feeds' = DOMAIN feeds,
         UNCHANGED <<feed_state, articles, clock, due, polls, tick, listed, full, handed>>,
         watched' \subseteq FeedIds, joining' \in FeedIds \cup {None},
         edits' \in 0 .. MaxEdits, restarts' \in 0 .. MaxRestarts, EnabledAreWatched'
  PROVE  PollerInv' /\ SuccessForward /\ DueForward /\ NewDueWatched
<1>1. TypeOK'
  BY DEF PollerInv, TypeOK
<1>2. OncePerTick' /\ OneTick' /\ Overdue'
  BY DEF PollerInv, OncePerTick, OnePollPerFeed, OneTick, Overdue
<1>3. ColdStarts'
  BY DEF PollerInv, ColdStarts
<1>4. Fates'
  BY DEF PollerInv, Fates, Seen
<1>5. FullSeen' /\ FullResponseKept'
  BY DEF PollerInv, FullSeen, FullResponseKept
<1>6. SuccessForward /\ DueForward /\ NewDueWatched
  BY StatesStay, Typed DEF NewDueWatched
<1> QED BY <1>1, <1>2, <1>3, <1>4, <1>5, <1>6 DEF PollerInv

LEMMA JoinKeeps ==
  ASSUME PollerInv, NEW url \in Urls, Join(url)
  PROVE  PollerInv' /\ SuccessForward /\ DueForward /\ NewDueWatched
<1>1. PICK id \in FeedIds : upsert_feed(url, clock, id) /\ joining' = id
  BY DEF Join
<1>2. /\ LoopFree
      /\ UNCHANGED <<clock, due, polls, tick, watched, listed, edits, restarts, full, handed>>
  BY DEF Join, pollVars, history
<1>3. StoreTypeOK /\ clock \in Nat
  BY Typed
<1>4. /\ StoreTypeOK'
      /\ DOMAIN feeds' = DOMAIN feeds \cup {id}
      /\ \A f \in DOMAIN feeds : feeds'[f] = feeds[f]
  BY <1>1, <1>3, UpsertFeedOK
<1>5. /\ DOMAIN feed_state' = DOMAIN feed_state \cup {id}
      /\ \A f \in DOMAIN feed_state : feed_state'[f] = feed_state[f]
      /\ id \notin DOMAIN feed_state => feed_state'[id].next_poll_at = clock
      /\ UNCHANGED articles
  BY <1>1, UpsertStateOK
<1>6. id \notin DOMAIN feed_state => feed_state'[id].last_success_at = None
  BY <1>1 DEF upsert_feed
<1>7. TypeOK'
  BY <1>1, <1>2, <1>4 DEF PollerInv, TypeOK
<1>8. OncePerTick'
  BY <1>2 DEF PollerInv, OncePerTick, OnePollPerFeed
<1>9. OneTick'
  <2>1. ASSUME NEW f \in DOMAIN feed_state', feed_state'[f].last_success_at # None
        PROVE  feed_state'[f].last_success_at <= tick
    <3>1. f \in DOMAIN feed_state
      BY <1>5, <1>6, <2>1
    <3> QED BY <1>5, <2>1, <3>1 DEF PollerInv, OneTick
  <2> QED BY <1>2, <2>1 DEF PollerInv, OneTick
<1>10. Overdue'
  <2>1. ASSUME NEW f \in DOMAIN feed_state', f \in DOMAIN feed_state => feed_state[f].next_poll_at <= clock
        PROVE  feed_state'[f].next_poll_at <= clock
    <3>1. CASE f \in DOMAIN feed_state
      BY <1>5, <2>1, <3>1
    <3>2. CASE f \notin DOMAIN feed_state
      BY <1>3, <1>5, <3>2
    <3> QED BY <3>1, <3>2
  <2> QED BY <1>2, <2>1 DEF PollerInv, Overdue
<1>11. EnabledAreWatched'
  <2>1. joining = None
    BY <1>2 DEF LoopFree
  <2> SUFFICES ASSUME NEW f \in DOMAIN feeds', feeds'[f].enabled, f # id
               PROVE  f \in watched
    BY <1>1, <1>2 DEF EnabledAreWatched
  <2>2. f \in DOMAIN feeds /\ feeds[f].enabled /\ f # None
    BY <1>3, <1>4, NoneAssumption DEF StoreTypeOK, FeedIds
  <2> QED BY <2>1, <2>2 DEF PollerInv, EnabledAreWatched
<1>12. ColdStarts'
  <2>1. \A k \in DOMAIN handed : k[1] \in DOMAIN feeds /\ k[1] \in DOMAIN feed_state
    BY <1>3 DEF PollerInv, ColdStarts, StoreTypeOK
  <2> QED BY <1>2, <1>4, <1>5, <2>1 DEF PollerInv, ColdStarts
<1>13. Fates'
  BY <1>2, <1>5 DEF PollerInv, Fates, Seen, LoopFree
<1>14. FullSeen' /\ FullResponseKept'
  BY <1>2, <1>5 DEF PollerInv, FullSeen, FullResponseKept
<1>15. SuccessForward /\ DueForward /\ NewDueWatched
  BY <1>2, <1>3, <1>5, StatesStay DEF NewDueWatched
<1> QED BY <1>7, <1>8, <1>9, <1>10, <1>11, <1>12, <1>13, <1>14, <1>15 DEF PollerInv

LEMMA JoinedKeeps ==
  ASSUME PollerInv, Joined
  PROVE  PollerInv' /\ SuccessForward /\ DueForward /\ NewDueWatched
<1>1. /\ watched' = watched \cup {joining} /\ joining' = None /\ joining # None
      /\ UNCHANGED <<clock, due, polls, tick, listed, edits, restarts, full, handed>>
  BY DEF Joined, pollVars, history
<1>2. StoreTypeOK /\ TypeOK
  BY Typed DEF PollerInv
<1>3. /\ StoreTypeOK' /\ DOMAIN feeds' = DOMAIN feeds /\ UNCHANGED <<feed_state, articles>>
      /\ \A f \in DOMAIN feeds : f # joining => feeds'[f] = feeds[f]
  <2>1. CASE joining \in watched
    BY <1>2, <2>1 DEF Joined, storeVars, StoreTypeOK
  <2>2. CASE joining \notin watched
    <3>1. set_enabled(joining, TRUE)
      BY <2>2 DEF Joined
    <3>2. UNCHANGED <<feed_state, articles>>
      BY <3>1 DEF set_enabled
    <3> QED BY <1>2, <3>1, <3>2, SetEnabledOK
  <2> QED BY <2>1, <2>2
<1>4. EnabledAreWatched'
  BY <1>1, <1>3 DEF PollerInv, EnabledAreWatched
<1>5. watched' \subseteq FeedIds
  BY <1>1, <1>2 DEF TypeOK
<1>6. edits' \in 0 .. MaxEdits /\ restarts' \in 0 .. MaxRestarts /\ joining' \in FeedIds \cup {None}
  BY <1>1, <1>2 DEF TypeOK
<1> QED BY <1>1, <1>3, <1>4, <1>5, <1>6, FlagsKeep

LEMMA PartKeeps ==
  ASSUME PollerInv, NEW f \in watched, Part(f)
  PROVE  PollerInv' /\ SuccessForward /\ DueForward /\ NewDueWatched
<1>1. /\ watched' = watched \ {f} /\ set_enabled(f, FALSE)
      /\ UNCHANGED <<clock, due, polls, tick, joining, listed, edits, restarts, full, handed>>
  BY DEF Part, pollVars, history
<1>2. StoreTypeOK /\ TypeOK
  BY Typed DEF PollerInv
<1>3. UNCHANGED <<feed_state, articles>>
  BY <1>1 DEF set_enabled
<1>4. /\ StoreTypeOK' /\ DOMAIN feeds' = DOMAIN feeds
      /\ \A g \in DOMAIN feeds : g # f => feeds'[g] = feeds[g]
      /\ f \in DOMAIN feeds => feeds'[f].enabled = FALSE
  BY <1>1, <1>2, SetEnabledOK
<1>5. EnabledAreWatched'
  BY <1>1, <1>4 DEF PollerInv, EnabledAreWatched
<1>6. /\ watched' \subseteq FeedIds /\ joining' \in FeedIds \cup {None}
      /\ edits' \in 0 .. MaxEdits /\ restarts' \in 0 .. MaxRestarts
  BY <1>1, <1>2 DEF TypeOK
<1> QED BY <1>1, <1>3, <1>4, <1>5, <1>6, FlagsKeep

LEMMA SweepArticlesKeeps ==
  ASSUME PollerInv, SweepArticles
  PROVE  PollerInv' /\ SuccessForward /\ DueForward /\ NewDueWatched
<1>1. /\ sweep(clock, Retention)
      /\ UNCHANGED <<clock, due, polls, tick, watched, joining, listed, edits, restarts, full, handed>>
  BY DEF SweepArticles, pollVars, envVars, history
<1>2. StoreTypeOK /\ TypeOK
  BY Typed DEF PollerInv
<1>3. /\ StoreTypeOK' /\ UNCHANGED <<feeds, feed_state>>
      /\ DOMAIN articles' = {k \in DOMAIN articles : ~(articles[k].last_seen_at + Retention < clock)}
      /\ \A k \in DOMAIN articles' : articles'[k] = articles[k]
  BY <1>1, <1>2, SweepOK
<1>4. \A k \in DOMAIN articles :
         /\ k \in (DOMAIN feeds) \X Guids /\ articles[k].last_seen_at \in Nat
         /\ k \notin DOMAIN articles' => articles[k].last_seen_at + Retention < clock
  BY <1>2, <1>3 DEF StoreTypeOK, ArticleRow
<1>5. TypeOK'
  BY <1>1, <1>2, <1>3 DEF TypeOK
<1>6. OncePerTick' /\ OneTick' /\ Overdue'
  BY <1>1, <1>3 DEF PollerInv, OncePerTick, OnePollPerFeed, OneTick, Overdue
<1>7. EnabledAreWatched' /\ ColdStarts'
  BY <1>1, <1>3 DEF PollerInv, EnabledAreWatched, ColdStarts
<1>8. ASSUME NEW f, NEW g, NEW at \in Nat, Seen(f, g, at)
      PROVE  Seen(f, g, at)'
  <2>1. CASE <<f, g>> \in DOMAIN articles'
    BY <1>3, <1>8, <2>1 DEF Seen
  <2>2. CASE <<f, g>> \notin DOMAIN articles
    BY <1>1, <1>3, <1>8, <2>2 DEF Seen
  <2>3. CASE <<f, g>> \in DOMAIN articles /\ <<f, g>> \notin DOMAIN articles'
    <3>1. /\ at <= articles[<<f, g>>].last_seen_at
          /\ articles[<<f, g>>].last_seen_at + Retention < clock
          /\ articles[<<f, g>>].last_seen_at \in Nat
      BY <1>4, <1>8, <2>3 DEF Seen
    <3>2. at + Retention < clock
      BY <3>1, Numbers, Typed
    <3> QED BY <1>1, <2>3, <3>2 DEF Seen
  <2> QED BY <2>1, <2>2, <2>3
<1>9. Fates'
  <2>1. \A k \in DOMAIN handed : handed[k] \in Nat /\ handed[k] <= tick /\ Seen(k[1], k[2], handed[k])'
    BY <1>1, <1>2, <1>8 DEF PollerInv, Fates, TypeOK
  <2>2. \A p \in polls : p.stage = "inserted" /\ p.feed \in DOMAIN feeds =>
           \A g \in DOMAIN p.body : Seen(p.feed, g, p.now)'
    BY <1>1, <1>8, Typed DEF PollerInv, Fates
  <2>3. \A p \in polls : p.stage = "inserted" =>
           /\ p.inserted \subseteq DOMAIN p.body
           /\ \A g \in p.inserted : <<p.feed, g>> \in DOMAIN handed =>
                 handed[<<p.feed, g>>] + Retention < p.now + MaxTickTime
    BY DEF PollerInv, Fates
  <2> QED BY <1>1, <1>3, <2>1, <2>2, <2>3 DEF Fates, Seen
<1>10. FullSeen'
  BY <1>1, <1>3 DEF PollerInv, FullSeen
<1>11. FullResponseKept'
  <2> SUFFICES ASSUME NEW f \in DOMAIN full, NEW g \in full[f].body, <<f, g>> \notin DOMAIN articles'
               PROVE  clock > full[f].at + Retention
    BY <1>1 DEF FullResponseKept
  <2>1. full[f].at \in Nat
    BY <1>2 DEF TypeOK
  <2>2. CASE <<f, g>> \in DOMAIN articles
    <3>1. /\ articles[<<f, g>>].last_seen_at >= full[f].at
          /\ articles[<<f, g>>].last_seen_at + Retention < clock
          /\ articles[<<f, g>>].last_seen_at \in Nat
      BY <1>4, <2>2 DEF PollerInv, FullSeen
    <3> QED BY <2>1, <3>1, Numbers, Typed
  <2>3. CASE <<f, g>> \notin DOMAIN articles
    BY <2>3 DEF PollerInv, FullResponseKept
  <2> QED BY <2>2, <2>3
<1>12. SuccessForward /\ DueForward /\ NewDueWatched
  BY <1>1, <1>2, <1>3, StatesStay DEF NewDueWatched
<1> QED BY <1>5, <1>6, <1>7, <1>9, <1>10, <1>11, <1>12 DEF PollerInv

LEMMA SweepFeedsKeeps ==
  ASSUME PollerInv, SweepFeeds
  PROVE  PollerInv' /\ SuccessForward /\ DueForward /\ NewDueWatched
<1>1. /\ drop_disabled_feeds
      /\ full' = [f \in DOMAIN full \cap EnabledFeeds |-> full[f]]
      /\ handed' = [k \in {k \in DOMAIN handed : k[1] \in EnabledFeeds} |-> handed[k]]
      /\ UNCHANGED <<clock, due, polls, tick, watched, joining, listed, edits, restarts>>
  BY DEF SweepFeeds, pollVars, envVars
<1>2. StoreTypeOK /\ TypeOK
  BY Typed DEF PollerInv
<1>3. /\ StoreTypeOK' /\ DOMAIN feeds' = EnabledFeeds
      /\ \A f \in EnabledFeeds : feeds'[f] = feeds[f]
  BY <1>1, <1>2, DropDisabledFeedsOK
<1>4. /\ DOMAIN feed_state' = EnabledFeeds
      /\ \A f \in EnabledFeeds : feed_state'[f] = feed_state[f]
      /\ DOMAIN articles' = {k \in DOMAIN articles : k[1] \in EnabledFeeds}
      /\ \A k \in DOMAIN articles' : articles'[k] = articles[k]
  BY <1>1, <1>2, DropStateOK
<1>5. EnabledFeeds \subseteq DOMAIN feeds /\ EnabledFeeds \subseteq DOMAIN feed_state
  BY <1>2 DEF EnabledFeeds, StoreTypeOK
<1>6. /\ DOMAIN full' = DOMAIN full \cap EnabledFeeds
      /\ \A f \in DOMAIN full' : full'[f] = full[f]
      /\ DOMAIN handed' = {k \in DOMAIN handed : k[1] \in EnabledFeeds}
      /\ \A k \in DOMAIN handed' : handed'[k] = handed[k]
  BY <1>1
<1>7. TypeOK'
  BY <1>1, <1>2, <1>3, <1>6 DEF TypeOK
<1>8. OncePerTick'
  BY <1>1 DEF PollerInv, OncePerTick, OnePollPerFeed
<1>9. OneTick' /\ Overdue'
  BY <1>1, <1>4, <1>5 DEF PollerInv, OneTick, Overdue
<1>10. EnabledAreWatched'
  BY <1>1, <1>3, <1>5 DEF PollerInv, EnabledAreWatched
<1>11. ColdStarts'
  BY <1>1, <1>3, <1>4, <1>6 DEF PollerInv, ColdStarts
<1>12. ASSUME NEW f \in EnabledFeeds, NEW g, NEW at, Seen(f, g, at)
       PROVE  Seen(f, g, at)'
  <2>1. <<f, g>> \in DOMAIN articles' <=> <<f, g>> \in DOMAIN articles
    BY <1>4
  <2> QED BY <1>1, <1>4, <1>12, <2>1 DEF Seen
<1>13. Fates'
  <2>1. ASSUME NEW k \in DOMAIN handed'
        PROVE  handed'[k] <= tick /\ Seen(k[1], k[2], handed[k])'
    <3>1. k \in DOMAIN handed /\ k[1] \in EnabledFeeds /\ handed'[k] = handed[k]
      BY <1>6
    <3>2. handed[k] <= tick /\ Seen(k[1], k[2], handed[k])
      BY <3>1 DEF PollerInv, Fates
    <3> QED BY <1>12, <3>1, <3>2
  <2>2. \A p \in polls : p.stage = "inserted" /\ p.feed \in DOMAIN feeds' =>
           \A g \in DOMAIN p.body : Seen(p.feed, g, p.now)'
    BY <1>3, <1>5, <1>12 DEF PollerInv, Fates
  <2>3. \A p \in polls : p.stage = "inserted" =>
           /\ p.inserted \subseteq DOMAIN p.body
           /\ \A g \in p.inserted : <<p.feed, g>> \in DOMAIN handed' =>
                 handed'[<<p.feed, g>>] + Retention < p.now + MaxTickTime
    BY <1>6 DEF PollerInv, Fates
  <2> QED BY <1>1, <2>1, <2>2, <2>3 DEF Fates, Seen
<1>14. FullSeen'
  BY <1>4, <1>6 DEF PollerInv, FullSeen
<1>15. FullResponseKept'
  BY <1>1, <1>4, <1>6 DEF PollerInv, FullResponseKept
<1>16. SuccessForward /\ DueForward /\ NewDueWatched
  BY <1>1, <1>2, <1>4, StatesStay DEF NewDueWatched
<1> QED BY <1>7, <1>8, <1>9, <1>10, <1>11, <1>13, <1>14, <1>15, <1>16 DEF PollerInv

LEMMA EditKeeps ==
  ASSUME PollerInv, NEW g \in Guids, Edit(g)
  PROVE  PollerInv' /\ SuccessForward /\ DueForward /\ NewDueWatched
<1> DEFINE url == Publisher[g]
           old == listed[url]
           dated(date) == [h \in DOMAIN old \cup {g} |-> IF h = g THEN date ELSE old[h]]
           shorter == [h \in DOMAIN old \ {g} |-> old[h]]
<1>1. /\ edits' = edits + 1 /\ edits < MaxEdits
      /\ UNCHANGED <<feeds, feed_state, articles, clock, due, polls, tick, watched, joining, restarts,
                     full, handed>>
      /\ \/ \E date \in Dates[g] : listed' = [listed EXCEPT ![url] = dated(date)]
         \/ listed' = [listed EXCEPT ![url] = shorter]
  BY DEF Edit, storeVars, pollVars, history
<1>2. /\ StoreTypeOK /\ TypeOK /\ listed \in [Urls -> Bodies] /\ url \in Urls /\ old \in Bodies
      /\ edits \in 0 .. MaxEdits /\ MaxEdits \in Nat
  BY Typed, PollerAssumption DEF PollerInv, TypeOK
<1> HIDE DEF url, old
<1>3. DOMAIN old \subseteq Guids /\ \A h \in DOMAIN old : old[h] \in Dates[h]
  BY <1>2, BodyFacts
<1>4. \A date \in Dates[g] : dated(date) \in Bodies
  <2> SUFFICES ASSUME NEW date \in Dates[g] PROVE dated(date) \in Bodies
    OBVIOUS
  <2>1. DOMAIN old \cup {g} \in SUBSET Guids
    BY <1>3
  <2>2. \A h \in DOMAIN old \cup {g} : dated(date)[h] \in Dates[h]
    BY <1>3
  <2>3. dated(date) = [h \in DOMAIN old \cup {g} |-> dated(date)[h]]
    OBVIOUS
  <2> HIDE DEF dated
  <2> QED BY <2>1, <2>2, <2>3, BodyFacts
<1>5. shorter \in Bodies
  <2>1. DOMAIN old \ {g} \in SUBSET Guids
    BY <1>3
  <2>2. \A h \in DOMAIN old \ {g} : shorter[h] \in Dates[h]
    BY <1>3
  <2>3. shorter = [h \in DOMAIN old \ {g} |-> shorter[h]]
    OBVIOUS
  <2> HIDE DEF shorter
  <2> QED BY <2>1, <2>2, <2>3, BodyFacts
<1> HIDE DEF dated, shorter
<1>6. listed' \in [Urls -> Bodies]
  BY <1>1, <1>2, <1>4, <1>5
<1>7. TypeOK'
  <2>1. edits' \in 0 .. MaxEdits
    BY <1>1, <1>2
  <2>2. StoreTypeOK'
    BY <1>1, <1>2 DEF StoreTypeOK
  <2> QED BY <1>1, <1>2, <1>6, <2>1, <2>2 DEF TypeOK
<1>8. OncePerTick' /\ OneTick' /\ Overdue' /\ EnabledAreWatched' /\ ColdStarts'
  BY <1>1 DEF PollerInv, OncePerTick, OnePollPerFeed, OneTick, Overdue, EnabledAreWatched, ColdStarts
<1>9. Fates' /\ FullSeen' /\ FullResponseKept'
  BY <1>1 DEF PollerInv, Fates, Seen, FullSeen, FullResponseKept
<1>10. SuccessForward /\ DueForward /\ NewDueWatched
  BY <1>1, <1>2, StatesStay DEF NewDueWatched
<1> QED BY <1>7, <1>8, <1>9, <1>10 DEF PollerInv

LEMMA TickKeeps ==
  ASSUME PollerInv, Tick
  PROVE  PollerInv' /\ SuccessForward /\ DueForward /\ NewDueWatched
<1>1. /\ clock' = clock + 1 /\ clock < MaxTime
      /\ due \cup polls # {} => clock < tick + MaxTickTime
      /\ UNCHANGED <<feeds, feed_state, articles, due, polls, tick, watched, joining, listed, edits,
                     restarts, full, handed>>
  BY DEF Tick, storeVars, pollVars, envVars, history
<1>2. StoreTypeOK /\ TypeOK /\ clock \in Nat /\ tick \in Nat /\ clock' \in Nat
  BY <1>1, Typed DEF PollerInv
<1>3. TypeOK'
  <2>1. clock' \in 0 .. MaxTime /\ tick' \in 0 .. clock'
    BY <1>1, <1>2, Numbers, Typed
  <2>2. StoreTypeOK'
    BY <1>1, <1>2 DEF StoreTypeOK
  <2> QED BY <1>1, <1>2, <2>1, <2>2 DEF TypeOK
<1>4. OncePerTick' /\ EnabledAreWatched' /\ ColdStarts' /\ FullSeen'
  BY <1>1 DEF PollerInv, OncePerTick, OnePollPerFeed, EnabledAreWatched, ColdStarts, FullSeen
<1>5. OneTick'
  <2>1. due \cup polls # {} => clock' <= tick + MaxTickTime
    BY <1>1, <1>2, Numbers
  <2> QED BY <1>1, <2>1 DEF PollerInv, OneTick
<1>6. Overdue'
  <2>1. \A f \in DOMAIN feed_state :
           feed_state[f].next_poll_at <= clock => feed_state[f].next_poll_at <= clock'
    BY <1>1, Typed
  <2> QED BY <1>1, <2>1 DEF PollerInv, Overdue
<1>7. ASSUME NEW f, NEW g, NEW at \in Nat, Seen(f, g, at)
      PROVE  Seen(f, g, at)'
  <2>1. CASE <<f, g>> \in DOMAIN articles
    BY <1>1, <1>7, <2>1 DEF Seen
  <2>2. CASE <<f, g>> \notin DOMAIN articles
    <3>1. at + Retention < clock
      BY <1>7, <2>2 DEF Seen
    <3>2. at + Retention < clock'
      BY <1>1, <1>2, <3>1, Numbers
    <3> QED BY <1>1, <2>2, <3>2 DEF Seen
  <2> QED BY <2>1, <2>2
<1>8. Fates'
  <2>1. \A k \in DOMAIN handed : handed[k] \in Nat /\ handed[k] <= tick /\ Seen(k[1], k[2], handed[k])'
    BY <1>1, <1>2, <1>7 DEF PollerInv, Fates, TypeOK
  <2>2. \A p \in polls : p.stage = "inserted" /\ p.feed \in DOMAIN feeds =>
           \A g \in DOMAIN p.body : Seen(p.feed, g, p.now)'
    BY <1>7, Typed DEF PollerInv, Fates
  <2>3. \A p \in polls : p.stage = "inserted" =>
           /\ p.inserted \subseteq DOMAIN p.body
           /\ \A g \in p.inserted : <<p.feed, g>> \in DOMAIN handed =>
                 handed[<<p.feed, g>>] + Retention < p.now + MaxTickTime
    BY DEF PollerInv, Fates
  <2> QED BY <1>1, <2>1, <2>2, <2>3 DEF Fates, Seen
<1>9. FullResponseKept'
  <2> SUFFICES ASSUME NEW f \in DOMAIN full, NEW g \in full[f].body, <<f, g>> \notin DOMAIN articles
               PROVE  clock' > full[f].at + Retention
    BY <1>1 DEF FullResponseKept
  <2>1. full[f].at \in Nat /\ clock > full[f].at + Retention
    BY <1>2 DEF TypeOK, PollerInv, FullResponseKept
  <2> QED BY <1>1, <1>2, <2>1, Numbers
<1>10. SuccessForward /\ DueForward /\ NewDueWatched
  BY <1>1, <1>2, StatesStay DEF NewDueWatched
<1> QED BY <1>3, <1>4, <1>5, <1>6, <1>8, <1>9, <1>10 DEF PollerInv

LEMMA RestartKeeps ==
  ASSUME PollerInv, Restart
  PROVE  PollerInv' /\ SuccessForward /\ DueForward /\ NewDueWatched
<1>1. /\ restarts < MaxRestarts /\ restarts' = restarts + 1 /\ disable_all_feeds
      /\ due' = {} /\ polls' = {} /\ watched' = {} /\ joining' = None
      /\ UNCHANGED <<clock, tick, listed, edits, full, handed>>
  BY DEF Restart, history
<1>2. StoreTypeOK /\ TypeOK
  BY Typed DEF PollerInv
<1>3. UNCHANGED <<feed_state, articles>>
  BY <1>1 DEF disable_all_feeds
<1>4. /\ StoreTypeOK' /\ DOMAIN feeds' = DOMAIN feeds
      /\ \A f \in DOMAIN feeds : feeds'[f].enabled = FALSE
  BY <1>1, <1>2, DisableAllFeedsOK
<1>5. TypeOK'
  <2>1. restarts' \in 0 .. MaxRestarts
    BY <1>1, <1>2, PollerAssumption DEF TypeOK
  <2> QED BY <1>1, <1>2, <1>4, <2>1 DEF TypeOK
<1>6. OncePerTick' /\ OneTick' /\ Overdue' /\ EnabledAreWatched' /\ ColdStarts'
  BY <1>1, <1>3, <1>4 DEF PollerInv, OncePerTick, OnePollPerFeed, OneTick, Overdue,
                          EnabledAreWatched, ColdStarts
<1>7. Fates'
  BY <1>1, <1>3, <1>4 DEF PollerInv, Fates, Seen
<1>8. FullSeen' /\ FullResponseKept'
  BY <1>1, <1>3 DEF PollerInv, FullSeen, FullResponseKept
<1>9. SuccessForward /\ DueForward /\ NewDueWatched
  BY <1>1, <1>2, <1>3, StatesStay DEF NewDueWatched
<1> QED BY <1>5, <1>6, <1>7, <1>8, <1>9 DEF PollerInv

----------------------------------------------------------------------------
\* The theorems

LEMMA InitKeeps == Init => PollerInv
<1> SUFFICES ASSUME Init PROVE PollerInv
  OBVIOUS
<1>1. /\ EmptyStore /\ clock = 0 /\ due = {} /\ polls = {} /\ tick = 0 /\ watched = {}
      /\ joining = None /\ listed = [u \in Urls |-> NoBody] /\ edits = 0 /\ restarts = 0
      /\ full = <<>> /\ handed = <<>>
  BY DEF Init
<1>2. StoreTypeOK /\ feeds = <<>> /\ feed_state = <<>>
  BY <1>1, EmptyStoreOK DEF EmptyStore
<1>3. DOMAIN feeds = {} /\ DOMAIN feed_state = {} /\ DOMAIN full = {} /\ DOMAIN handed = {}
  BY <1>1, <1>2
<1>4. TypeOK
  BY <1>1, <1>2, <1>3, PollerAssumption, NoBodyIsBody DEF TypeOK
<1>5. OncePerTick /\ OneTick /\ Overdue /\ EnabledAreWatched /\ ColdStarts
  BY <1>1, <1>3 DEF OncePerTick, OnePollPerFeed, OneTick, Overdue, EnabledAreWatched, ColdStarts
<1>6. Fates /\ FullSeen /\ FullResponseKept
  BY <1>1, <1>3 DEF Fates, FullSeen, FullResponseKept
<1> QED BY <1>4, <1>5, <1>6 DEF PollerInv

LEMMA PollStepKeeps ==
  ASSUME PollerInv, NEW p \in polls, PollStep(p)
  PROVE  PollerInv' /\ SuccessForward /\ DueForward /\ NewDueWatched
  BY FetchFailsKeeps, NotModifiedKeeps, FetchOkKeeps, ParsedEmptyKeeps, InsertKeeps,
     PollRaisesKeeps, RecordKeeps DEF PollStep

LEMMA StepKeeps ==
  ASSUME PollerInv, [Next]_vars
  PROVE  PollerInv' /\ SuccessForward /\ DueForward /\ NewDueWatched
<1>1. CASE UNCHANGED vars
  <2>1. UNCHANGED <<feeds, feed_state, articles, clock, due, polls, tick, watched, joining, listed,
                    edits, restarts, full, handed>>
    BY <1>1 DEF vars, storeVars, pollVars, envVars, history
  <2>2. StoreTypeOK /\ StoreTypeOK' /\ TypeOK /\ EnabledAreWatched'
    BY <2>1, Typed DEF StoreTypeOK, PollerInv, EnabledAreWatched
  <2> QED BY <2>1, <2>2, FlagsKeep DEF TypeOK
<1>2. CASE RunOnce
  BY <1>2, RunOnceKeeps
<1>3. ASSUME NEW d \in due, StartPoll(d)
      PROVE  PollerInv' /\ SuccessForward /\ DueForward /\ NewDueWatched
  BY <1>3, StartPollKeeps
<1>4. ASSUME NEW p \in polls, PollStep(p)
      PROVE  PollerInv' /\ SuccessForward /\ DueForward /\ NewDueWatched
  BY <1>4, PollStepKeeps
<1>5. ASSUME NEW url \in Urls, Join(url)
      PROVE  PollerInv' /\ SuccessForward /\ DueForward /\ NewDueWatched
  BY <1>5, JoinKeeps
<1>6. ASSUME NEW f \in watched, Part(f)
      PROVE  PollerInv' /\ SuccessForward /\ DueForward /\ NewDueWatched
  BY <1>6, PartKeeps
<1>7. ASSUME NEW g \in Guids, Edit(g)
      PROVE  PollerInv' /\ SuccessForward /\ DueForward /\ NewDueWatched
  BY <1>7, EditKeeps
<1>8. CASE Joined \/ SweepArticles \/ SweepFeeds \/ Tick \/ Restart
  BY <1>8, JoinedKeeps, SweepArticlesKeeps, SweepFeedsKeeps, TickKeeps, RestartKeeps
<1> QED BY <1>1, <1>2, <1>3, <1>4, <1>5, <1>6, <1>7, <1>8 DEF Next

LEMMA Invariance == Spec => []PollerInv
<1>1. PollerInv /\ [Next]_vars => PollerInv'
  BY StepKeeps
<1> QED BY <1>1, InitKeeps, PTL DEF Spec

\* In every interleaving of ticks, polls, sockets, sweeps and restarts the tables stay
\* well formed, and a poll holds only values a poll can hold.
THEOREM PollerTypeCorrect == Spec => []TypeOK
<1>1. PollerInv => TypeOK
  BY DEF PollerInv
<1> QED BY <1>1, Invariance, PTL

\* However many polls run at a time, no two are of the same feed id.
THEOREM PolledOnce == Spec => []OnePollPerFeed
<1>1. PollerInv => OnePollPerFeed
  BY DEF PollerInv, OncePerTick
<1> QED BY <1>1, Invariance, PTL

\* What a full response listed is in the store until the retention after it has passed.
THEOREM FullResponsesStay == Spec => []FullResponseKept
<1>1. PollerInv => FullResponseKept
  BY DEF PollerInv
<1> QED BY <1>1, Invariance, PTL

\* For any dates, retention and grace: a dated article is handed over again only to a
\* feed that had not been read for the retention, less the grace, a tick, and what its
\* date lies after the time the feed last listed it.
THEOREM RepeatsTellOutage == Spec => []RepeatNeedsOutage
<1>1. PollerInv => RepeatNeedsOutage
  BY RepeatTells
<1> QED BY <1>1, Invariance, PTL

\* No result is recorded over that of a later poll.
THEOREM SuccessIsForward == Spec => SuccessMovesForward
<1>1. PollerInv /\ [Next]_vars =>
        [\A f \in DOMAIN feed_state \cap DOMAIN feed_state' :
            feed_state[f].last_success_at # None =>
                /\ feed_state'[f].last_success_at # None
                /\ feed_state'[f].last_success_at >= feed_state[f].last_success_at]_vars
  BY StepKeeps DEF SuccessForward
<1> QED BY <1>1, Invariance, PTL DEF Spec, SuccessMovesForward

\* A backoff or a Retry-After stands until its time has come.
THEOREM BackoffStands == Spec => NeverBroughtForward
<1>1. PollerInv /\ [Next]_vars =>
        [\A f \in DOMAIN feed_state \cap DOMAIN feed_state' :
            clock < feed_state[f].next_poll_at =>
                feed_state'[f].next_poll_at >= feed_state[f].next_poll_at]_vars
  BY StepKeeps DEF DueForward
<1> QED BY <1>1, Invariance, PTL DEF Spec, NeverBroughtForward

\* A tick begins with watched feeds only.
THEOREM TicksAreWatched == Spec => StopsWithinTick
<1>1. PollerInv /\ [Next]_vars => [\A d \in due' \ due : d.feed \in watched]_vars
  BY StepKeeps DEF NewDueWatched
<1> QED BY <1>1, Invariance, PTL DEF Spec, StopsWithinTick
=============================================================================
