--------------------------- MODULE LiveCacheProofs ---------------------------
(***************************************************************************)
(* The promises of the Live TV cache, for any number of channels, clients  *)
(* and pages and any values of the two time limits.                        *)
(***************************************************************************)
EXTENDS LiveCache, SequenceTheorems, TLAPS

Fetching(r, c) == request[r].at = "fetching" /\ request[r].channel = c

RequestState == [at : {"idle", "waiting", "fetching"},
                 channel : Channels \cup {None}, now : Nat]

\* The variables' ranges.
Ranges ==
    /\ clock \in 0 .. MaxTime
    /\ entries \in [Channels -> Entry]
    /\ lock \in [Channels -> Seq(Requests)]
    /\ request \in [Requests -> RequestState]
    /\ fetched \in [Channels -> Nat \cup {None}]
    /\ seen \in [Channels -> [VideoIds -> Nat \cup {None}]]
    /\ served \in [Requests -> Nat \cup {None}]

\* The queue of a channel holds the requests for it, once each, and a fetch is under
\* way only at its head.
Queue(c) ==
    /\ IsInjective(lock[c])
    /\ \A r \in Requests : request[r].channel = c <=> Contains(lock[c], r)
    /\ \A r \in Requests : Fetching(r, c) => Head(lock[c]) = r

\* What an entry says against `ids`, when each id was last seen live, and `at`, when the
\* last fetch began: its ids were seen at the times it gives, with no "not live" since.
Truthful(e, ids, at) ==
    /\ e.cached_at # None => at # None /\ e.cached_at <= at
    /\ \A vid \in VideoIds : ids[vid] # None => at # None /\ ids[vid] <= at
    /\ e.good_id # None => ids[e.good_id] # None /\ e.good_at = ids[e.good_id]
    /\ e.cached # None =>
          /\ e.cached_at # None /\ ids[e.cached] # None
          /\ e.cached_at = ids[e.cached] \/ e.cached_at < ids[e.cached] + StaleTTL

\* The entry of a channel and its fetches: while none is under way the entry carries
\* the time of the last one, and while one is, the request does.
Remembered(c) ==
    /\ fetched[c] # None => fetched[c] <= clock
    /\ \A r \in Requests : Fetching(r, c) => fetched[c] = request[r].now
    /\ (\A r \in Requests : ~Fetching(r, c)) => entries[c].cached_at = fetched[c]
    /\ Truthful(entries[c], seen[c], fetched[c])

CacheInv ==
    /\ Ranges
    /\ \A c \in Channels : Queue(c) /\ Remembered(c)
    /\ AnswersAreRecent

----------------------------------------------------------------------------
\* Queues

\* The head of a queue without repetitions leaves, and the others keep their places.
LEMMA TailOfQueue ==
  ASSUME NEW q \in Seq(Requests), q # <<>>, IsInjective(q)
  PROVE  /\ Tail(q) \in Seq(Requests)
         /\ IsInjective(Tail(q))
         /\ \A r \in Requests : Contains(Tail(q), r) <=> Contains(q, r) /\ r # Head(q)
<1>1. /\ Tail(q) \in Seq(Requests) /\ Len(q) \in Nat \ {0}
      /\ Len(Tail(q)) = Len(q) - 1 /\ Head(q) = q[1]
      /\ \A i \in 1 .. Len(q) - 1 : Tail(q)[i] = q[i + 1]
  BY HeadTailProperties, EmptySeq
<1>2. DOMAIN q = 1 .. Len(q) /\ DOMAIN Tail(q) = 1 .. Len(q) - 1
  BY <1>1, LenProperties
<1>3. IsInjective(Tail(q))
  BY <1>1, <1>2 DEF IsInjective
<1>4. ASSUME NEW r \in Requests
      PROVE  Contains(Tail(q), r) <=> Contains(q, r) /\ r # Head(q)
  <2>1. ASSUME Contains(Tail(q), r) PROVE Contains(q, r) /\ r # Head(q)
    <3>1. PICK i \in 1 .. Len(q) - 1 : q[i + 1] = r
      BY <1>1, <2>1 DEF Contains
    <3>2. i + 1 \in 1 .. Len(q) /\ i + 1 # 1 /\ 1 \in 1 .. Len(q)
      BY <1>1
    <3> QED BY <1>1, <1>2, <3>1, <3>2 DEF Contains, IsInjective
  <2>2. ASSUME Contains(q, r), r # Head(q) PROVE Contains(Tail(q), r)
    <3>1. PICK i \in 1 .. Len(q) : q[i] = r
      BY <2>2 DEF Contains
    <3>2. i - 1 \in 1 .. Len(q) - 1 /\ Tail(q)[i - 1] = r
      BY <1>1, <2>2, <3>1
    <3> QED BY <1>1, <3>2 DEF Contains
  <2> QED BY <2>1, <2>2
<1> QED BY <1>1, <1>3, <1>4

\* A request that is not waiting joins a queue at its end.
LEMMA JoinQueue ==
  ASSUME NEW q \in Seq(Requests), NEW r \in Requests, IsInjective(q), ~Contains(q, r)
  PROVE  /\ Append(q, r) \in Seq(Requests)
         /\ IsInjective(Append(q, r))
         /\ \A p \in Requests : Contains(Append(q, r), p) <=> Contains(q, p) \/ p = r
         /\ q # <<>> => Head(Append(q, r)) = Head(q)
         /\ q = <<>> => Append(q, r) = <<r>>
         /\ Append(q, r) # <<>>
<1> DEFINE n == Len(q)
           a == Append(q, r)
<1>1. /\ n \in Nat /\ a \in Seq(Requests) /\ Len(a) = n + 1
      /\ \A i \in 1 .. n : a[i] = q[i]
      /\ a[n + 1] = r
  BY AppendProperties, LenProperties
<1>2. DOMAIN q = 1 .. n /\ DOMAIN a = 1 .. n + 1
  BY <1>1, LenProperties
<1> HIDE DEF a
<1>3. \A i \in 1 .. n + 1 : i \in 1 .. n \/ i = n + 1
  BY <1>1
<1>4. IsInjective(a)
  BY <1>1, <1>2, <1>3 DEF IsInjective, Contains
<1>5. \A p \in Requests : Contains(a, p) <=> Contains(q, p) \/ p = r
  BY <1>1, <1>3 DEF Contains
<1>6. a # <<>>
  BY <1>1, EmptySeq
<1>7. q # <<>> => Head(a) = Head(q)
  <2>1. q # <<>> => 1 \in 1 .. n
    BY EmptySeq
  <2> QED BY <1>1, <1>6, <2>1, HeadTailProperties DEF n
<1>8. q = <<>> => Append(q, r) = <<r>>
  OBVIOUS
<1> QED BY <1>1, <1>4, <1>5, <1>6, <1>7, <1>8 DEF a

----------------------------------------------------------------------------
\* One turn with the lock

\* r holds the lock of c, in the queue q.
TurnOf(r, c, q) ==
    /\ q \in Seq(Requests) /\ q # <<>> /\ IsInjective(q) /\ Head(q) = r
    /\ \A p \in Requests : Contains(q, p) <=> request[p].channel = c \/ p = r
    /\ request[r].channel \in {None, c}
    /\ \A p \in Requests : Fetching(p, c) => p = r

\* A request that finds the lock free has the turn.
LEMMA FreeTurn ==
  ASSUME CacheInv, NEW r \in Requests, NEW c \in Channels,
         request[r] = Idle, lock[c] = <<>>
  PROVE  TurnOf(r, c, <<r>>)
<1>1. <<r>> \in Seq(Requests) /\ <<r>> # <<>> /\ Head(<<r>>) = r
  OBVIOUS
<1>2. IsInjective(<<r>>) /\ \A p \in Requests : Contains(<<r>>, p) <=> p = r
  BY DEF IsInjective, Contains
<1>3. \A p \in Requests : request[p].channel # c
  BY DEF CacheInv, Queue, Contains
<1>4. request[r].channel = None
  BY DEF Idle
<1> QED BY <1>1, <1>2, <1>3, <1>4 DEF TurnOf, Fetching

\* The head of a queue has the turn; a request that fetches is a head.
LEMMA HeadTurn ==
  ASSUME CacheInv, NEW r \in Requests, NEW c \in Channels,
         \/ lock[c] # <<>> /\ Head(lock[c]) = r
         \/ Fetching(r, c)
  PROVE  TurnOf(r, c, lock[c]) /\ request[r].channel = c
<1>1. lock[c] \in Seq(Requests) /\ Queue(c)
  BY DEF CacheInv, Ranges
<1>2. lock[c] # <<>> /\ Head(lock[c]) = r
  BY <1>1 DEF Queue, Contains, Fetching
<1>3. Contains(lock[c], r)
  <2>1. 1 \in 1 .. Len(lock[c]) /\ lock[c][1] = r
    BY <1>1, <1>2, EmptySeq
  <2> QED BY <2>1 DEF Contains
<1> QED BY <1>1, <1>2, <1>3 DEF TurnOf, Queue

\* An answer releases the lock: the queues stay in order, and no other request moves.
LEMMA AnswerReleases ==
  ASSUME CacheInv, NEW r \in Requests, NEW c \in Channels, NEW q, TurnOf(r, c, q),
         NEW entry, NEW now, Answer(r, c, q, entry, now)
  PROVE  /\ lock' \in [Channels -> Seq(Requests)]
         /\ request' \in [Requests -> RequestState]
         /\ \A d \in Channels : Queue(d)'
         /\ request'[r] = Idle
         /\ \A p \in Requests \ {r} : request'[p] = request[p]
<1>1. /\ lock \in [Channels -> Seq(Requests)] /\ request \in [Requests -> RequestState]
      /\ \A d \in Channels : Queue(d)
      /\ None \notin Channels
  BY LiveCacheAssumption DEF CacheInv, Ranges
<1>2. /\ Tail(q) \in Seq(Requests) /\ IsInjective(Tail(q))
      /\ \A p \in Requests : Contains(Tail(q), p) <=> Contains(q, p) /\ p # r
  BY TailOfQueue DEF TurnOf
<1>3. /\ lock' = [lock EXCEPT ![c] = Tail(q)]
      /\ request' = [request EXCEPT ![r] = Idle]
  BY DEF Answer
<1>4. Idle \in RequestState /\ Idle.channel = None /\ Idle.at = "idle"
  BY DEF Idle, RequestState
<1>5. lock' \in [Channels -> Seq(Requests)] /\ request' \in [Requests -> RequestState]
  BY <1>1, <1>2, <1>3, <1>4
<1>6. request'[r] = Idle /\ \A p \in Requests \ {r} : request'[p] = request[p]
  BY <1>1, <1>3
<1>7. Queue(c)'
  <2>1. lock'[c] = Tail(q)
    BY <1>1, <1>3
  <2>2. \A p \in Requests : ~Fetching(p, c)'
    BY <1>4, <1>6 DEF Fetching, TurnOf
  <2> QED BY <1>1, <1>2, <1>4, <1>6, <2>1, <2>2 DEF Queue, TurnOf, IsInjective, Contains
<1>8. ASSUME NEW d \in Channels \ {c} PROVE Queue(d)'
  <2>1. lock'[d] = lock[d]
    BY <1>1, <1>3
  <2>2. ASSUME NEW p \in Requests
        PROVE  request'[p].channel = d <=> request[p].channel = d
    BY <1>1, <1>4, <1>6 DEF TurnOf
  <2>3. ASSUME NEW p \in Requests, Fetching(p, d)' PROVE Fetching(p, d)
    BY <1>4, <1>6, <2>2, <2>3 DEF Fetching
  <2> QED BY <1>1, <2>1, <2>2, <2>3 DEF Queue, IsInjective, Contains
<1> QED BY <1>5, <1>6, <1>7, <1>8

\* A fetch begins with the lock held: the queues stay in order.
FetchBegins(r, c, q) ==
    /\ lock' = [lock EXCEPT ![c] = q]
    /\ request' = [request EXCEPT ![r] = [at |-> "fetching", channel |-> c, now |-> clock]]

LEMMA FetchHoldsLock ==
  ASSUME CacheInv, NEW r \in Requests, NEW c \in Channels, NEW q, TurnOf(r, c, q),
         FetchBegins(r, c, q)
  PROVE  /\ lock' \in [Channels -> Seq(Requests)]
         /\ request' \in [Requests -> RequestState]
         /\ \A d \in Channels : Queue(d)'
         /\ Fetching(r, c)' /\ request'[r].now = clock
         /\ \A p \in Requests \ {r} : request'[p] = request[p]
<1>1. /\ lock \in [Channels -> Seq(Requests)] /\ request \in [Requests -> RequestState]
      /\ \A d \in Channels : Queue(d)
      /\ None \notin Channels /\ clock \in Nat
  BY LiveCacheAssumption DEF CacheInv, Ranges
<1>2. [at |-> "fetching", channel |-> c, now |-> clock] \in RequestState
  BY <1>1 DEF RequestState
<1>3. lock' \in [Channels -> Seq(Requests)] /\ request' \in [Requests -> RequestState]
  BY <1>1, <1>2 DEF FetchBegins, TurnOf
<1>4. /\ request'[r] = [at |-> "fetching", channel |-> c, now |-> clock]
      /\ \A p \in Requests \ {r} : request'[p] = request[p]
  BY <1>1 DEF FetchBegins
<1>5. Queue(c)'
  <2>1. lock'[c] = q
    BY <1>1 DEF FetchBegins, TurnOf
  <2>2. ASSUME NEW p \in Requests
        PROVE  request'[p].channel = c <=> request[p].channel = c \/ p = r
    BY <1>4
  <2>3. ASSUME NEW p \in Requests, Fetching(p, c)' PROVE p = r
    BY <1>4, <2>3 DEF Fetching, TurnOf
  <2> QED BY <2>1, <2>2, <2>3 DEF Queue, TurnOf, IsInjective, Contains
<1>6. ASSUME NEW d \in Channels \ {c} PROVE Queue(d)'
  <2>1. lock'[d] = lock[d]
    BY <1>1 DEF FetchBegins
  <2>2. ASSUME NEW p \in Requests
        PROVE  request'[p].channel = d <=> request[p].channel = d
    <3>1. CASE p = r
      BY <1>1, <1>4, <3>1 DEF TurnOf
    <3>2. CASE p # r
      BY <1>4, <3>2
    <3> QED BY <3>1, <3>2
  <2>3. ASSUME NEW p \in Requests, Fetching(p, d)' PROVE Fetching(p, d)
    BY <1>4, <2>2, <2>3 DEF Fetching
  <2> QED BY <1>1, <2>1, <2>2, <2>3 DEF Queue, IsInjective, Contains
<1> QED BY <1>3, <1>4, <1>5, <1>6 DEF Fetching

----------------------------------------------------------------------------
\* The invariant is inductive

\* A turn with the lock of one channel leaves what is known of the others alone.
LEMMA OtherChannels ==
  ASSUME CacheInv, NEW r \in Requests, NEW c \in Channels, NEW d \in Channels \ {c},
         clock' = clock,
         entries'[d] = entries[d], fetched'[d] = fetched[d], seen'[d] = seen[d],
         \A p \in Requests \ {r} : request'[p] = request[p],
         request[r].channel \in {None, c}, request'[r].channel \in {None, c}
  PROVE  Remembered(d)'
<1>1. Remembered(d) /\ None \notin Channels
  BY LiveCacheAssumption DEF CacheInv
<1>2. \A p \in Requests : Fetching(p, d)' => Fetching(p, d) /\ request'[p] = request[p]
  BY <1>1 DEF Fetching
<1>3. \A p \in Requests : Fetching(p, d) => Fetching(p, d)'
  BY <1>1 DEF Fetching
<1> QED BY <1>1, <1>2, <1>3 DEF Remembered, Truthful

\* An answer whose entry is truthful, given soon enough after its id was seen, keeps
\* the invariant.
LEMMA AnswerKeeps ==
  ASSUME CacheInv, NEW r \in Requests, NEW c \in Channels, NEW q, TurnOf(r, c, q),
         NEW entry \in Entry, NEW now \in Nat, Answer(r, c, q, entry, now),
         UNCHANGED <<clock, fetched>>,
         seen' \in [Channels -> [VideoIds -> Nat \cup {None}]],
         \A d \in Channels \ {c} : seen'[d] = seen[d],
         entry.cached_at = fetched[c],
         Truthful(entry, seen'[c], fetched[c]),
         entry.cached # None =>
            seen'[c][entry.cached] <= now /\ now < seen'[c][entry.cached] + StaleTTL + LiveTTL
  PROVE  CacheInv'
<1>1. /\ lock' \in [Channels -> Seq(Requests)]
      /\ request' \in [Requests -> RequestState]
      /\ \A d \in Channels : Queue(d)'
      /\ request'[r] = Idle
      /\ \A p \in Requests \ {r} : request'[p] = request[p]
  BY AnswerReleases
<1>2. /\ entries' \in [Channels -> Entry] /\ entries'[c] = entry
      /\ \A d \in Channels \ {c} : entries'[d] = entries[d]
  BY DEF Answer, CacheInv, Ranges
<1>3. /\ served' \in [Requests -> Nat \cup {None}]
      /\ served'[r] # None => served'[r] < StaleTTL + LiveTTL
      /\ \A p \in Requests \ {r} : served'[p] = served[p]
  <2> DEFINE age == IF entry.cached # None /\ seen'[c][entry.cached] # None
                    THEN now - seen'[c][entry.cached] ELSE None
  <2>1. served' = [served EXCEPT ![r] = age] /\ served \in [Requests -> Nat \cup {None}]
    BY DEF Answer, CacheInv, Ranges
  <2>2. entry.cached # None => entry.cached \in VideoIds /\ seen'[c][entry.cached] \in Nat
    BY DEF Entry, Truthful
  <2>3. StaleTTL \in Nat /\ LiveTTL \in Nat
    BY LiveCacheAssumption
  <2>4. age \in Nat \cup {None} /\ (age # None => age < StaleTTL + LiveTTL)
    BY <2>2, <2>3
  <2> HIDE DEF age
  <2> QED BY <2>1, <2>4
<1>4. AnswersAreRecent'
  BY <1>3 DEF AnswersAreRecent, CacheInv
<1>5. Ranges'
  BY <1>1, <1>2, <1>3 DEF Ranges, CacheInv
<1>6. Remembered(c)'
  <2>1. ASSUME NEW p \in Requests PROVE ~Fetching(p, c)'
    <3>1. CASE p = r
      BY <1>1, <3>1 DEF Fetching, Idle
    <3>2. CASE p # r
      BY <1>1, <3>2 DEF Fetching, TurnOf
    <3> QED BY <3>1, <3>2
  <2>2. Truthful(entries[c], seen[c], fetched[c])'
    BY <1>2 DEF Truthful
  <2>3. (fetched[c] # None => fetched[c] <= clock)'
    BY DEF CacheInv, Remembered
  <2> QED BY <1>2, <2>1, <2>2, <2>3 DEF Remembered
<1>7. ASSUME NEW d \in Channels \ {c} PROVE Remembered(d)'
  BY <1>1, <1>2, OtherChannels DEF Idle, TurnOf
<1> QED BY <1>1, <1>4, <1>5, <1>6, <1>7 DEF CacheInv

\* A turn: an answer from the fresh entry, or the beginning of a fetch.
LEMMA EnterKeeps ==
  ASSUME CacheInv, NEW r \in Requests, NEW c \in Channels, NEW q, TurnOf(r, c, q),
         \A p \in Requests : ~Fetching(p, c),
         Enter(r, c, q), UNCHANGED clock
  PROVE  /\ CacheInv'
         /\ \A d \in Channels : fetched'[d] # fetched[d] /\ fetched[d] # None =>
               fetched'[d] >= fetched[d] + LiveTTL
<1>1. /\ clock \in Nat /\ entries[c] \in Entry /\ fetched[c] \in Nat \cup {None}
      /\ seen \in [Channels -> [VideoIds -> Nat \cup {None}]]
      /\ entries[c].cached_at = fetched[c]
      /\ Truthful(entries[c], seen[c], fetched[c])
      /\ fetched[c] # None => fetched[c] <= clock
      /\ fetched \in [Channels -> Nat \cup {None}]
  BY LiveCacheAssumption DEF CacheInv, Ranges, Remembered
<1>2. LiveTTL \in Nat /\ StaleTTL \in Nat /\ None \notin Nat
  BY LiveCacheAssumption
<1>3. CASE Fresh(c)
  <2>1. UNCHANGED <<fetched, seen>> /\ Answer(r, c, q, entries[c], clock)
    BY <1>3 DEF Enter
  <2>2. fetched[c] \in Nat /\ clock - fetched[c] < LiveTTL /\ fetched[c] <= clock
    BY <1>1, <1>3 DEF Fresh
  <2>3. ASSUME entries[c].cached # None
        PROVE  LET at == seen[c][entries[c].cached]
               IN  at <= clock /\ clock < at + StaleTTL + LiveTTL
    <3>1. PICK at \in Nat \cup {None} : at = seen[c][entries[c].cached]
      BY <1>1, <2>3 DEF Entry
    <3>2. /\ at # None /\ at <= fetched[c]
          /\ fetched[c] = at \/ fetched[c] < at + StaleTTL
      BY <1>1, <2>3, <3>1 DEF Truthful, Entry
    <3>3. at \in Nat
      BY <3>2
    <3>4. at <= clock /\ clock < at + StaleTTL + LiveTTL
      BY <1>1, <1>2, <2>2, <3>2, <3>3
    <3> QED BY <3>1, <3>4
  <2>4. CacheInv'
    BY <1>1, <2>1, <2>3, AnswerKeeps
  <2> QED BY <2>1, <2>4
<1>4. CASE ~Fresh(c)
  <2>1. /\ FetchBegins(r, c, q)
        /\ fetched' = [fetched EXCEPT ![c] = clock]
        /\ UNCHANGED <<entries, seen, served>>
    BY <1>4 DEF Enter, FetchBegins
  <2>2. /\ lock' \in [Channels -> Seq(Requests)]
        /\ request' \in [Requests -> RequestState]
        /\ \A d \in Channels : Queue(d)'
        /\ Fetching(r, c)' /\ request'[r].now = clock
        /\ \A p \in Requests \ {r} : request'[p] = request[p]
    BY <2>1, FetchHoldsLock
  <2>3. /\ fetched' \in [Channels -> Nat \cup {None}]
        /\ fetched'[c] = clock
        /\ \A d \in Channels \ {c} : fetched'[d] = fetched[d]
    BY <1>1, <2>1
  <2>4. fetched[c] # None => clock >= fetched[c] + LiveTTL
    BY <1>1, <1>2, <1>4 DEF Fresh
  <2>5. Remembered(c)'
    <3>1. \A p \in Requests : Fetching(p, c)' => p = r
      BY <2>2 DEF Fetching
    <3>2. Truthful(entries[c], seen[c], clock)
      <4>1. ASSUME NEW t \in Nat \cup {None}, t # None, fetched[c] # None, t <= fetched[c]
            PROVE  t <= clock
        BY <1>1, <4>1
      <4>2. entries[c].cached_at \in Nat \cup {None}
            /\ \A vid \in VideoIds : seen[c][vid] \in Nat \cup {None}
        BY <1>1 DEF Entry
      <4> QED BY <1>1, <1>2, <4>1, <4>2 DEF Truthful
    <3>3. Truthful(entries[c], seen[c], fetched[c])'
      BY <2>1, <2>3, <3>2 DEF Truthful
    <3> QED BY <1>1, <2>2, <2>3, <3>1, <3>3 DEF Remembered
  <2>6. ASSUME NEW d \in Channels \ {c} PROVE Remembered(d)'
    BY <2>1, <2>2, <2>3, OtherChannels DEF TurnOf, Fetching
  <2>7. Ranges'
    BY <2>1, <2>2, <2>3 DEF Ranges, CacheInv
  <2>8. AnswersAreRecent'
    BY <2>1 DEF AnswersAreRecent, CacheInv
  <2> QED BY <2>2, <2>3, <2>4, <2>5, <2>6, <2>7, <2>8 DEF CacheInv
<1> QED BY <1>3, <1>4

\* A request that has to wait joins the queue and touches nothing else.
LEMMA AskBusyKeeps ==
  ASSUME CacheInv, NEW r \in Requests, NEW c \in Channels, AskBusy(r, c)
  PROVE  CacheInv'
<1>1. /\ lock \in [Channels -> Seq(Requests)] /\ request \in [Requests -> RequestState]
      /\ \A d \in Channels : Queue(d) /\ Remembered(d)
      /\ None \notin Channels
      /\ request[r].channel = None
  BY LiveCacheAssumption DEF CacheInv, Ranges, AskBusy, Idle
<1>2. lock[c] \in Seq(Requests) /\ lock[c] # <<>> /\ IsInjective(lock[c])
      /\ ~Contains(lock[c], r)
  BY <1>1 DEF Queue, AskBusy
<1> DEFINE q == Append(lock[c], r)
<1>3. /\ q \in Seq(Requests) /\ IsInjective(q) /\ Head(q) = Head(lock[c])
      /\ \A p \in Requests : Contains(q, p) <=> Contains(lock[c], p) \/ p = r
  BY <1>2, JoinQueue
<1> DEFINE waits == [at |-> "waiting", channel |-> c, now |-> 0]
<1>4. /\ lock' = [lock EXCEPT ![c] = q] /\ request' = [request EXCEPT ![r] = waits]
      /\ UNCHANGED <<clock, entries, fetched, seen, served>>
  BY <1>1 DEF AskBusy
<1>5. waits \in RequestState
  BY DEF RequestState
<1> HIDE DEF q
<1>6. lock' \in [Channels -> Seq(Requests)] /\ request' \in [Requests -> RequestState]
  BY <1>1, <1>3, <1>4, <1>5
<1>7. /\ lock'[c] = q /\ \A d \in Channels \ {c} : lock'[d] = lock[d]
      /\ request'[r] = waits /\ \A p \in Requests \ {r} : request'[p] = request[p]
  BY <1>1, <1>4
<1>8. ASSUME NEW d \in Channels, NEW p \in Requests
      PROVE  Fetching(p, d)' <=> Fetching(p, d)
  BY <1>1, <1>7 DEF Fetching
<1>9. Queue(c)'
  <2>1. ASSUME NEW p \in Requests
        PROVE  request'[p].channel = c <=> request[p].channel = c \/ p = r
    BY <1>7
  <2>2. ASSUME NEW p \in Requests
        PROVE  request'[p].channel = c <=> Contains(lock'[c], p)
    <3>1. request[p].channel = c <=> Contains(lock[c], p)
      BY <1>1 DEF Queue
    <3>2. Contains(lock'[c], p) <=> Contains(lock[c], p) \/ p = r
      BY <1>3, <1>7
    <3> QED BY <2>1, <3>1, <3>2
  <2>3. \A p \in Requests : Fetching(p, c)' => Head(lock'[c]) = p
    BY <1>1, <1>3, <1>7, <1>8 DEF Queue
  <2>4. IsInjective(lock[c])'
    BY <1>3, <1>7 DEF IsInjective
  <2> QED BY <2>2, <2>3, <2>4 DEF Queue
<1>10. ASSUME NEW d \in Channels \ {c} PROVE Queue(d)'
  <2>1. ASSUME NEW p \in Requests
        PROVE  request'[p].channel = d <=> request[p].channel = d
    BY <1>1, <1>7
  <2> QED BY <1>1, <1>7, <1>8, <2>1 DEF Queue, IsInjective, Contains
<1>11. ASSUME NEW d \in Channels PROVE Remembered(d)'
  <2>1. \A p \in Requests : Fetching(p, d) => request'[p] = request[p]
    BY <1>1, <1>7 DEF Fetching
  <2>2. Truthful(entries[d], seen[d], fetched[d])'
    BY <1>1, <1>4 DEF Remembered, Truthful
  <2> QED BY <1>1, <1>4, <1>8, <2>1, <2>2 DEF Remembered
<1>12. Ranges' /\ AnswersAreRecent'
  BY <1>4, <1>6 DEF CacheInv, Ranges, AnswersAreRecent
<1> QED BY <1>9, <1>10, <1>11, <1>12 DEF CacheInv

\* A fetch that failed: the good id, if recent enough, is cached as of this fetch.
LEMMA FetchRaisesKeeps ==
  ASSUME CacheInv, NEW r \in Requests, NEW c \in Channels, FetchRaises(r, c)
  PROVE  CacheInv'
<1> DEFINE e == entries[c]
           now == request[r].now
           kept == e.good_id # None /\ now - e.good_at < StaleTTL
           entry == [e EXCEPT !.cached = IF kept THEN e.good_id ELSE None, !.cached_at = now]
<1>1. Fetching(r, c) /\ TurnOf(r, c, lock[c])
  BY HeadTurn DEF FetchRaises, Fetching
<1>2. /\ Answer(r, c, lock[c], entry, now)
      /\ UNCHANGED <<clock, fetched, seen>>
  BY DEF FetchRaises
<1>3. /\ now \in Nat /\ e \in Entry
      /\ seen \in [Channels -> [VideoIds -> Nat \cup {None}]]
      /\ fetched[c] = now
      /\ Truthful(e, seen[c], now)
      /\ StaleTTL \in Nat /\ LiveTTL \in Nat \ {0} /\ None \notin Nat
  BY <1>1, LiveCacheAssumption DEF CacheInv, Ranges, Remembered, RequestState
<1>4. /\ entry \in Entry /\ entry.cached_at = now
      /\ entry.cached = IF kept THEN e.good_id ELSE None
      /\ entry.good_id = e.good_id /\ entry.good_at = e.good_at
  BY <1>3 DEF Entry
<1>5. ASSUME kept
      PROVE  /\ e.good_id \in VideoIds /\ seen[c][e.good_id] \in Nat
             /\ seen[c][e.good_id] <= now
             /\ now < seen[c][e.good_id] + StaleTTL
  <2>1. e.good_id \in VideoIds
    BY <1>3, <1>5 DEF Entry
  <2>2. seen[c][e.good_id] \in Nat /\ e.good_at = seen[c][e.good_id]
        /\ seen[c][e.good_id] <= now
    BY <1>3, <1>5, <2>1 DEF Truthful
  <2> QED BY <1>3, <1>5, <2>1, <2>2
<1> HIDE DEF entry, kept, e, now
<1>6. Truthful(entry, seen[c], now)
  BY <1>3, <1>4, <1>5 DEF Truthful
<1>7. entry.cached # None =>
         seen[c][entry.cached] <= now /\ now < seen[c][entry.cached] + StaleTTL + LiveTTL
  BY <1>3, <1>4, <1>5
<1> QED BY <1>1, <1>2, <1>3, <1>4, <1>6, <1>7, AnswerKeeps

\* A page that was read: its id was seen live now, or the good id is forgotten.
LEMMA FetchReadsKeeps ==
  ASSUME CacheInv, NEW r \in Requests, NEW c \in Channels, NEW page \in Pages,
         FetchReads(r, c, page)
  PROVE  CacheInv'
<1> DEFINE now == request[r].now
           vid == parse_live_video_id(page)
           entry == [cached |-> vid, cached_at |-> now, good_id |-> vid,
                     good_at |-> IF vid # None THEN now ELSE entries[c].good_at]
<1>1. Fetching(r, c) /\ TurnOf(r, c, lock[c])
  BY HeadTurn DEF FetchReads, Fetching
<1>2. Answer(r, c, lock[c], entry, now) /\ Saw(r, c, page) /\ UNCHANGED <<clock, fetched>>
  BY DEF FetchReads
<1>3. /\ now \in Nat /\ entries[c] \in Entry
      /\ seen \in [Channels -> [VideoIds -> Nat \cup {None}]]
      /\ fetched[c] = now
      /\ Truthful(entries[c], seen[c], now)
      /\ StaleTTL \in Nat /\ LiveTTL \in Nat \ {0} /\ None \notin Nat \cup VideoIds
  BY <1>1, LiveCacheAssumption DEF CacheInv, Ranges, Remembered, RequestState
<1>4. page \in Page
  BY LiveCacheAssumption
<1>5. /\ vid \in VideoIds \cup {None}
      /\ vid # None => OnAir(page) /\ vid = page.id
  BY <1>4 DEF parse_live_video_id, Dismissed, OnAir, Page
<1> DEFINE ids == [v \in VideoIds |-> IF ~OnAir(page) THEN None
                                      ELSE IF v = page.id THEN now ELSE seen[c][v]]
<1>6. seen' = [seen EXCEPT ![c] = ids] /\ ids \in [VideoIds -> Nat \cup {None}]
  BY <1>2, <1>3 DEF Saw
<1>7. /\ vid # None => ids[vid] = now
      /\ \A v \in VideoIds : ids[v] # None => ids[v] <= now
  BY <1>3, <1>5 DEF Truthful
<1> HIDE DEF ids, vid, now
<1>8. entry \in Entry
  BY <1>3, <1>5 DEF Entry
<1>9. Truthful(entry, ids, now)
  BY <1>3, <1>5, <1>7 DEF Truthful
<1>10. entry.cached # None =>
          ids[entry.cached] <= now /\ now < ids[entry.cached] + StaleTTL + LiveTTL
  BY <1>3, <1>7
<1>11. entry.cached_at = now
  OBVIOUS
<1> HIDE DEF entry
<1>12. /\ seen' \in [Channels -> [VideoIds -> Nat \cup {None}]]
       /\ seen'[c] = ids /\ \A d \in Channels \ {c} : seen'[d] = seen[d]
  BY <1>3, <1>6
<1> QED BY <1>1, <1>2, <1>3, <1>8, <1>9, <1>10, <1>11, <1>12, AnswerKeeps

\* Time passes.
LEMMA TickKeeps ==
  ASSUME CacheInv, Tick
  PROVE  CacheInv'
<1>1. /\ clock \in Nat /\ clock' = clock + 1 /\ clock' \in 0 .. MaxTime
      /\ UNCHANGED <<entries, lock, request, fetched, seen, served>>
      /\ fetched \in [Channels -> Nat \cup {None}]
  BY LiveCacheAssumption DEF CacheInv, Ranges, Tick
<1>2. ASSUME NEW c \in Channels PROVE Queue(c)' /\ Remembered(c)'
  <2>1. Queue(c)'
    BY <1>1 DEF CacheInv, Queue, Fetching, IsInjective, Contains
  <2>2. fetched[c] # None => fetched[c] <= clock + 1
    BY <1>1 DEF CacheInv, Remembered
  <2>3. Remembered(c)'
    BY <1>1, <2>2 DEF CacheInv, Remembered, Truthful, Fetching
  <2> QED BY <2>1, <2>3
<1>3. Ranges' /\ AnswersAreRecent'
  BY <1>1 DEF CacheInv, Ranges, AnswersAreRecent
<1> QED BY <1>2, <1>3 DEF CacheInv

\* Every step keeps the invariant, and no step fetches a page too early.
LEMMA StepKeeps ==
  ASSUME CacheInv, [Next]_vars
  PROVE  /\ CacheInv'
         /\ \A c \in Channels : fetched'[c] # fetched[c] /\ fetched[c] # None =>
               fetched'[c] >= fetched[c] + LiveTTL
<1>1. ASSUME NEW r \in Requests, NEW c \in Channels, AskFree(r, c)
      PROVE  /\ CacheInv'
             /\ \A d \in Channels : fetched'[d] # fetched[d] /\ fetched[d] # None =>
                   fetched'[d] >= fetched[d] + LiveTTL
  <2>1. TurnOf(r, c, <<r>>)
    BY <1>1, FreeTurn DEF AskFree
  <2>2. \A p \in Requests : ~Fetching(p, c)
    BY <1>1, <2>1 DEF AskFree, Idle, Fetching, TurnOf
  <2> QED BY <1>1, <2>1, <2>2, EnterKeeps DEF AskFree
<1>2. ASSUME NEW r \in Requests, NEW c \in Channels, AskBusy(r, c)
      PROVE  CacheInv' /\ UNCHANGED fetched
  BY <1>2, AskBusyKeeps DEF AskBusy
<1>3. ASSUME NEW r \in Requests, NEW c \in Channels, Acquire(r, c)
      PROVE  /\ CacheInv'
             /\ \A d \in Channels : fetched'[d] # fetched[d] /\ fetched[d] # None =>
                   fetched'[d] >= fetched[d] + LiveTTL
  <2>1. TurnOf(r, c, lock[c])
    BY <1>3, HeadTurn DEF Acquire
  <2>2. \A p \in Requests : ~Fetching(p, c)
    BY <1>3, <2>1 DEF Acquire, Fetching, TurnOf
  <2> QED BY <1>3, <2>1, <2>2, EnterKeeps DEF Acquire
<1>4. ASSUME NEW r \in Requests, NEW c \in Channels, FetchEnds(r, c)
      PROVE  CacheInv' /\ UNCHANGED fetched
  <2>1. CASE FetchRaises(r, c)
    BY <2>1, FetchRaisesKeeps DEF FetchRaises
  <2>2. ASSUME NEW page \in Pages, FetchReads(r, c, page)
        PROVE  CacheInv' /\ UNCHANGED fetched
    BY <2>2, FetchReadsKeeps DEF FetchReads
  <2> QED BY <1>4, <2>1, <2>2 DEF FetchEnds
<1>5. CASE Tick
  BY <1>5, TickKeeps DEF Tick
<1>6. CASE UNCHANGED vars
  BY <1>6 DEF vars, CacheInv, Ranges, Queue, Remembered, Truthful, Fetching, Contains,
              IsInjective, AnswersAreRecent
<1> QED BY <1>1, <1>2, <1>3, <1>4, <1>5, <1>6 DEF Next

LEMMA InitKeeps == Init => CacheInv
<1> SUFFICES ASSUME Init PROVE CacheInv
  OBVIOUS
<1>1. None \notin Nat \cup Channels /\ MaxTime \in Nat
  BY LiveCacheAssumption
<1>2. Ranges
  BY <1>1 DEF Init, Ranges, Entry, RequestState, Idle
<1>3. ASSUME NEW c \in Channels PROVE Queue(c) /\ Remembered(c)
  BY <1>1 DEF Init, Queue, Remembered, Truthful, Fetching, Idle, IsInjective, Contains
<1>4. AnswersAreRecent
  BY DEF Init, AnswersAreRecent
<1> QED BY <1>2, <1>3, <1>4 DEF CacheInv

----------------------------------------------------------------------------
\* What follows

\* The invariant of a run holds in every state that satisfies CacheInv.
LEMMA InvImpliesType == CacheInv => TypeOK
<1> SUFFICES ASSUME CacheInv PROVE TypeOK
  OBVIOUS
<1>1. ASSUME NEW c \in Channels
      PROVE  /\ lock[c] \in Seq(Requests)
             /\ IsInjective(lock[c])
             /\ \A r \in Requests : request[r].channel = c <=> Contains(lock[c], r)
             /\ \A i \in DOMAIN lock[c] : request[lock[c][i]].at = "fetching" => i = 1
  <2>1. lock[c] \in Seq(Requests) /\ Queue(c)
    BY DEF CacheInv, Ranges
  <2>2. ASSUME NEW i \in DOMAIN lock[c], request[lock[c][i]].at = "fetching"
        PROVE  i = 1
    <3>1. i \in 1 .. Len(lock[c]) /\ lock[c][i] \in Requests /\ lock[c] # <<>>
      BY <2>1, LenProperties
    <3>2. Contains(lock[c], lock[c][i])
      BY <3>1 DEF Contains
    <3>3. Head(lock[c]) = lock[c][i]
      BY <2>1, <2>2, <3>1, <3>2 DEF Queue, Fetching
    <3>4. 1 \in DOMAIN lock[c] /\ lock[c][1] = lock[c][i]
      BY <2>1, <3>1, <3>3
    <3> QED BY <2>1, <3>4 DEF Queue, IsInjective
  <2> QED BY <2>1, <2>2 DEF Queue
<1> QED BY <1>1 DEF CacheInv, Ranges, RequestState, TypeOK

\* The variables stay in their ranges; the queue of a channel holds exactly the
\* requests for it, once each, and only its head is ever fetching (video_id).
THEOREM CacheTypeCorrect == Spec => []TypeOK
<1>1. CacheInv /\ [Next]_vars => CacheInv'
  BY StepKeeps
<1> QED BY InitKeeps, <1>1, InvImpliesType, PTL DEF Spec

\* Once a page has said that nothing is live, no later error brings back an id that
\* was seen before it (the `good_id = None` of video_id).
THEOREM NothingResurrected == Spec => []NoResurrection
<1>1. CacheInv /\ [Next]_vars => CacheInv'
  BY StepKeeps
<1>2. CacheInv => NoResurrection
  BY DEF CacheInv, Remembered, Truthful, NoResurrection
<1> QED BY InitKeeps, <1>1, <1>2, PTL DEF Spec

\* No client is answered an id that was last seen STALE_TTL_S + LIVE_TTL_S ago or
\* earlier, whatever errors, waits and fresh answers came between (video_id).
THEOREM AnswersRecent == Spec => []AnswersAreRecent
<1>1. CacheInv /\ [Next]_vars => CacheInv'
  BY StepKeeps
<1>2. CacheInv => AnswersAreRecent
  BY DEF CacheInv
<1> QED BY InitKeeps, <1>1, <1>2, PTL DEF Spec

\* Two fetches of the page of one channel begin at least LIVE_TTL_S apart, with any
\* number of clients and whatever the fetches return (LiveTV's rate ceiling).
THEOREM RateCeilingHolds == Spec => RateCeiling
<1>1. CacheInv /\ [Next]_vars => CacheInv'
  BY StepKeeps
<1>2. CacheInv /\ [Next]_vars =>
         [\A c \in Channels : fetched'[c] # fetched[c] /\ fetched[c] # None =>
             fetched'[c] >= fetched[c] + LiveTTL]_vars
  BY StepKeeps
<1> QED BY InitKeeps, <1>1, <1>2, PTL DEF Spec, RateCeiling
=============================================================================
