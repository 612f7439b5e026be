---------------------------- MODULE PresenceProofs ----------------------------
(***************************************************************************)
(* Presence.tla keeps its promise, and Subscriptions.tla implements it: a  *)
(* reference count with an `enabled` column, changed one store call at a   *)
(* time beside a sweep in another thread, behaves as the set of names it   *)
(* stands for.                                                             *)
(***************************************************************************)
EXTENDS SubscriptionsProofs

\* Init maps to Init.
LEMMA InitRefines == Init => P!Init
  BY SocketsAssumption DEF Init, EmptyStore, Settled, Idle, P!Init, EnabledFeeds

\* A step that changes neither the rows of feeds nor the settled names is a stutter, and
\* so is one that does so only for the feeds a failed call was about.
LEMMA Stutters ==
  ASSUME UNCHANGED feeds, UNCHANGED tainted, \A s \in Sockets : Settled(s)' = Settled(s)
  PROVE  UNCHANGED P!vars
  BY DEF P!vars, EnabledFeeds

LEMMA StuttersOnTainted ==
  ASSUME UNCHANGED tainted, NEW f \in tainted,
         DOMAIN feeds' \subseteq DOMAIN feeds \cup {f},
         DOMAIN feeds \subseteq DOMAIN feeds',
         \A g \in DOMAIN feeds \ {f} : feeds'[g] = feeds[g],
         \A s \in Sockets : Settled(s)' \ {f} = Settled(s) \ {f}
  PROVE  UNCHANGED P!vars
<1>1. /\ DOMAIN feeds' \ tainted' = DOMAIN feeds \ tainted
      /\ EnabledFeeds' \ tainted' = EnabledFeeds \ tainted
  BY DEF EnabledFeeds
<1>2. \A s \in Sockets : Settled(s)' \ tainted' = Settled(s) \ tainted
  OBVIOUS
<1> QED BY <1>1, <1>2 DEF P!vars

\* upsert_feed of a new URL admits a feed.
LEMMA UpsertEntryRefines ==
  ASSUME IInv, UpsertEntry
  PROVE  P!Next \/ UNCHANGED P!vars
<1> USE DEF IInv
<1>1. PICK id \in FeedIds :
         /\ upsert_feed(Head(loop.entries), 0, id)
         /\ loop' = [loop EXCEPT !.entries = Tail(@), !.ids = @ \cup {id}]
  BY DEF UpsertEntry
<1>2. /\ DOMAIN feeds' = DOMAIN feeds \cup {id}
      /\ \A f \in DOMAIN feeds : feeds'[f] = feeds[f]
      /\ id \notin DOMAIN feeds => feeds'[id].enabled = TRUE
  BY <1>1, EntriesType, UpsertFeedOK DEF TypeOK, UpsertEntry
<1>3. UNCHANGED tainted /\ \A s \in Sockets : Settled(s)' = Settled(s)
  BY <1>1 DEF UpsertEntry, subVars, runVars, Settled, TypeOK, LoopStates
<1>4. CASE id \in DOMAIN feeds
  <2>1. feeds' = feeds
    BY <1>1, <1>4 DEF upsert_feed, IsNextRowId, FeedIds, TypeOK, StoreTypeOK
  <2> QED BY <2>1, <1>3, Stutters
<1>5. CASE id \notin DOMAIN feeds /\ id \notin tainted
  <2>1. EnabledFeeds' = EnabledFeeds \cup {id}
    BY <1>2, <1>5 DEF EnabledFeeds
  <2>2. P!Admit(id)
    BY <1>2, <1>3, <1>5, <2>1 DEF P!Admit
  <2> QED BY <2>2 DEF P!Next
<1>6. CASE id \in tainted
  BY <1>2, <1>3, <1>6, StuttersOnTainted
<1> QED BY <1>4, <1>5, <1>6

\* set_feeds counts one more name: it is given at once if the feed was counted before,
\* and otherwise with the set_enabled to come.
LEMMA AddFeedRefines ==
  ASSUME IInv, NEW f \in FeedIds, AddFeed(f)
  PROVE  P!Next \/ UNCHANGED P!vars
<1> USE DEF IInv
<1>1. /\ loop.sock \in Sockets /\ f \notin loop.counted /\ loop.pending = {}
      /\ loop'.sock = loop.sock /\ loop'.counted = loop.counted \cup {f}
      /\ loop'.pending = IF counts'[f] = 1 THEN {f} ELSE {}
  BY DEF AddFeed, Counting, InSetFeeds, TypeOK, LoopStates
<1>2. UNCHANGED <<feeds, feed_ids, tainted>>
  BY DEF AddFeed, storeVars, runVars
<1>3. CASE counts'[f] = 1
  <2>1. \A s \in Sockets : Settled(s)' = Settled(s)
    BY <1>1, <1>2, <1>3 DEF Settled
  <2> QED BY <1>2, <2>1, Stutters
<1>4. CASE counts'[f] # 1 /\ f \notin tainted
  <2>1. \A s \in Sockets : Settled(s)' = IF s = loop.sock THEN Settled(s) \cup {f}
                                                          ELSE Settled(s)
    BY <1>1, <1>2, <1>4 DEF Settled
  <2>2. f \notin Settled(loop.sock)
    BY <1>1 DEF Settled
  <2>3. counts[f] \in Nat /\ counts[f] # 0
    BY <1>4 DEF TypeOK, AddFeed
  <2>4. f \in DOMAIN feeds => f \in EnabledFeeds
    BY <1>1, <1>4, <2>3 DEF EnabledTracksCounts, EnabledFeeds
  <2>5. EnabledFeeds' = EnabledFeeds
    BY <1>2 DEF EnabledFeeds
  <2>6. \A s \in Sockets : Settled(s)' \ tainted' = IF s = loop.sock
                                                   THEN (Settled(s) \ tainted) \cup {f}
                                                   ELSE Settled(s) \ tainted
    BY <1>2, <1>4, <2>1
  <2>7. /\ EnabledFeeds' \ tainted' =
              (EnabledFeeds \ tainted) \cup ({f} \cap (DOMAIN feeds \ tainted))
        /\ DOMAIN feeds' \ tainted' = DOMAIN feeds \ tainted
        /\ tainted' = tainted
    BY <1>2, <2>4, <2>5
  <2>8. P!Name(loop.sock, f)
    BY <1>1, <1>4, <2>2, <2>6, <2>7 DEF P!Name
  <2> QED BY <1>1, <2>8 DEF P!Next
<1>5. CASE f \in tainted
  <2>1. \A s \in Sockets : Settled(s)' \ {f} = Settled(s) \ {f}
    BY <1>1, <1>2 DEF Settled
  <2> QED BY <1>2, <1>5, <2>1, StuttersOnTainted
<1> QED BY <1>3, <1>4, <1>5

\* set_feeds counts one name fewer: it is taken back at once if the feed stays counted,
\* and otherwise with the set_enabled to come.
LEMMA RemoveFeedRefines ==
  ASSUME IInv, NEW f \in FeedIds, RemoveFeed(f)
  PROVE  P!Next \/ UNCHANGED P!vars
<1> USE DEF IInv
<1>1. /\ loop.sock \in Sockets /\ f \in loop.counted /\ loop.pending = {}
      /\ loop'.sock = loop.sock /\ loop'.counted = loop.counted \ {f}
      /\ loop'.pending = IF counts[f] <= 1 THEN {f} ELSE {}
  BY DEF RemoveFeed, Counting, InSetFeeds, TypeOK, LoopStates
<1>2. UNCHANGED <<feeds, feed_ids, tainted>>
  BY DEF RemoveFeed, storeVars, runVars
<1>3. CASE counts[f] <= 1
  <2>1. \A s \in Sockets : Settled(s)' = Settled(s)
    BY <1>1, <1>2, <1>3 DEF Settled
  <2> QED BY <1>2, <2>1, Stutters
<1>4. CASE ~(counts[f] <= 1) /\ f \notin tainted
  <2>1. \A s \in Sockets : Settled(s)' = IF s = loop.sock THEN Settled(s) \ {f}
                                                          ELSE Settled(s)
    BY <1>1, <1>2, <1>4 DEF Settled
  <2>2. f \in Settled(loop.sock)
    BY <1>1 DEF Settled
  <2>3. counts'[f] # 0
    BY <1>4 DEF TypeOK, RemoveFeed
  <2>4. PICK t \in Sockets : f \in Counted(t)'
    <3>1. counts'[f] = Cardinality(Namers(f)')
      BY <1>2, <1>4, RemoveFeedInv DEF CountsExact
    <3>2. Namers(f)' # {}
      BY <2>3, <3>1, FS_EmptySet
    <3> QED BY <3>2 DEF Namers
  <2>5. t # loop.sock /\ f \in Settled(t)
    BY <1>1, <1>2, <2>4 DEF Counted, Settled
  <2>6. EnabledFeeds' = EnabledFeeds
    BY <1>2 DEF EnabledFeeds
  <2>7. P!Unname(loop.sock, f)
    BY <1>1, <1>2, <1>4, <2>1, <2>2, <2>4, <2>5, <2>6 DEF P!Unname
  <2> QED BY <1>1, <2>7 DEF P!Next
<1>5. CASE f \in tainted
  <2>1. \A s \in Sockets : Settled(s)' \ {f} = Settled(s) \ {f}
    BY <1>1, <1>2 DEF Settled
  <2> QED BY <1>2, <1>5, <2>1, StuttersOnTainted
<1> QED BY <1>3, <1>4, <1>5

\* set_enabled settles the name whose count it follows: the first, or the last.
LEMMA SwitchFeedRefines ==
  ASSUME IInv, NEW f \in FeedIds, SwitchFeed(f)
  PROVE  P!Next \/ UNCHANGED P!vars
<1> USE DEF IInv
<1>1. /\ loop.sock \in Sockets /\ loop.pending = {f}
      /\ loop'.sock = loop.sock /\ loop'.counted = loop.counted /\ loop'.pending = {}
      /\ counts[f] = IF f \in loop.counted THEN 1 ELSE 0
  BY DEF SwitchFeed, InSetFeeds, LoopWellFormed, TypeOK, LoopStates
<1>2. UNCHANGED <<feed_ids, tainted>>
  BY DEF SwitchFeed, subVars, runVars
<1>3. /\ DOMAIN feeds' = DOMAIN feeds
      /\ \A g \in DOMAIN feeds : g # f => feeds'[g] = feeds[g]
      /\ f \in DOMAIN feeds => (feeds'[f].enabled <=> f \in loop.counted)
  BY SwitchOK DEF SwitchFeed, TypeOK
<1>4. CASE f \in loop.counted /\ f \notin tainted
  <2>1. \A s \in Sockets : Settled(s)' = IF s = loop.sock THEN Settled(s) \cup {f}
                                                          ELSE Settled(s)
    BY <1>1, <1>2, <1>4 DEF Settled
  <2>2. f \notin Settled(loop.sock)
    BY <1>1, <1>4 DEF Settled
  <2>3. EnabledFeeds' = EnabledFeeds \cup ({f} \cap DOMAIN feeds)
    BY <1>3, <1>4 DEF EnabledFeeds
  <2>4. \A s \in Sockets : Settled(s)' \ tainted' = IF s = loop.sock
                                                   THEN (Settled(s) \ tainted) \cup {f}
                                                   ELSE Settled(s) \ tainted
    BY <1>2, <1>4, <2>1
  <2>5. /\ EnabledFeeds' \ tainted' =
              (EnabledFeeds \ tainted) \cup ({f} \cap (DOMAIN feeds \ tainted))
        /\ DOMAIN feeds' \ tainted' = DOMAIN feeds \ tainted
        /\ tainted' = tainted
    BY <1>2, <1>3, <1>4, <2>3
  <2>6. P!Name(loop.sock, f)
    BY <1>1, <1>4, <2>2, <2>4, <2>5 DEF P!Name
  <2> QED BY <1>1, <2>6 DEF P!Next
<1>5. CASE f \notin loop.counted /\ f \notin tainted
  <2>1. \A s \in Sockets : Settled(s)' = IF s = loop.sock THEN Settled(s) \ {f}
                                                          ELSE Settled(s)
    BY <1>1, <1>2, <1>5 DEF Settled
  <2>2. f \in Settled(loop.sock)
    BY <1>1, <1>5 DEF Settled
  <2>3. \A t \in Sockets \ {loop.sock} : f \notin Settled(t)
    <3>1. Namers(f) = {}
      BY <1>1, <1>5, NamersFinite DEF CountsExact
    <3> QED BY <3>1 DEF Namers, Counted, Settled
  <2>4. EnabledFeeds' = EnabledFeeds \ {f}
    BY <1>3, <1>5 DEF EnabledFeeds
  <2>5. P!Unname(loop.sock, f)
    BY <1>1, <1>2, <1>3, <1>5, <2>1, <2>2, <2>3, <2>4 DEF P!Unname
  <2> QED BY <1>1, <2>5 DEF P!Next
<1>6. CASE f \in tainted
  <2>1. \A s \in Sockets : Settled(s)' \ {f} = Settled(s) \ {f}
    BY <1>1, <1>2 DEF Settled
  <2> QED BY <1>2, <1>3, <1>6, <2>1, StuttersOnTainted
<1> QED BY <1>4, <1>5, <1>6

\* A call that raised loses the feeds it leaves wrong, and no other.
LEMMA StoreRaisesRefines ==
  ASSUME IInv, StoreRaises
  PROVE  P!Next
<1>1. TypeOK
  BY DEF IInv
<1>2. PICK about \in SUBSET FeedIds :
         /\ CallRaises(about)
         /\ Resolving \/ loop.pending \subseteq about
         /\ DOMAIN feeds' \subseteq DOMAIN feeds \cup about
         /\ \A f \in DOMAIN feeds \ about : feeds'[f] = feeds[f]
  BY <1>1, StoreRaisesRows
<1>3. DOMAIN feeds \subseteq DOMAIN feeds'
  BY <1>1, StoreRaisesRows
<1>4. ~LoopIdle /\ loop.sock \in Sockets
  BY <1>1 DEF StoreRaises, UpsertRaises, SwitchRaises, Resolving, InSetFeeds, TypeOK
<1> DEFINE F == Damage \cup about
<1>5. F \in SUBSET FeedIds
  BY <1>1, <1>4 DEF Damage, TypeOK, LoopStates
<1>6. tainted' = tainted \cup F
  BY <1>2 DEF CallRaises
<1>7. \A s \in Sockets : Settled(s)' \ F = Settled(s) \ F
  <2>1. \A s \in Sockets : Settled(s)' = feed_ids[s]
    <3>1. UNCHANGED feed_ids
      BY <1>2 DEF CallRaises
    <3>2. loop' = Idle \/ loop' = Unsubscribing(loop.sock, "finally", {})
      BY <1>2 DEF CallRaises
    <3>3. \A s \in Sockets : loop'.sock = s => loop'.counted = feed_ids[s] /\ loop'.pending = {}
      BY <3>2, SocketsAssumption DEF Idle, Unsubscribing
    <3> QED BY <3>1, <3>3 DEF Settled
  <2>2. \A s \in Sockets : s # loop.sock => Settled(s) = feed_ids[s]
    BY DEF Settled
  <2>3. loop.pending \subseteq F
    BY <1>2 DEF IInv, LoopWellFormed
  <2>4. Settled(loop.sock) \ F = loop.counted \ F
    BY <2>3 DEF Settled
  <2>5. loop.counted \ F = feed_ids[loop.sock] \ F
    BY DEF Damage
  <2> QED BY <2>1, <2>2, <2>4, <2>5
<1>8. /\ DOMAIN feeds' \ F = DOMAIN feeds \ F
      /\ EnabledFeeds' \ F = EnabledFeeds \ F
  BY <1>2, <1>3 DEF EnabledFeeds
<1>9. P!Lose(F)
  <2> HIDE DEF F
  <2>1. \A s \in Sockets : Settled(s)' \ tainted' = (Settled(s) \ tainted) \ F
    BY <1>6, <1>7
  <2>2. /\ DOMAIN feeds' \ tainted' = (DOMAIN feeds \ tainted) \ F
        /\ EnabledFeeds' \ tainted' = (EnabledFeeds \ tainted) \ F
    BY <1>6, <1>8
  <2> QED BY <1>6, <2>1, <2>2 DEF P!Lose
<1> QED BY <1>5, <1>9 DEF P!Next

\* Every step implements a step of Presence or none.
LEMMA NextRefines ==
  ASSUME IInv, [Next]_vars
  PROVE  [P!Next]_(P!vars)
<1> USE DEF IInv
<1>1. ASSUME NEW s \in Sockets, Handler(s)
      PROVE  UNCHANGED P!vars
  <2>1. loop = Idle /\ UNCHANGED <<feeds, feed_ids, tainted>>
    BY <1>1 DEF Handler, Connect, Wake, Overflowed, Disconnect, BadFrame, ReceiveFrame,
                Deliver, Sent, SendFails, Closed, Leave, storeVars, subVars, runVars,
                LoopWellFormed
  <2>2. \/ loop' = Idle
        \/ loop' = Unsubscribing(s, "finally", {})
        \/ \E frame \in Frames :
              loop' = [caller |-> "frame", sock |-> s, entries |-> frame,
                       ids |-> {}, counted |-> feed_ids[s], pending |-> {}, drops |-> {}]
    BY <1>1, <2>1 DEF Handler, Connect, Wake, Overflowed, Disconnect, BadFrame,
                ReceiveFrame, Deliver, Sent, SendFails, Closed, Leave
  <2>3. \A t \in Sockets : Settled(t) = feed_ids[t]
    BY <2>1, SocketsAssumption DEF Settled, Idle
  <2>5. \A t \in Sockets : loop'.sock = t => loop'.counted = feed_ids[t] /\ loop'.pending = {}
    BY <2>2, SocketsAssumption DEF Idle, Unsubscribing
  <2>4. \A t \in Sockets : Settled(t)' = feed_ids[t]
    BY <2>1, <2>5 DEF Settled
  <2> QED BY <2>1, <2>3, <2>4, Stutters
<1>2. CASE FrameDone \/ UnsubscribeDone
  <2>1. /\ loop.sock \in Sockets /\ loop.counted = loop.ids /\ loop.pending = {}
        /\ feed_ids' = [feed_ids EXCEPT ![loop.sock] = loop.ids]
        /\ UNCHANGED feeds /\ UNCHANGED tainted
    BY <1>2 DEF FrameDone, UnsubscribeDone, SetFeedsReturns, Counting, InSetFeeds, storeVars,
                runVars, TypeOK
  <2>2. \A s \in Sockets : feed_ids'[s] = Settled(s)
    BY <2>1 DEF Settled, TypeOK
  <2>3. \/ loop' = Idle
        \/ \E s \in loop.drops : loop' = Unsubscribing(s, "publish", loop.drops \ {s})
    BY <1>2 DEF FrameDone, UnsubscribeDone
  <2>4. \A s \in Sockets : Settled(s)' = feed_ids'[s]
    <3>1. CASE loop' = Idle
      BY <3>1, SocketsAssumption DEF Settled, Idle
    <3>2. ASSUME NEW t \in loop.drops,
                 loop' = Unsubscribing(t, "publish", loop.drops \ {t})
          PROVE  \A s \in Sockets : Settled(s)' = feed_ids'[s]
      <4>1. t # loop.sock
        BY DEF LoopWellFormed
      <4>2. feed_ids'[t] = feed_ids[t]
        BY <2>1, <4>1 DEF TypeOK
      <4> QED BY <3>2, <4>2 DEF Settled, Unsubscribing
    <3> QED BY <2>3, <3>1, <3>2
  <2> QED BY <2>1, <2>2, <2>4, Stutters
<1>3. ASSUME NEW full \in SUBSET subs, Publish(full)
      PROVE  UNCHANGED P!vars
  <2>1. PICK s \in full : loop' = Unsubscribing(s, "publish", full \ {s})
    BY <1>3 DEF Publish
  <2>2. loop = Idle /\ UNCHANGED <<feeds, feed_ids, tainted>>
    BY <1>3 DEF Publish, LoopWellFormed, storeVars, runVars
  <2>3. \A t \in Sockets : Settled(t)' = Settled(t)
    BY <2>1, <2>2, SocketsAssumption DEF Settled, Unsubscribing, Idle
  <2> QED BY <2>2, <2>3, Stutters
<1>4. CASE Sweep
  <2>1. UNCHANGED tainted /\ \A s \in Sockets : Settled(s)' = Settled(s)
    BY <1>4 DEF Sweep, subVars, runVars, Settled
  <2>2. DOMAIN feeds' = EnabledFeeds /\ EnabledFeeds' = EnabledFeeds
    BY <1>4, DropDisabledFeedsOK DEF Sweep, TypeOK, EnabledFeeds
  <2>3. P!Reclaim
    BY <2>1, <2>2 DEF P!Reclaim
  <2> QED BY <2>3 DEF P!Next
<1>5. CASE Restart
  <2>1. tainted' = {} /\ \A s \in Sockets : Settled(s)' = {}
    BY <1>5, SocketsAssumption DEF Restart, Settled, Idle
  <2>2. DOMAIN feeds' = DOMAIN feeds /\ EnabledFeeds' = {}
    BY <1>5, DisableAllFeedsOK DEF Restart, TypeOK, EnabledFeeds
  <2>3. P!Restart
    BY <2>1, <2>2 DEF P!Restart
  <2> QED BY <2>3 DEF P!Next
<1>6. CASE UNCHANGED vars
  BY <1>6, Stutters DEF vars, storeVars, subVars, runVars, Settled
<1> QED
  BY <1>1, <1>2, <1>3, <1>4, <1>5, <1>6,
     UpsertEntryRefines, AddFeedRefines, RemoveFeedRefines, SwitchFeedRefines,
     StoreRaisesRefines
  DEF Next, LoopStep

\* Subscriptions implements Presence: at every step the enabled rows are what the
\* names of the subscriptions say, although the code only keeps a number per feed.
THEOREM SubscriptionsImplementPresence == Spec => Refinement
<1>1. Init => P!Init
  BY InitRefines
<1>2. IInv /\ [Next]_vars => [P!Next]_(P!vars)
  BY NextRefines
<1> QED BY <1>1, <1>2, Invariance, PTL DEF Spec, Refinement, P!Spec

\* What Presence promises follows from its own steps: a feed of the pool that some
\* subscription names is polled.
LEMMA PresenceKeeps ==
  ASSUME P!TypeOK, P!NamedIsPolled, [P!Next]_(P!vars)
  PROVE  P!TypeOK' /\ P!NamedIsPolled'
<1> USE DEF P!TypeOK, P!NamedIsPolled, P!Named
<1>1. ASSUME NEW f \in FeedIds, P!Admit(f) PROVE P!TypeOK' /\ P!NamedIsPolled'
  <2>1. P!TypeOK'
    BY <1>1 DEF P!Admit
  <2>2. P!NamedIsPolled'
    BY <1>1 DEF P!Admit
  <2> QED BY <2>1, <2>2
<1>2. ASSUME NEW s \in Sockets, NEW f \in FeedIds, P!Name(s, f)
      PROVE  P!TypeOK' /\ P!NamedIsPolled'
  <2>1. \A t \in Sockets : Settled(t)' \ tainted' = IF t = s THEN (Settled(t) \ tainted) \cup {f}
                                                               ELSE Settled(t) \ tainted
    BY <1>2 DEF P!Name
  <2>2. /\ tainted' = tainted /\ DOMAIN feeds' \ tainted' = DOMAIN feeds \ tainted
        /\ EnabledFeeds' \ tainted' = (EnabledFeeds \ tainted)
                                         \cup ({f} \cap (DOMAIN feeds \ tainted))
    BY <1>2 DEF P!Name
  <2>3. P!TypeOK'
    BY <2>1, <2>2
  <2>4. ASSUME NEW g \in DOMAIN feeds' \ tainted', NEW t \in Sockets, g \in Settled(t)' \ tainted'
        PROVE  g \in EnabledFeeds' \ tainted'
    <3>1. CASE g = f
      BY <2>2, <2>4, <3>1
    <3>2. CASE g # f
      <4>1. g \in DOMAIN feeds \ tainted /\ g \in Settled(t) \ tainted
        BY <2>1, <2>2, <2>4, <3>2
      <4> QED BY <2>2, <4>1
    <3> QED BY <3>1, <3>2
  <2>5. P!NamedIsPolled'
    BY ONLY <2>4 DEF P!NamedIsPolled, P!Named
  <2> QED BY ONLY <2>3, <2>5
<1>3. ASSUME NEW s \in Sockets, NEW f \in FeedIds, P!Unname(s, f)
      PROVE  P!TypeOK' /\ P!NamedIsPolled'
  <2>1. \A t \in Sockets : Settled(t)' \ tainted' = IF t = s THEN (Settled(t) \ tainted) \ {f}
                                                               ELSE Settled(t) \ tainted
    BY <1>3 DEF P!Unname
  <2>2. /\ tainted' = tainted /\ DOMAIN feeds' \ tainted' = DOMAIN feeds \ tainted
        /\ EnabledFeeds' \ tainted' =
              IF \E t \in Sockets \ {s} : f \in Settled(t) \ tainted
              THEN EnabledFeeds \ tainted ELSE (EnabledFeeds \ tainted) \ {f}
    BY <1>3 DEF P!Unname
  <2>3. P!TypeOK'
    BY <2>1, <2>2
  <2>4. ASSUME NEW g \in DOMAIN feeds' \ tainted', NEW t \in Sockets, g \in Settled(t)' \ tainted'
        PROVE  g \in EnabledFeeds' \ tainted'
    <3>1. g \in Settled(t) \ tainted /\ g \in EnabledFeeds \ tainted
      BY <2>1, <2>2, <2>4
    <3> QED BY <2>1, <2>2, <2>4, <3>1
  <2>5. P!NamedIsPolled'
    BY ONLY <2>4 DEF P!NamedIsPolled, P!Named
  <2> QED BY ONLY <2>3, <2>5
<1>4. CASE P!Reclaim
  BY <1>4 DEF P!Reclaim
<1>5. CASE P!Restart
  BY <1>5 DEF P!Restart
<1>6. ASSUME NEW F \in SUBSET FeedIds, P!Lose(F) PROVE P!TypeOK' /\ P!NamedIsPolled'
  BY <1>6 DEF P!Lose
<1>7. CASE UNCHANGED P!vars
  BY <1>7 DEF P!vars
<1> QED BY <1>1, <1>2, <1>3, <1>4, <1>5, <1>6, <1>7 DEF P!Next

\* A feed with a row that some subscription names is enabled at every step of a frame, a
\* drop or a sweep, and not only when the event loop is free: from the set_enabled that
\* follows the first count to the set_enabled that follows the last.
THEOREM CountedIsPolled == Spec => []P!NamedIsPolled
<1>1. P!Init => P!TypeOK /\ P!NamedIsPolled
  BY DEF P!Init, P!TypeOK, P!NamedIsPolled
<1>2. P!TypeOK /\ P!NamedIsPolled /\ [P!Next]_(P!vars) => (P!TypeOK /\ P!NamedIsPolled)'
  BY PresenceKeeps
<1> QED BY <1>1, <1>2, SubscriptionsImplementPresence, PTL DEF Refinement, P!Spec
==============================================================================
