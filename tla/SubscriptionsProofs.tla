------------------------- MODULE SubscriptionsProofs -------------------------
(***************************************************************************)
(* The reference counts are exact and the `enabled` column follows them,   *)
(* for every set of connections, URLs and frames and every bound.          *)
(***************************************************************************)
EXTENDS Subscriptions, StoreProofs, FiniteSetTheorems

----------------------------------------------------------------------------
\* Types

LEMMA InitType == Init => TypeOK
  BY EmptyStoreOK DEF Init, TypeOK, Idle, LoopIdle, LoopStates, Callers, HandlerStates

\* A stretch of a handler that leaves the store and the counts alone keeps the
\* types; so does the one that starts an unsubscribe or a frame.
LEMMA HandlerType ==
  ASSUME TypeOK, NEW s \in Sockets, Handler(s)
  PROVE  TypeOK'
<1> USE DEF TypeOK, LoopIdle, LoopStates, HandlerStates, Callers, subVars, storeVars, runVars
<1>1. CASE UNCHANGED storeVars /\ UNCHANGED <<counts, feed_ids, closed, loop, runVars>>
           /\ (subs' = subs \cup {s} \/ subs' = subs)
           /\ \E st \in HandlerStates : pc' = [pc EXCEPT ![s] = st]
  BY <1>1 DEF StoreTypeOK
<1>2. CASE Leave(s)
  <2>1. Unsubscribing(s, "finally", {}) \in LoopStates
    BY DEF Unsubscribing, LoopStates
  <2>2. Unsubscribing(s, "finally", {}).sock \in Sockets
    BY DEF Unsubscribing
  <2>3. Idle \in LoopStates
        /\ Idle.caller = "nobody"
    BY DEF Idle
  <2>4. StoreTypeOK'
    BY <1>2 DEF Leave, StoreTypeOK
  <2> QED BY <1>2, <2>1, <2>2, <2>3, <2>4 DEF Leave
<1>3. ASSUME NEW frame \in Frames, ReceiveFrame(s, frame)
      PROVE  TypeOK'
  <2>1. frame \in Seq(Urls)
    BY FramesAssumption
  <2>2. StoreTypeOK'
    BY <1>3 DEF ReceiveFrame, StoreTypeOK
  <2> QED BY <1>3, <2>1, <2>2 DEF ReceiveFrame
<1> QED
  BY <1>1, <1>2, <1>3
  DEF Handler, Connect, Wake, Overflowed, Disconnect, BadFrame, Deliver, Sent,
      SendFails, Closed, Moves

\* The set_enabled of set_feeds makes the flag of its feed say whether it is counted.
LEMMA SwitchOK ==
  ASSUME StoreTypeOK, NEW f, Switch(f)
  PROVE  /\ StoreTypeOK'
         /\ DOMAIN feeds' = DOMAIN feeds
         /\ \A g \in DOMAIN feeds : g # f => feeds'[g] = feeds[g]
         /\ f \in DOMAIN feeds => (feeds'[f].enabled <=> f \in loop.counted)
<1>1. CASE f \in loop.counted /\ set_enabled(f, TRUE)
  BY <1>1, SetEnabledOK
<1>2. CASE f \notin loop.counted /\ set_enabled(f, FALSE)
  BY <1>2, SetEnabledOK
<1> QED BY <1>1, <1>2 DEF Switch

\* The steps of resolve_subscription and set_feeds keep the types.
LEMMA LoopStepType ==
  ASSUME TypeOK, LoopStep
  PROVE  TypeOK'
<1> USE DEF LoopIdle, LoopStates, InSetFeeds, subVars, runVars
<1>1. ASSUME NEW id \in FeedIds, Resolving, upsert_feed(Head(loop.entries), 0, id),
             loop' = [loop EXCEPT !.entries = Tail(@), !.ids = @ \cup {id}],
             UNCHANGED <<subVars, pc, runVars>>
      PROVE  TypeOK'
  <2>1. Head(loop.entries) \in Urls /\ Tail(loop.entries) \in Seq(Urls)
    BY <1>1 DEF TypeOK, Resolving
  <2>2. StoreTypeOK'
    BY <1>1, <2>1, UpsertFeedOK DEF TypeOK
  <2> QED BY <1>1, <2>1, <2>2 DEF TypeOK, Resolving
<1>2. ASSUME NEW f \in FeedIds, AddFeed(f) \/ RemoveFeed(f)
      PROVE  TypeOK'
  <2>1. StoreTypeOK'
    BY <1>2 DEF TypeOK, StoreTypeOK, storeVars, AddFeed, RemoveFeed
  <2>2. counts' \in [FeedIds -> Nat]
    <3>1. counts \in [FeedIds -> Nat] /\ counts[f] \in Nat
      BY DEF TypeOK
    <3>2. \E n \in Nat : counts' = [counts EXCEPT ![f] = n]
      <4>1. counts[f] + 1 \in Nat /\ (IF counts[f] <= 1 THEN 0 ELSE counts[f] - 1) \in Nat
        BY <3>1
      <4>2. CASE AddFeed(f)
        BY <4>1, <4>2 DEF AddFeed
      <4>3. CASE RemoveFeed(f)
        BY <4>1, <4>3 DEF RemoveFeed
      <4> QED BY <1>2, <4>2, <4>3
    <3> QED BY <3>1, <3>2
  <2>3. \E C, D \in SUBSET FeedIds : loop' = [loop EXCEPT !.counted = C, !.pending = D]
    <3>1. /\ loop.counted \cup {f} \in SUBSET FeedIds /\ loop.counted \ {f} \in SUBSET FeedIds
          /\ {f} \in SUBSET FeedIds /\ {} \in SUBSET FeedIds
      BY DEF TypeOK
    <3>2. CASE AddFeed(f)
      BY <3>1, <3>2 DEF AddFeed
    <3>3. CASE RemoveFeed(f)
      BY <3>1, <3>3 DEF RemoveFeed
    <3> QED BY <1>2, <3>2, <3>3
  <2>4. UNCHANGED <<subs, feed_ids, closed, pc, runVars>>
    BY <1>2 DEF AddFeed, RemoveFeed
  <2> QED BY <2>1, <2>2, <2>3, <2>4 DEF TypeOK
<1>3. ASSUME NEW f \in FeedIds, SwitchFeed(f)
      PROVE  TypeOK'
  <2>1. StoreTypeOK'
    BY <1>3, SwitchOK DEF TypeOK, SwitchFeed
  <2> QED BY <1>3, <2>1 DEF TypeOK, SwitchFeed
<1>4. CASE FrameDone
  <2>1. StoreTypeOK'
    BY <1>4 DEF TypeOK, StoreTypeOK, storeVars, FrameDone
  <2>2. feed_ids' \in [Sockets -> SUBSET FeedIds] /\ pc' \in [Sockets -> HandlerStates]
    BY <1>4 DEF TypeOK, FrameDone, SetFeedsReturns, HandlerStates
  <2>3. loop' = Idle /\ UNCHANGED <<subs, counts, closed, runVars>>
    BY <1>4 DEF FrameDone
  <2> QED BY <2>1, <2>2, <2>3 DEF TypeOK, Idle, Callers
<1>5. CASE UnsubscribeDone
  <2>1. StoreTypeOK'
    BY <1>5 DEF TypeOK, StoreTypeOK, storeVars, UnsubscribeDone
  <2>2. feed_ids' \in [Sockets -> SUBSET FeedIds] /\ subs' \subseteq Sockets
    BY <1>5 DEF TypeOK, UnsubscribeDone, SetFeedsReturns
  <2>3. CASE loop' = Idle
    BY <1>5, <2>1, <2>2, <2>3 DEF TypeOK, UnsubscribeDone, Idle, Callers
  <2>4. ASSUME NEW s \in loop.drops,
               loop' = Unsubscribing(s, "publish", loop.drops \ {s})
        PROVE  TypeOK'
    <3>1. s \in Sockets /\ loop.drops \in SUBSET Sockets
      BY <2>4 DEF TypeOK
    <3> QED BY <1>5, <2>1, <2>2, <2>4, <3>1 DEF TypeOK, UnsubscribeDone, Unsubscribing, Callers
  <2> QED BY <1>5, <2>3, <2>4 DEF UnsubscribeDone
<1>6. CASE UpsertEntry
  BY <1>1, <1>6 DEF UpsertEntry
<1> QED BY <1>2, <1>3, <1>4, <1>5, <1>6 DEF LoopStep

LEMMA EntriesType ==
  ASSUME TypeOK, Resolving
  PROVE  Head(loop.entries) \in Urls
  BY DEF TypeOK, LoopStates, Resolving

\* A call that raises writes what the method writes, or nothing.
LEMMA StoreRaisesRows ==
  ASSUME TypeOK, StoreRaises
  PROVE  /\ StoreTypeOK'
         /\ counts' = counts
         /\ DOMAIN feeds \subseteq DOMAIN feeds'
         /\ \E about \in SUBSET FeedIds :
               /\ CallRaises(about)
               /\ Resolving \/ loop.pending \subseteq about
               /\ DOMAIN feeds' \subseteq DOMAIN feeds \cup about
               /\ \A f \in DOMAIN feeds \ about : feeds'[f] = feeds[f]
<1> USE DEF TypeOK
<1>1. ASSUME UNCHANGED storeVars PROVE StoreTypeOK' /\ feeds' = feeds
  BY <1>1 DEF StoreTypeOK, storeVars
<1>2. CASE UpsertRaises
  <2>1. counts' = counts /\ Resolving
    BY <1>2 DEF UpsertRaises
  <2>2. CASE UNCHANGED storeVars /\ CallRaises({})
    <3>1. StoreTypeOK' /\ feeds' = feeds
      BY <1>1, <2>2
    <3> QED BY <2>1, <2>2, <3>1
  <2>3. ASSUME NEW id \in FeedIds, upsert_feed(Head(loop.entries), 0, id), CallRaises({id})
        PROVE  /\ StoreTypeOK'
               /\ DOMAIN feeds' = DOMAIN feeds \cup {id}
               /\ \A f \in DOMAIN feeds : feeds'[f] = feeds[f]
    BY <1>2, <2>3, EntriesType, UpsertFeedOK DEF UpsertRaises
  <2>4. \/ UNCHANGED storeVars /\ CallRaises({})
        \/ \E id \in FeedIds : upsert_feed(Head(loop.entries), 0, id) /\ CallRaises({id})
    BY <1>2 DEF UpsertRaises
  <2>5. ASSUME NEW id \in FeedIds, upsert_feed(Head(loop.entries), 0, id), CallRaises({id})
        PROVE  /\ StoreTypeOK'
               /\ DOMAIN feeds \subseteq DOMAIN feeds'
               /\ \E about \in SUBSET FeedIds :
                     /\ CallRaises(about)
                     /\ Resolving \/ loop.pending \subseteq about
                     /\ DOMAIN feeds' \subseteq DOMAIN feeds \cup about
                     /\ \A f \in DOMAIN feeds \ about : feeds'[f] = feeds[f]
    <3>1. {id} \in SUBSET FeedIds
      OBVIOUS
    <3> QED BY <2>1, <2>3, <2>5, <3>1
  <2> QED BY <2>1, <2>2, <2>4, <2>5
<1>3. ASSUME NEW f \in FeedIds, SwitchRaises(f)
      PROVE  /\ CallRaises({f}) /\ StoreTypeOK' /\ counts' = counts
             /\ loop.pending = {f}
             /\ DOMAIN feeds' = DOMAIN feeds
             /\ \A g \in DOMAIN feeds \ {f} : feeds'[g] = feeds[g]
  <2>1. CallRaises({f}) /\ counts' = counts /\ loop.pending = {f}
    BY <1>3 DEF SwitchRaises
  <2>2. CASE UNCHANGED storeVars
    BY <1>1, <2>1, <2>2
  <2>3. CASE Switch(f)
    BY <2>1, <2>3, SwitchOK
  <2> QED BY <1>3, <2>2, <2>3 DEF SwitchRaises
<1>4. ASSUME NEW f \in FeedIds, SwitchRaises(f)
      PROVE  \E about \in SUBSET FeedIds :
                /\ CallRaises(about)
                /\ Resolving \/ loop.pending \subseteq about
                /\ DOMAIN feeds' \subseteq DOMAIN feeds \cup about
                /\ \A g \in DOMAIN feeds \ about : feeds'[g] = feeds[g]
  <2>1. {f} \in SUBSET FeedIds
    OBVIOUS
  <2> QED BY <1>3, <1>4, <2>1
<1>5. UpsertRaises \/ \E f \in FeedIds : SwitchRaises(f)
  BY DEF StoreRaises
<1> QED BY <1>2, <1>3, <1>4, <1>5

\* The types survive it.
LEMMA StoreRaisesType ==
  ASSUME TypeOK, StoreRaises
  PROVE  TypeOK'
<1>1. StoreTypeOK' /\ counts' = counts
  BY StoreRaisesRows
<1>2. PICK about \in SUBSET FeedIds : CallRaises(about)
  BY StoreRaisesRows
<1>3. ~LoopIdle /\ loop.sock \in Sockets
  BY DEF StoreRaises, UpsertRaises, SwitchRaises, Resolving, InSetFeeds, TypeOK
<1>4. faults' \in Nat /\ tainted' \subseteq FeedIds
  BY <1>2, <1>3 DEF CallRaises, Damage, TypeOK, LoopStates
<1>5. pc' \in [Sockets -> HandlerStates]
  BY <1>2 DEF CallRaises, TypeOK, HandlerStates
<1>6. UNCHANGED <<subs, feed_ids, closed, restarts>>
  BY <1>2 DEF CallRaises
<1>7. loop' = Idle \/ loop' = Unsubscribing(loop.sock, "finally", {})
  BY <1>2 DEF CallRaises
<1>8. /\ loop' \in LoopStates
      /\ loop'.caller = "nobody" \/ loop'.sock \in Sockets
  <2>1. CASE loop' = Idle
    BY <2>1 DEF Idle, LoopStates, Callers
  <2>2. CASE loop' = Unsubscribing(loop.sock, "finally", {})
    <3>1. feed_ids[loop.sock] \in SUBSET FeedIds
      BY <1>3 DEF TypeOK
    <3> QED BY <1>3, <2>2, <3>1 DEF Unsubscribing, LoopStates, Callers
  <2> QED BY <1>7, <2>1, <2>2
<1> QED BY <1>1, <1>4, <1>5, <1>6, <1>8 DEF TypeOK, LoopStates, LoopIdle

\* Every step keeps the types.
LEMMA NextType ==
  ASSUME TypeOK, [Next]_vars
  PROVE  TypeOK'
<1>1. ASSUME NEW s \in Sockets, Handler(s)
      PROVE  TypeOK'
  BY <1>1, HandlerType
<1>2. CASE LoopStep
  BY <1>2, LoopStepType
<1>3. ASSUME NEW full \in SUBSET subs, Publish(full)
      PROVE  TypeOK'
  <2>1. StoreTypeOK'
    BY <1>3 DEF TypeOK, StoreTypeOK, storeVars, Publish
  <2>2. PICK s \in full : loop' = Unsubscribing(s, "publish", full \ {s})
    BY <1>3 DEF Publish
  <2>3. s \in Sockets /\ full \in SUBSET Sockets
    BY <2>2 DEF TypeOK
  <2>4. closed' \in [Sockets -> BOOLEAN]
    BY <1>3 DEF Publish, TypeOK
  <2> QED BY <1>3, <2>1, <2>2, <2>3, <2>4
          DEF TypeOK, LoopStates, Publish, Unsubscribing, Callers, LoopIdle, runVars
<1>4. CASE Sweep
  <2>1. StoreTypeOK'
    BY <1>4, DropDisabledFeedsOK DEF TypeOK, Sweep
  <2> QED BY <1>4, <2>1 DEF TypeOK, Sweep, subVars, runVars, LoopIdle
<1>5. CASE Restart
  <2>1. StoreTypeOK'
    BY <1>5, DisableAllFeedsOK DEF TypeOK, Restart
  <2> QED BY <1>5, <2>1, MaxRestartsAssumption
          DEF TypeOK, LoopStates, Restart, LoopIdle, Idle, Callers, HandlerStates
<1>6. CASE UNCHANGED vars
  BY <1>6 DEF TypeOK, StoreTypeOK, vars, subVars, runVars, storeVars, LoopIdle
<1> QED BY <1>1, <1>2, <1>3, <1>4, <1>5, <1>6, StoreRaisesType DEF Next

\* Type correctness of the specification: also that every row of feeds has its
\* feed_state row, no URL has two rows, and no article is left without its feed.
THEOREM TypeCorrect == Spec => []TypeOK
<1>1. Init => TypeOK
  BY InitType
<1>2. TypeOK /\ [Next]_vars => TypeOK'
  BY NextType
<1> QED BY <1>1, <1>2, PTL DEF Spec

----------------------------------------------------------------------------
\* Counts

\* The count is a number and is zero exactly when nobody names the feed.
LEMMA NamersFinite ==
  ASSUME NEW f
  PROVE  /\ IsFiniteSet(Namers(f))
         /\ Cardinality(Namers(f)) \in Nat
         /\ Cardinality(Namers(f)) = 0 <=> Namers(f) = {}
<1>1. Namers(f) \in SUBSET Sockets
  BY DEF Namers
<1>2. IsFiniteSet(Namers(f))
  BY <1>1, SocketsAssumption, FS_Subset
<1> QED BY <1>2, FS_CardinalityType, FS_EmptySet

\* A step that neither counts nor moves what is counted keeps the counts exact.
LEMMA SameCounted ==
  ASSUME CountsExact, UNCHANGED <<counts, tainted>>,
         \A s \in Sockets : Counted(s)' = Counted(s)
  PROVE  CountsExact'
<1>1. \A f : Namers(f)' = Namers(f)
  BY DEF Namers
<1> QED BY <1>1 DEF CountsExact

\* While the loop is idle what is counted is what is named.
LEMMA IdleCounted ==
  ASSUME TypeOK, LoopWellFormed, LoopIdle, NEW s \in Sockets
  PROVE  Counted(s) = feed_ids[s]
  BY SocketsAssumption DEF LoopWellFormed, Idle, Counted

LEMMA HandlerInv ==
  ASSUME IInv, NEW s \in Sockets, Handler(s)
  PROVE  /\ LoopWellFormed'
         /\ CountsExact'
         /\ UNCHANGED <<feeds, counts, tainted>>
         /\ loop.ids = {} /\ loop'.ids = {}
         /\ loop.pending = {} /\ loop'.pending = {}
<1> USE DEF IInv
<1>1. LoopIdle /\ loop = Idle
  BY DEF Handler, Connect, Wake, Overflowed, Disconnect, BadFrame, ReceiveFrame,
         Deliver, Sent, SendFails, Closed, Leave, LoopWellFormed
<1>2. \A t \in Sockets : Counted(t) = feed_ids[t]
  BY <1>1, IdleCounted
<1>3. UNCHANGED <<feeds, counts, feed_ids, tainted>>
  BY DEF Handler, Connect, Wake, Overflowed, Disconnect, BadFrame, ReceiveFrame,
         Deliver, Sent, SendFails, Closed, Leave, storeVars, subVars, runVars
<1>4. \/ loop' = Idle
      \/ loop' = Unsubscribing(s, "finally", {})
      \/ \E frame \in Frames :
            loop' = [caller |-> "frame", sock |-> s, entries |-> frame,
                     ids |-> {}, counted |-> feed_ids[s], pending |-> {}, drops |-> {}]
  BY <1>1 DEF Handler, Connect, Wake, Overflowed, Disconnect, BadFrame, ReceiveFrame,
         Deliver, Sent, SendFails, Closed, Leave
<1>5. LoopWellFormed' /\ loop'.ids = {} /\ loop'.pending = {}
  BY <1>4 DEF LoopWellFormed, LoopIdle, Resolving, Idle, Unsubscribing
<1>6. \A t \in Sockets : Counted(t)' = feed_ids[t]
  BY <1>3, <1>4, SocketsAssumption DEF Counted, Idle, Unsubscribing
<1>7. CountsExact'
  BY <1>2, <1>3, <1>6, SameCounted
<1> QED BY <1>1, <1>3, <1>5, <1>7 DEF Idle

LEMMA UpsertEntryInv ==
  ASSUME IInv, UpsertEntry
  PROVE  LoopWellFormed' /\ CountsExact'
<1> USE DEF IInv, TypeOK, LoopStates
<1>1. PICK id \in FeedIds : loop' = [loop EXCEPT !.entries = Tail(@), !.ids = @ \cup {id}]
  BY DEF UpsertEntry
<1>2. /\ loop'.caller = loop.caller /\ loop'.sock = loop.sock
      /\ loop'.counted = loop.counted /\ loop'.drops = loop.drops
      /\ loop'.pending = loop.pending /\ loop.pending = {}
  BY <1>1 DEF LoopWellFormed, UpsertEntry
<1>3. UNCHANGED <<counts, feed_ids, tainted>>
  BY DEF UpsertEntry, subVars, runVars
<1>4. LoopWellFormed'
  BY <1>2 DEF LoopWellFormed, LoopIdle, UpsertEntry, Resolving
<1>5. \A s \in Sockets : Counted(s)' = Counted(s)
  BY <1>2, <1>3 DEF Counted
<1> QED BY <1>3, <1>4, <1>5, SameCounted

\* One more subscription names f, and it is counted once more.
LEMMA AddFeedInv ==
  ASSUME IInv, NEW f \in FeedIds, AddFeed(f)
  PROVE  LoopWellFormed' /\ CountsExact'
<1> USE DEF IInv, TypeOK, LoopStates
<1>1. /\ loop.sock \in Sockets /\ f \notin loop.counted
      /\ loop'.caller = loop.caller /\ loop'.sock = loop.sock /\ loop'.drops = loop.drops
      /\ loop'.counted = loop.counted \cup {f}
      /\ loop'.entries = <<>>
      /\ loop'.pending = IF counts'[f] = 1 THEN {f} ELSE {}
  BY DEF AddFeed, Counting, InSetFeeds
<1>2. UNCHANGED <<feed_ids, tainted>>
  BY DEF AddFeed, runVars
<1>3. LoopWellFormed'
  BY <1>1 DEF LoopWellFormed, LoopIdle, Resolving, AddFeed, Counting, InSetFeeds
<1>4. \A g \in FeedIds \ {f} : Namers(g)' = Namers(g)
  BY <1>1, <1>2 DEF Namers, Counted
<1>5. Namers(f)' = Namers(f) \cup {loop.sock} /\ loop.sock \notin Namers(f)
  BY <1>1, <1>2 DEF Namers, Counted
<1>6. Cardinality(Namers(f)') = Cardinality(Namers(f)) + 1
  BY <1>5, NamersFinite, FS_AddElement
<1>7. counts'[f] = counts[f] + 1 /\ \A g \in FeedIds \ {f} : counts'[g] = counts[g]
  BY DEF AddFeed
<1> QED BY <1>2, <1>3, <1>4, <1>6, <1>7 DEF CountsExact

\* One subscription fewer names f; it was counted, so the count was not zero unless a
\* failed call has left it wrong.
LEMMA RemoveFeedInv ==
  ASSUME IInv, NEW f \in FeedIds, RemoveFeed(f)
  PROVE  /\ LoopWellFormed'
         /\ CountsExact'
         /\ UNCHANGED tainted
         /\ f \notin tainted => counts[f] > 0 /\ counts'[f] = counts[f] - 1
         /\ \A g \in FeedIds \ {f} : counts'[g] = counts[g]
<1> USE DEF IInv, TypeOK, LoopStates
<1>1. /\ loop.sock \in Sockets /\ f \in loop.counted
      /\ loop'.caller = loop.caller /\ loop'.sock = loop.sock /\ loop'.drops = loop.drops
      /\ loop'.counted = loop.counted \ {f}
      /\ loop'.entries = <<>>
      /\ loop'.pending = IF counts[f] <= 1 THEN {f} ELSE {}
      /\ counts'[f] = IF counts[f] <= 1 THEN 0 ELSE counts[f] - 1
  BY DEF RemoveFeed, Counting, InSetFeeds
<1>2. UNCHANGED <<feed_ids, tainted>>
  BY DEF RemoveFeed, runVars
<1>3. LoopWellFormed'
  BY <1>1 DEF LoopWellFormed, LoopIdle, Resolving, RemoveFeed, Counting, InSetFeeds
<1>4. \A g \in FeedIds \ {f} : Namers(g)' = Namers(g)
  BY <1>1, <1>2 DEF Namers, Counted
<1>5. Namers(f)' = Namers(f) \ {loop.sock} /\ loop.sock \in Namers(f)
  BY <1>1, <1>2 DEF Namers, Counted
<1>6. Cardinality(Namers(f)') = Cardinality(Namers(f)) - 1
  <2>1. IsFiniteSet(Namers(f))
    BY NamersFinite
  <2>2. Cardinality(Namers(f) \ {loop.sock}) = Cardinality(Namers(f)) - 1
    <3> DEFINE S == Namers(f)
                x == loop.sock
    <3>1. IsFiniteSet(S) /\ x \in S
      BY <1>5, <2>1
    <3> HIDE DEF S, x
    <3>2. Cardinality(S \ {x}) = IF x \in S THEN Cardinality(S) - 1 ELSE Cardinality(S)
      BY <3>1, FS_RemoveElement
    <3>3. Cardinality(S \ {x}) = Cardinality(S) - 1
      BY <3>1, <3>2
    <3> QED BY <3>3 DEF S, x
  <2> QED BY <1>5, <2>2
<1>7. counts[f] \in Nat /\ (f \notin tainted => counts[f] > 0)
  BY <1>5, NamersFinite DEF CountsExact
<1>8. /\ f \notin tainted => counts'[f] = counts[f] - 1
      /\ \A g \in FeedIds \ {f} : counts'[g] = counts[g]
  BY <1>1, <1>7 DEF RemoveFeed
<1>9. CountsExact'
  BY <1>2, <1>4, <1>6, <1>8 DEF CountsExact
<1> QED BY <1>2, <1>3, <1>7, <1>8, <1>9

\* set_feeds stores the new set once the counts include exactly that set.
LEMMA SetFeedsDoneInv ==
  ASSUME IInv, FrameDone \/ UnsubscribeDone
  PROVE  LoopWellFormed' /\ CountsExact'
<1> USE DEF IInv, TypeOK, LoopStates
<1>1. /\ loop.sock \in Sockets /\ loop.counted = loop.ids
      /\ feed_ids' = [feed_ids EXCEPT ![loop.sock] = loop.ids]
      /\ UNCHANGED <<counts, tainted>>
  BY DEF FrameDone, UnsubscribeDone, SetFeedsReturns, Counting, InSetFeeds, runVars
<1>2. \/ loop' = Idle
      \/ \E s \in loop.drops : loop' = Unsubscribing(s, "publish", loop.drops \ {s})
  BY DEF FrameDone, UnsubscribeDone
<1>3. LoopWellFormed'
  BY <1>2, SocketsAssumption DEF LoopWellFormed, LoopIdle, Resolving, Idle, Unsubscribing
<1>4. \A s \in Sockets : feed_ids'[s] = Counted(s)
  BY <1>1 DEF Counted
<1>5. \A s \in Sockets : Counted(s)' = feed_ids'[s]
  <2>1. CASE loop' = Idle
    BY <2>1, SocketsAssumption DEF Counted, Idle
  <2>2. ASSUME NEW t \in loop.drops,
               loop' = Unsubscribing(t, "publish", loop.drops \ {t})
        PROVE  \A s \in Sockets : Counted(s)' = feed_ids'[s]
    <3>1. t # loop.sock
      BY DEF LoopWellFormed
    <3>2. feed_ids'[t] = feed_ids[t]
      BY <1>1, <3>1
    <3> QED BY <2>2, <3>2 DEF Counted, Unsubscribing
  <2> QED BY <1>2, <2>1, <2>2
<1> QED BY <1>1, <1>3, <1>4, <1>5, SameCounted

\* set_enabled changes no count.
LEMMA SwitchFeedInv ==
  ASSUME IInv, NEW f \in FeedIds, SwitchFeed(f)
  PROVE  /\ LoopWellFormed'
         /\ CountsExact'
         /\ UNCHANGED <<counts, tainted>>
         /\ loop'.counted = loop.counted /\ loop'.ids = loop.ids /\ loop'.sock = loop.sock
         /\ loop'.pending = {}
<1> USE DEF IInv, TypeOK, LoopStates
<1>1. /\ loop'.caller = loop.caller /\ loop'.sock = loop.sock /\ loop'.drops = loop.drops
      /\ loop'.counted = loop.counted /\ loop'.ids = loop.ids /\ loop'.pending = {}
  BY DEF SwitchFeed
<1>2. UNCHANGED <<counts, feed_ids, tainted>>
  BY DEF SwitchFeed, subVars, runVars
<1>3. LoopWellFormed'
  BY <1>1 DEF LoopWellFormed, LoopIdle, SwitchFeed, InSetFeeds
<1>4. \A s \in Sockets : Counted(s)' = Counted(s)
  BY <1>1, <1>2 DEF Counted
<1> QED BY <1>1, <1>2, <1>3, <1>4, SameCounted

----------------------------------------------------------------------------
\* The flag

LEMMA UpsertEntryTracks ==
  ASSUME IInv, UpsertEntry
  PROVE  EnabledTracksCounts'
<1> USE DEF IInv
<1>1. PICK id \in FeedIds :
         /\ upsert_feed(Head(loop.entries), 0, id)
         /\ loop' = [loop EXCEPT !.entries = Tail(@), !.ids = @ \cup {id}]
  BY DEF UpsertEntry
<1>2. /\ DOMAIN feeds' = DOMAIN feeds \cup {id}
      /\ \A f \in DOMAIN feeds : feeds'[f] = feeds[f]
      /\ id \notin DOMAIN feeds => feeds'[id].enabled = TRUE
  BY <1>1, EntriesType, UpsertFeedOK DEF TypeOK, UpsertEntry
<1>3. /\ loop'.counted = loop.counted /\ loop'.ids = loop.ids \cup {id}
      /\ loop'.pending = loop.pending
  BY <1>1 DEF TypeOK, LoopStates
<1>4. UNCHANGED <<counts, tainted>>
  BY DEF UpsertEntry, subVars, runVars
<1>5. \A f \in DOMAIN feeds : f \in DOMAIN feeds' /\ feeds'[f] = feeds[f]
  BY <1>2
<1>6. id \in loop.counted \ tainted => counts[id] > 0
  <2> SUFFICES ASSUME id \in loop.counted \ tainted PROVE counts[id] > 0
    OBVIOUS
  <2>1. loop.sock \in Namers(id)
    BY DEF Namers, Counted, UpsertEntry, Resolving, TypeOK
  <2> QED BY <2>1, NamersFinite DEF CountsExact
<1> QED BY <1>2, <1>3, <1>4, <1>6 DEF EnabledTracksCounts

LEMMA AddFeedTracks ==
  ASSUME IInv, NEW f \in FeedIds, AddFeed(f)
  PROVE  EnabledTracksCounts'
<1> USE DEF IInv
<1>1. counts[f] \in Nat /\ counts'[f] = counts[f] + 1
  BY DEF TypeOK, AddFeed
<1>2. \A g \in FeedIds \ {f} : counts'[g] = counts[g]
  BY DEF TypeOK, AddFeed
<1>3. /\ loop'.ids = loop.ids /\ loop'.counted = loop.counted \cup {f}
      /\ loop.pending = {} /\ loop'.pending = IF counts'[f] = 1 THEN {f} ELSE {}
      /\ UNCHANGED <<feeds, tainted>>
  BY DEF TypeOK, LoopStates, AddFeed, Counting, storeVars, runVars
<1>4. counts'[f] # 1 => counts[f] > 0
  BY <1>1
<1>5. DOMAIN feeds \subseteq FeedIds
  BY DEF TypeOK, StoreTypeOK
<1> QED BY <1>1, <1>2, <1>3, <1>4, <1>5 DEF EnabledTracksCounts

LEMMA RemoveFeedTracks ==
  ASSUME IInv, NEW f \in FeedIds, RemoveFeed(f)
  PROVE  EnabledTracksCounts'
<1> USE DEF IInv
<1>1. counts[f] \in Nat /\ counts'[f] = IF counts[f] <= 1 THEN 0 ELSE counts[f] - 1
  BY DEF TypeOK, RemoveFeed
<1>2. \A g \in FeedIds \ {f} : counts'[g] = counts[g]
  BY RemoveFeedInv
<1>3. /\ loop'.ids = loop.ids /\ loop'.counted = loop.counted \ {f} /\ f \notin loop.ids
      /\ loop.pending = {} /\ loop'.pending = IF counts[f] <= 1 THEN {f} ELSE {}
      /\ UNCHANGED <<feeds, tainted>>
  BY DEF TypeOK, LoopStates, RemoveFeed, Counting, storeVars, runVars
<1>4. ~(counts[f] <= 1) => counts[f] > 0 /\ counts'[f] > 0
  BY <1>1
<1>5. DOMAIN feeds \subseteq FeedIds
  BY DEF TypeOK, StoreTypeOK
<1> QED BY <1>2, <1>3, <1>4, <1>5 DEF EnabledTracksCounts

\* set_enabled makes the flag follow the count that was ahead of it.
LEMMA SwitchFeedTracks ==
  ASSUME IInv, NEW f \in FeedIds, SwitchFeed(f)
  PROVE  EnabledTracksCounts'
<1> USE DEF IInv
<1>1. /\ loop.pending = {f}
      /\ counts[f] = IF f \in loop.counted THEN 1 ELSE 0
  BY DEF SwitchFeed, LoopWellFormed
<1>2. /\ DOMAIN feeds' = DOMAIN feeds
      /\ \A g \in DOMAIN feeds : g # f => feeds'[g] = feeds[g]
      /\ f \in DOMAIN feeds => (feeds'[f].enabled <=> f \in loop.counted)
  BY SwitchOK DEF SwitchFeed, TypeOK
<1>3. /\ UNCHANGED <<counts, tainted>>
      /\ loop'.counted = loop.counted /\ loop'.ids = loop.ids /\ loop'.pending = {}
  BY SwitchFeedInv
<1> QED BY <1>1, <1>2, <1>3 DEF EnabledTracksCounts

----------------------------------------------------------------------------
\* Failures

\* What a failed call leaves wrong is what it marks: about every other feed the counts
\* are as exact, and the flag as true, as they were before.
LEMMA StoreRaisesInv ==
  ASSUME IInv, StoreRaises
  PROVE  LoopWellFormed' /\ CountsExact' /\ EnabledTracksCounts'
<1> USE DEF IInv
<1>1. PICK about \in SUBSET FeedIds :
         /\ CallRaises(about)
         /\ Resolving \/ loop.pending \subseteq about
         /\ DOMAIN feeds' \subseteq DOMAIN feeds \cup about
         /\ \A f \in DOMAIN feeds \ about : feeds'[f] = feeds[f]
  BY StoreRaisesRows
<1>0. counts' = counts /\ loop.pending \subseteq about
  BY <1>1, StoreRaisesRows DEF LoopWellFormed
<1>2. ~LoopIdle /\ loop.sock \in Sockets
  BY DEF StoreRaises, UpsertRaises, SwitchRaises, Resolving, InSetFeeds, TypeOK
<1>3. /\ tainted' = tainted \cup Damage \cup about
      /\ UNCHANGED feed_ids
      /\ loop' = Idle \/ loop' = Unsubscribing(loop.sock, "finally", {})
  BY <1>1 DEF CallRaises
<1>4. LoopWellFormed'
  BY <1>3 DEF LoopWellFormed, LoopIdle, Resolving, Idle, Unsubscribing
<1>5. ASSUME NEW f \in FeedIds \ tainted' PROVE Namers(f)' = Namers(f)
  <2>1. f \in loop.counted <=> f \in feed_ids[loop.sock]
    BY <1>3, <1>5 DEF Damage
  <2>2. \A s \in Sockets : Counted(s)' = feed_ids[s]
    BY <1>2, <1>3, SocketsAssumption DEF Counted, Idle, Unsubscribing
  <2> QED BY <2>1, <2>2 DEF Namers, Counted
<1>6. CountsExact'
  BY <1>0, <1>3, <1>5 DEF CountsExact
<1>7. ASSUME NEW f \in DOMAIN feeds' \ tainted'
      PROVE  /\ f \in DOMAIN feeds \ tainted /\ feeds'[f] = feeds[f]
             /\ counts'[f] = counts[f]
             /\ f \notin loop.pending
             /\ f \notin loop.ids \ loop.counted
  <2>1. f \in DOMAIN feeds /\ f \in FeedIds /\ f \notin about /\ f \notin Damage
    BY <1>1, <1>3, <1>7 DEF TypeOK, StoreTypeOK
  <2> QED BY <1>0, <1>1, <1>3, <1>7, <2>1 DEF Damage
<1>8. EnabledTracksCounts'
  BY <1>7 DEF EnabledTracksCounts
<1> QED BY <1>4, <1>6, <1>8

----------------------------------------------------------------------------
\* The inductive invariant

LEMMA InitInv == Init => IInv
<1> SUFFICES ASSUME Init PROVE IInv
  OBVIOUS
<1>1. TypeOK
  BY InitType
<1>2. LoopWellFormed
  BY DEF Init, LoopWellFormed, LoopIdle, Resolving, Idle
<1>3. \A f \in FeedIds : Namers(f) = {}
  BY SocketsAssumption DEF Init, Namers, Counted, Idle
<1>4. CountsExact
  BY <1>3, FS_EmptySet DEF CountsExact, Init
<1>5. EnabledTracksCounts
  BY DEF Init, EmptyStore, EnabledTracksCounts
<1> QED BY <1>1, <1>2, <1>4, <1>5 DEF IInv

LEMMA NextInv ==
  ASSUME IInv, [Next]_vars
  PROVE  IInv'
<1>1. TypeOK'
  BY NextType DEF IInv
<1> SUFFICES LoopWellFormed' /\ CountsExact' /\ EnabledTracksCounts'
  BY <1>1 DEF IInv
<1>2. ASSUME NEW s \in Sockets, Handler(s)
      PROVE  LoopWellFormed' /\ CountsExact' /\ EnabledTracksCounts'
  BY <1>2, HandlerInv DEF IInv, EnabledTracksCounts
<1>3. CASE UpsertEntry
  BY <1>3, UpsertEntryInv, UpsertEntryTracks DEF IInv
<1>4. ASSUME NEW f \in FeedIds, AddFeed(f)
      PROVE  LoopWellFormed' /\ CountsExact' /\ EnabledTracksCounts'
  BY <1>4, AddFeedInv, AddFeedTracks DEF IInv
<1>5. ASSUME NEW f \in FeedIds, RemoveFeed(f)
      PROVE  LoopWellFormed' /\ CountsExact' /\ EnabledTracksCounts'
  BY <1>5, RemoveFeedInv, RemoveFeedTracks DEF IInv
<1>11. ASSUME NEW f \in FeedIds, SwitchFeed(f)
      PROVE  LoopWellFormed' /\ CountsExact' /\ EnabledTracksCounts'
  BY <1>11, SwitchFeedInv, SwitchFeedTracks DEF IInv
<1>6. CASE FrameDone \/ UnsubscribeDone
  <2>1. LoopWellFormed' /\ CountsExact'
    BY <1>6, SetFeedsDoneInv
  <2>2. UNCHANGED <<feeds, counts, tainted>> /\ loop.ids = loop.counted /\ loop.pending = {}
    BY <1>6 DEF FrameDone, UnsubscribeDone, SetFeedsReturns, Counting, storeVars, runVars
  <2>3. EnabledTracksCounts'
    BY <2>1, <2>2 DEF IInv, EnabledTracksCounts
  <2> QED BY <2>1, <2>3
<1>7. ASSUME NEW full \in SUBSET subs, Publish(full)
      PROVE  LoopWellFormed' /\ CountsExact' /\ EnabledTracksCounts'
  <2>1. PICK s \in full : loop' = Unsubscribing(s, "publish", full \ {s})
    BY <1>7 DEF Publish
  <2>2. LoopIdle /\ loop = Idle /\ UNCHANGED <<feeds, counts, feed_ids, tainted>>
    BY <1>7 DEF Publish, IInv, LoopWellFormed, storeVars, runVars
  <2>3. LoopWellFormed'
    BY <2>1 DEF LoopWellFormed, LoopIdle, Resolving, Unsubscribing
  <2>4. \A t \in Sockets : Counted(t)' = Counted(t)
    BY <2>1, <2>2, IdleCounted DEF IInv, Counted, Unsubscribing
  <2>5. CountsExact'
    BY <2>2, <2>4, SameCounted DEF IInv
  <2>6. EnabledTracksCounts'
    BY <2>1, <2>2 DEF IInv, EnabledTracksCounts, Idle, Unsubscribing
  <2> QED BY <2>3, <2>5, <2>6
<1>8. CASE Sweep
  <2>1. UNCHANGED <<counts, feed_ids, loop, tainted>>
    BY <1>8 DEF Sweep, subVars, runVars
  <2>2. LoopWellFormed'
    BY <2>1 DEF IInv, LoopWellFormed, LoopIdle, Resolving
  <2>3. CountsExact'
    BY <2>1, SameCounted DEF IInv, Counted
  <2>4. EnabledTracksCounts'
    BY <1>8, <2>1, DropDisabledFeedsOK DEF IInv, TypeOK, Sweep, EnabledTracksCounts, EnabledFeeds
  <2> QED BY <2>2, <2>3, <2>4
<1>9. CASE Restart
  <2>1. loop' = Idle /\ feed_ids' = [s \in Sockets |-> {}] /\ counts' = [f \in FeedIds |-> 0]
    BY <1>9 DEF Restart
  <2>2. LoopWellFormed'
    BY <2>1 DEF LoopWellFormed, LoopIdle, Resolving, Idle
  <2>3. \A f \in FeedIds : Namers(f)' = {}
    BY <2>1, SocketsAssumption DEF Namers, Counted, Idle
  <2>4. CountsExact'
    BY <2>1, <2>3, FS_EmptySet DEF CountsExact
  <2>5. \A f \in DOMAIN feeds' : feeds'[f].enabled = FALSE /\ f \in FeedIds
    BY <1>9, DisableAllFeedsOK DEF Restart, IInv, TypeOK, StoreTypeOK
  <2>6. EnabledTracksCounts'
    BY <2>1, <2>5 DEF EnabledTracksCounts
  <2> QED BY <2>2, <2>4, <2>6
<1>10. CASE UNCHANGED vars
  <2>1. UNCHANGED <<feeds, counts, feed_ids, loop, tainted>>
    BY <1>10 DEF vars, storeVars, subVars, runVars
  <2>2. LoopWellFormed' /\ EnabledTracksCounts'
    BY <2>1 DEF IInv, LoopWellFormed, LoopIdle, Resolving, EnabledTracksCounts
  <2>3. CountsExact'
    BY <2>1, SameCounted DEF IInv, Counted
  <2> QED BY <2>2, <2>3
<1> QED
  BY <1>1, <1>2, <1>3, <1>4, <1>5, <1>6, <1>7, <1>8, <1>9, <1>10, <1>11, StoreRaisesInv
  DEF Next, LoopStep, IInv

\* The inductive invariant holds in every reachable state.
THEOREM Invariance == Spec => []IInv
<1>1. Init => IInv
  BY InitInv
<1>2. IInv /\ [Next]_vars => IInv'
  BY NextInv
<1> QED BY <1>1, <1>2, PTL DEF Spec

\* The reference counts are exact, however frames, disconnects, overflows, sweeps
\* and restarts mix (broadcast.py, set_feeds and unsubscribe).
THEOREM CountsAreExact == Spec => []CountsExact
<1>1. IInv => CountsExact
  BY DEF IInv
<1> QED BY <1>1, Invariance, PTL

\* The flag mirrors "count > 0" for every row whenever the loop is idle
\* (broadcast.py, Broadcaster).
THEOREM EnabledMirrors == Spec => []EnabledMirrorsCount
<1>1. IInv => EnabledMirrorsCount
  <2> SUFFICES ASSUME IInv, LoopIdle PROVE \A f \in DOMAIN feeds \ tainted : feeds[f].enabled <=> counts[f] > 0
    BY DEF EnabledMirrorsCount
  <2>1. loop.ids = {} /\ loop.pending = {}
    BY DEF IInv, LoopWellFormed, Idle
  <2> QED BY <2>1 DEF IInv, EnabledTracksCounts, TypeOK, StoreTypeOK
<1> QED BY <1>1, Invariance, PTL

\* Whatever the sweep's timing, the one counted feed it can delete is the one whose
\* first count the frame that holds the loop has just made and not enabled yet.
THEOREM SweepSpares == Spec => SweepSparesCounted
<1>1. IInv /\ [Next]_vars =>
         [\A f \in DOMAIN feeds \ (DOMAIN feeds' \cup tainted) :
             counts[f] = 0 \/ (f \in loop.pending /\ counts[f] = 1)]_vars
  <2> SUFFICES ASSUME IInv, Next, NEW f \in DOMAIN feeds \ (DOMAIN feeds' \cup tainted)
               PROVE  counts[f] = 0 \/ (f \in loop.pending /\ counts[f] = 1)
    OBVIOUS
  <2>1. /\ f \in loop.pending => counts[f] \in {0, 1}
        /\ f \notin loop.pending /\ counts[f] # 0 => feeds[f].enabled
    BY DEF IInv, TypeOK, StoreTypeOK, EnabledTracksCounts, LoopWellFormed
  <2>2. CASE Sweep
    BY <2>1, <2>2, DropDisabledFeedsOK DEF Sweep, IInv, TypeOK, EnabledFeeds
  <2>3. CASE Restart
    BY <2>3, DisableAllFeedsOK DEF Restart, IInv, TypeOK
  <2>4. ASSUME NEW s \in Sockets, Handler(s) PROVE FALSE
    BY <2>4, HandlerInv DEF IInv
  <2>5. CASE UpsertEntry
    <3>1. PICK id : upsert_feed(Head(loop.entries), 0, id)
      BY <2>5 DEF UpsertEntry
    <3>2. StoreTypeOK /\ Head(loop.entries) \in Urls
      BY <2>5, EntriesType DEF UpsertEntry, IInv, TypeOK
    <3>3. DOMAIN feeds' = DOMAIN feeds \cup {id}
      BY <3>1, <3>2, UpsertFeedOK
    <3> QED BY <3>3
  <2>6. ASSUME NEW g \in FeedIds, SwitchFeed(g) PROVE FALSE
    BY <2>6, SwitchOK DEF SwitchFeed, IInv, TypeOK
  <2>7. ASSUME \/ FrameDone \/ UnsubscribeDone \/ \E full \in SUBSET subs : Publish(full)
               \/ \E g \in FeedIds : AddFeed(g) \/ RemoveFeed(g)
        PROVE FALSE
    BY <2>7 DEF FrameDone, UnsubscribeDone, Publish, AddFeed, RemoveFeed, storeVars
  <2>8. CASE StoreRaises
    <3>1. TypeOK
      BY DEF IInv
    <3>2. DOMAIN feeds \subseteq DOMAIN feeds'
      BY <2>8, <3>1, StoreRaisesRows
    <3> QED BY <3>2
  <2> QED BY <2>2, <2>3, <2>4, <2>5, <2>6, <2>7, <2>8 DEF Next, LoopStep
<1> QED BY <1>1, Invariance, PTL DEF Spec, SweepSparesCounted
==============================================================================
