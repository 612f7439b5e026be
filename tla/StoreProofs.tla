----------------------------- MODULE StoreProofs -----------------------------
(* Every writing method of the Store keeps the tables well formed. *)
EXTENDS Store, TLAPS

\* An empty database is well formed.
LEMMA EmptyStoreOK == EmptyStore => StoreTypeOK
  BY DEF EmptyStore, StoreTypeOK

\* upsert_feed keeps the tables well formed, changes no row that was there, and
\* returns the id of the row of `url`; if the row is new it is enabled.
LEMMA UpsertFeedOK ==
  ASSUME StoreTypeOK,
         NEW url \in Urls, NEW now \in Nat, NEW id,
         upsert_feed(url, now, id)
  PROVE  /\ StoreTypeOK'
         /\ DOMAIN feeds' = DOMAIN feeds \cup {id}
         /\ \A f \in DOMAIN feeds : feeds'[f] = feeds[f]
         /\ id \notin DOMAIN feeds => feeds'[id].enabled = TRUE
         /\ id \in FeedIds
         /\ feeds'[id].url = url
         /\ id \in DOMAIN feeds <=> FeedByUrl(url) # {}
<1>1. CASE id \in FeedByUrl(url) /\ UNCHANGED feeds
  <2>1. id \in DOMAIN feeds
    BY <1>1 DEF FeedByUrl
  <2>2. UNCHANGED feed_state
    BY <2>1 DEF upsert_feed, StoreTypeOK
  <2>3. UNCHANGED articles
    BY DEF upsert_feed
  <2>4. StoreTypeOK'
    BY <1>1, <2>2, <2>3 DEF StoreTypeOK
  <2>5. id \in FeedIds
    BY <2>1 DEF StoreTypeOK
  <2> QED BY <1>1, <2>1, <2>4, <2>5 DEF FeedByUrl
<1>2. CASE /\ FeedByUrl(url) = {}
           /\ IsNextRowId(id)
           /\ feeds' = [f \in DOMAIN feeds \cup {id} |->
                           IF f = id THEN [url |-> url, enabled |-> TRUE] ELSE feeds[f]]
  <2>1. id \in FeedIds /\ id \notin DOMAIN feeds
    BY <1>2 DEF IsNextRowId, StoreTypeOK, FeedIds
  <2>2. /\ DOMAIN feeds' = DOMAIN feeds \cup {id}
        /\ \A f \in DOMAIN feeds : feeds'[f] = feeds[f]
        /\ feeds'[id] = [url |-> url, enabled |-> TRUE]
    BY <1>2, <2>1
  <2>3. /\ feeds' \in [DOMAIN feeds' -> FeedRow]
        /\ DOMAIN feeds' \subseteq FeedIds
    BY <1>2, <2>1, <2>2 DEF StoreTypeOK, FeedRow
  <2>4. \A f, g \in DOMAIN feeds' : feeds'[f].url = feeds'[g].url => f = g
    BY <1>2, <2>2 DEF StoreTypeOK, FeedByUrl
  <2>5. feed_state' \in [DOMAIN feeds' -> StateRow] /\ DOMAIN feed_state' = DOMAIN feeds'
    BY <2>2 DEF upsert_feed, StoreTypeOK, StateRow
  <2>6. /\ DOMAIN articles' \subseteq (DOMAIN feeds') \X Guids
        /\ articles' \in [DOMAIN articles' -> ArticleRow]
    BY <2>2 DEF upsert_feed, StoreTypeOK
  <2>7. StoreTypeOK'
    BY <2>3, <2>4, <2>5, <2>6 DEF StoreTypeOK
  <2>8. feeds'[id].enabled = TRUE /\ feeds'[id].url = url
    BY <2>2
  <2> QED BY <1>2, <2>1, <2>2, <2>7, <2>8
<1> QED BY <1>1, <1>2 DEF upsert_feed

\* set_enabled keeps the tables well formed and touches one flag at most.
LEMMA SetEnabledOK ==
  ASSUME StoreTypeOK, NEW id, NEW enabled \in BOOLEAN, set_enabled(id, enabled)
  PROVE  /\ StoreTypeOK'
         /\ DOMAIN feeds' = DOMAIN feeds
         /\ \A f \in DOMAIN feeds : f # id => feeds'[f] = feeds[f]
         /\ id \in DOMAIN feeds => feeds'[id].enabled = enabled
         /\ \A f \in DOMAIN feeds : feeds'[f].url = feeds[f].url
<1>1. /\ DOMAIN feeds' = DOMAIN feeds
      /\ feeds' \in [DOMAIN feeds -> FeedRow]
      /\ \A f \in DOMAIN feeds : f # id => feeds'[f] = feeds[f]
      /\ \A f \in DOMAIN feeds : feeds'[f].url = feeds[f].url
      /\ id \in DOMAIN feeds => feeds'[id].enabled = enabled
  BY DEF set_enabled, StoreTypeOK, FeedRow
<1>2. UNCHANGED <<feed_state, articles>>
  BY DEF set_enabled
<1> QED BY <1>1, <1>2 DEF StoreTypeOK

\* disable_all_feeds keeps the tables well formed and leaves no feed enabled.
LEMMA DisableAllFeedsOK ==
  ASSUME StoreTypeOK, disable_all_feeds
  PROVE  /\ StoreTypeOK'
         /\ DOMAIN feeds' = DOMAIN feeds
         /\ \A f \in DOMAIN feeds : feeds'[f].enabled = FALSE
         /\ \A f \in DOMAIN feeds : feeds'[f].url = feeds[f].url
<1>1. /\ DOMAIN feeds' = DOMAIN feeds
      /\ feeds' \in [DOMAIN feeds -> FeedRow]
      /\ \A f \in DOMAIN feeds : feeds'[f].url = feeds[f].url
      /\ \A f \in DOMAIN feeds : feeds'[f].enabled = FALSE
  BY DEF disable_all_feeds, StoreTypeOK, FeedRow
<1>2. UNCHANGED <<feed_state, articles>>
  BY DEF disable_all_feeds
<1> QED BY <1>1, <1>2 DEF StoreTypeOK

\* drop_disabled_feeds keeps the tables well formed: exactly the enabled feeds
\* stay, unchanged, and no article or polling state is left without its feed.
LEMMA DropDisabledFeedsOK ==
  ASSUME StoreTypeOK, drop_disabled_feeds
  PROVE  /\ StoreTypeOK'
         /\ DOMAIN feeds' = EnabledFeeds
         /\ \A f \in EnabledFeeds : feeds'[f] = feeds[f]
<1> DEFINE kept == EnabledFeeds
<1>1. kept \subseteq DOMAIN feeds
  BY DEF EnabledFeeds
<1>2. /\ DOMAIN feeds' = kept
      /\ \A f \in kept : feeds'[f] = feeds[f]
      /\ feeds' \in [kept -> FeedRow]
  BY <1>1 DEF drop_disabled_feeds, StoreTypeOK
<1>3. DOMAIN feed_state' = kept /\ feed_state' \in [kept -> StateRow]
  BY <1>1 DEF drop_disabled_feeds, StoreTypeOK
<1>4. DOMAIN articles' \subseteq kept \X Guids
  BY <1>1 DEF drop_disabled_feeds, StoreTypeOK
<1>5. articles' \in [DOMAIN articles' -> ArticleRow]
  BY DEF drop_disabled_feeds, StoreTypeOK
<1> HIDE DEF kept
<1>6. StoreTypeOK'
  BY <1>1, <1>2, <1>3, <1>4, <1>5 DEF StoreTypeOK
<1> QED BY <1>2, <1>6 DEF kept

\* What insert_articles does: it adds or refreshes the rows of the batch, and touches
\* nothing else.
ArticlesInserted(f, entries, now) ==
    /\ StoreTypeOK'
    /\ f \in DOMAIN feeds /\ UNCHANGED <<feeds, feed_state>>
    /\ DOMAIN articles' = DOMAIN articles \cup ({f} \X DOMAIN entries)
    /\ \A g \in DOMAIN entries : articles'[<<f, g>>].last_seen_at = now
    /\ \A k \in DOMAIN articles : k \notin {f} \X DOMAIN entries => articles'[k] = articles[k]

\* insert_articles does so, for every batch of guids.
LEMMA InsertArticlesOK ==
  ASSUME StoreTypeOK, NEW f, NEW entries, DOMAIN entries \subseteq Guids,
         entries \in [DOMAIN entries -> Nat \cup {None}], NEW now \in Nat,
         insert_articles(f, entries, now)
  PROVE  ArticlesInserted(f, entries, now)
<1> DEFINE batch == {f} \X DOMAIN entries
           row(k) == IF k \notin DOMAIN articles
                     THEN [published_at |-> entries[k[2]],
                           sort_at |-> SortAt(entries[k[2]], now), last_seen_at |-> now]
                     ELSE IF k[1] = f /\ k[2] \in DOMAIN entries
                          THEN [articles[k] EXCEPT !.last_seen_at = now]
                          ELSE articles[k]
<1>1. /\ f \in DOMAIN feeds /\ UNCHANGED <<feeds, feed_state>>
      /\ articles' = [k \in DOMAIN articles \cup batch |-> row(k)]
  BY DEF insert_articles
<1>2. /\ DOMAIN articles' = DOMAIN articles \cup batch
      /\ \A k \in DOMAIN articles \cup batch : articles'[k] = row(k)
  BY <1>1
<1>3. DOMAIN articles \subseteq (DOMAIN feeds) \X Guids /\ articles \in [DOMAIN articles -> ArticleRow]
  BY DEF StoreTypeOK
<1>4. ASSUME NEW k \in DOMAIN articles, k \notin batch
      PROVE  articles'[k] = articles[k]
  <2>1. ~(k[1] = f /\ k[2] \in DOMAIN entries)
    BY <1>3, <1>4
  <2> QED BY <1>2, <2>1
<1>5. ASSUME NEW g \in DOMAIN entries
      PROVE  articles'[<<f, g>>] \in ArticleRow /\ articles'[<<f, g>>].last_seen_at = now
  <2>1. <<f, g>> \in batch
    OBVIOUS
  <2>2. CASE <<f, g>> \notin DOMAIN articles
    <3>1. articles'[<<f, g>>] = [published_at |-> entries[g],
                                 sort_at |-> SortAt(entries[g], now), last_seen_at |-> now]
      BY <1>2, <2>1, <2>2
    <3>2. entries[g] \in Nat \cup {None}
      OBVIOUS
    <3>3. SortAt(entries[g], now) \in Nat
      BY <3>2 DEF SortAt
    <3> QED BY <3>1, <3>2, <3>3 DEF ArticleRow
  <2>3. CASE <<f, g>> \in DOMAIN articles
    <3>1. articles'[<<f, g>>] = [articles[<<f, g>>] EXCEPT !.last_seen_at = now]
      BY <1>2, <2>1, <2>3
    <3>2. articles[<<f, g>>] \in ArticleRow
      BY <1>3, <2>3
    <3> QED BY <3>1, <3>2 DEF ArticleRow
  <2> QED BY <2>2, <2>3
<1> HIDE DEF row
<1>6. \A k \in DOMAIN articles' : articles'[k] \in ArticleRow
  <2> SUFFICES ASSUME NEW k \in DOMAIN articles' PROVE articles'[k] \in ArticleRow
    OBVIOUS
  <2>1. CASE k \in batch
    <3>1. PICK g \in DOMAIN entries : k = <<f, g>>
      BY <2>1
    <3> QED BY <1>5, <3>1
  <2>2. CASE k \notin batch
    BY <1>2, <1>3, <1>4, <2>2
  <2> QED BY <2>1, <2>2
<1>7. articles' \in [DOMAIN articles' -> ArticleRow]
  BY <1>1, <1>2, <1>6
<1>8. DOMAIN articles' \subseteq (DOMAIN feeds') \X Guids
  BY <1>1, <1>2, <1>3
<1>9. StoreTypeOK'
  BY <1>1, <1>7, <1>8 DEF StoreTypeOK
<1> QED BY <1>1, <1>2, <1>4, <1>5, <1>9 DEF ArticlesInserted

\* sweep deletes the rows not seen for the retention, and touches nothing else.
LEMMA SweepOK ==
  ASSUME StoreTypeOK, NEW now, NEW retention, sweep(now, retention)
  PROVE  /\ StoreTypeOK'
         /\ UNCHANGED <<feeds, feed_state>>
         /\ DOMAIN articles' =
               {k \in DOMAIN articles : ~(articles[k].last_seen_at + retention < now)}
         /\ \A k \in DOMAIN articles' : articles'[k] = articles[k]
<1> DEFINE kept == {k \in DOMAIN articles : ~(articles[k].last_seen_at + retention < now)}
<1>1. articles' = [k \in kept |-> articles[k]] /\ UNCHANGED <<feeds, feed_state>>
  BY DEF sweep
<1>2. kept \subseteq DOMAIN articles
  OBVIOUS
<1> HIDE DEF kept
<1>3. DOMAIN articles' = kept /\ \A k \in kept : articles'[k] = articles[k]
  BY <1>1
<1>4. DOMAIN articles \subseteq (DOMAIN feeds) \X Guids /\ articles \in [DOMAIN articles -> ArticleRow]
  BY DEF StoreTypeOK
<1>5. articles' \in [DOMAIN articles' -> ArticleRow]
  BY <1>1, <1>2, <1>3, <1>4
<1>6. StoreTypeOK'
  BY <1>1, <1>2, <1>3, <1>4, <1>5 DEF StoreTypeOK
<1> QED BY <1>1, <1>3, <1>6 DEF kept

\* record_success writes the row of its feed, if there is one, and touches nothing else.
LEMMA RecordSuccessOK ==
  ASSUME StoreTypeOK, NEW f, NEW validator \in Validators \cup {None}, NEW now \in Nat,
         NEW next_poll_at \in Nat, record_success(f, validator, now, next_poll_at)
  PROVE  /\ StoreTypeOK'
         /\ UNCHANGED <<feeds, articles>> /\ DOMAIN feed_state' = DOMAIN feed_state
         /\ \A g \in DOMAIN feed_state : g # f => feed_state'[g] = feed_state[g]
         /\ f \in DOMAIN feed_state =>
               /\ feed_state'[f].last_success_at = now
               /\ feed_state'[f].next_poll_at = next_poll_at
<1>1. /\ DOMAIN feed_state' = DOMAIN feed_state /\ UNCHANGED <<feeds, articles>>
      /\ \A g \in DOMAIN feed_state : g # f => feed_state'[g] = feed_state[g]
      /\ f \in DOMAIN feed_state =>
            feed_state'[f] = [validator |-> validator, last_success_at |-> now,
                              consecutive_failures |-> 0, next_poll_at |-> next_poll_at]
  BY DEF record_success
<1>2. feed_state \in [DOMAIN feed_state -> StateRow] /\ DOMAIN feed_state = DOMAIN feeds
  BY DEF StoreTypeOK
<1>3. \A g \in DOMAIN feed_state : feed_state'[g] \in StateRow
  BY <1>1, <1>2 DEF StateRow
<1>4. feed_state' \in [DOMAIN feed_state -> StateRow]
  BY <1>3 DEF record_success
<1> QED BY <1>1, <1>2, <1>4 DEF StoreTypeOK

\* record_failure moves the next poll of its feed, if there is one, and touches nothing
\* else.
LEMMA RecordFailureOK ==
  ASSUME StoreTypeOK, NEW f, NEW next_poll_at \in Nat, record_failure(f, next_poll_at)
  PROVE  /\ StoreTypeOK'
         /\ UNCHANGED <<feeds, articles>> /\ DOMAIN feed_state' = DOMAIN feed_state
         /\ \A g \in DOMAIN feed_state : g # f => feed_state'[g] = feed_state[g]
         /\ f \in DOMAIN feed_state =>
               /\ feed_state'[f].last_success_at = feed_state[f].last_success_at
               /\ feed_state'[f].next_poll_at = next_poll_at
<1>1. /\ DOMAIN feed_state' = DOMAIN feed_state /\ UNCHANGED <<feeds, articles>>
      /\ \A g \in DOMAIN feed_state : g # f => feed_state'[g] = feed_state[g]
      /\ f \in DOMAIN feed_state =>
            feed_state'[f] = [feed_state[f] EXCEPT
                                !.consecutive_failures = feed_state[f].consecutive_failures + 1,
                                !.next_poll_at = next_poll_at]
  BY DEF record_failure
<1>2. feed_state \in [DOMAIN feed_state -> StateRow] /\ DOMAIN feed_state = DOMAIN feeds
  BY DEF StoreTypeOK
<1>3. ASSUME NEW g \in DOMAIN feed_state PROVE feed_state'[g] \in StateRow
  <2>1. feed_state[g] \in StateRow /\ feed_state[g].consecutive_failures + 1 \in Nat
    BY <1>2 DEF StateRow
  <2>2. CASE g # f
    BY <1>1, <2>1, <2>2
  <2>3. CASE g = f
    BY <1>1, <2>1, <2>3 DEF StateRow
  <2> QED BY <2>2, <2>3
<1>4. feed_state' \in [DOMAIN feed_state -> StateRow]
  BY <1>3 DEF record_failure
<1>5. f \in DOMAIN feed_state =>
         /\ feed_state'[f].last_success_at = feed_state[f].last_success_at
         /\ feed_state'[f].next_poll_at = next_poll_at
  BY <1>1, <1>2 DEF StateRow
<1> QED BY <1>1, <1>2, <1>4, <1>5 DEF StoreTypeOK

\* What upsert_feed does to the polling states: none changes, and a new one is due.
LEMMA UpsertStateOK ==
  ASSUME NEW url, NEW now, NEW id, upsert_feed(url, now, id)
  PROVE  /\ DOMAIN feed_state' = DOMAIN feed_state \cup {id}
         /\ \A f \in DOMAIN feed_state : feed_state'[f] = feed_state[f]
         /\ id \notin DOMAIN feed_state => feed_state'[id].next_poll_at = now
         /\ UNCHANGED articles
  BY DEF upsert_feed

\* What drop_disabled_feeds leaves of the polling states and the articles.
LEMMA DropStateOK ==
  ASSUME StoreTypeOK, drop_disabled_feeds
  PROVE  /\ DOMAIN feed_state' = EnabledFeeds
         /\ \A f \in EnabledFeeds : feed_state'[f] = feed_state[f]
         /\ DOMAIN articles' = {k \in DOMAIN articles : k[1] \in EnabledFeeds}
         /\ \A k \in DOMAIN articles' : articles'[k] = articles[k]
<1> DEFINE gone == DOMAIN feeds \ EnabledFeeds
<1>1. /\ feed_state' = [f \in DOMAIN feed_state \ gone |-> feed_state[f]]
      /\ articles' = [k \in {k \in DOMAIN articles : k[1] \notin gone} |-> articles[k]]
  BY DEF drop_disabled_feeds
<1>2. DOMAIN feed_state \ gone = EnabledFeeds
  BY DEF EnabledFeeds, StoreTypeOK
<1>3. \A k \in DOMAIN articles : k[1] \in DOMAIN feeds
  BY DEF StoreTypeOK
<1>4. {k \in DOMAIN articles : k[1] \notin gone} = {k \in DOMAIN articles : k[1] \in EnabledFeeds}
  BY <1>3 DEF EnabledFeeds
<1> QED BY <1>1, <1>2, <1>4
=============================================================================
