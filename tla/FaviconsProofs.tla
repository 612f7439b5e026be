---------------------------- MODULE FaviconsProofs ----------------------------
(***************************************************************************)
(* The icons of the feeds, for any feeds, frames, hosts and slots: whose   *)
(* icon a row may show, and which rows are asked for theirs.               *)
(***************************************************************************)
EXTENDS Favicons, StoreProofs, FiniteSetTheorems

TaskState == [feed : FeedIds, url : Urls, stage : Stages]

FrameState == [at : {"none", "look", "upsert", "get", "name"}, entries : Seq(Urls),
               ids : SUBSET FeedIds, found : BOOLEAN, id : FeedIds \cup {0},
               swept : BOOLEAN]

\* The tasks of the startup pass that are past the semaphore.
Running == {k \in DOMAIN tasks : Startup(k) /\ tasks[k].stage # "queued"}

\* The variables' ranges.
Ranges ==
    /\ StoreTypeOK
    /\ favicon \in [DOMAIN feeds -> Urls \cup {None}]
    /\ DOMAIN tasks \subseteq TaskKeys
    /\ tasks \in [DOMAIN tasks -> TaskState]
    /\ frame \in FrameState
    /\ missed \subseteq DOMAIN feeds
    /\ owners \in [FeedIds -> SUBSET Urls]

\* A slot of the semaphore is free or held by a task of the pass that runs; the tasks
\* of frames never queue for one.
SlotsCounted ==
    /\ slots \in 0 .. Concurrency
    /\ Cardinality(Running) = Concurrency - slots
    /\ \A k \in DOMAIN tasks : tasks[k].stage = "queued" => Startup(k)

\* What a rowid carries, in its row, in its icon and in the tasks that will write by
\* it, is a URL that had this rowid.
Owned ==
    /\ \A f \in DOMAIN feeds : feeds[f].url \in owners[f]
    /\ \A k \in DOMAIN tasks : tasks[k].url \in owners[tasks[k].feed]
    /\ IconOfAnOwner

\* The frame knows the rows it has still to report: without a sweep in its middle the
\* one it is about to ask for, if it is new; with one, rows among those it names.
FrameReports ==
    /\ frame.at = "none" => frame = NoFrame
    /\ frame.at \in {"look", "upsert", "get"} => frame.entries # <<>>
    /\ missed \subseteq frame.ids
    /\ ~frame.swept =>
          /\ frame.ids \subseteq DOMAIN feeds
          /\ missed # {} => frame.at = "get" /\ ~frame.found /\ missed = {frame.id}
          /\ frame.at = "upsert" => (frame.found <=> FeedByUrl(Head(frame.entries)) # {})

FaviconsInv == Ranges /\ SlotsCounted /\ Owned /\ FrameReports

----------------------------------------------------------------------------
\* The semaphore

\* The tasks that run are finitely many, so what starts or ends one counts.
LEMMA RunningIsFinite ==
  ASSUME Ranges
  PROVE  IsFiniteSet(Running) /\ Cardinality(Running) \in Nat
<1>1. Running \subseteq 1 .. MaxFeedId
  BY MaxFeedIdAssumption, MaxAddedAssumption DEF Ranges, Running, TaskKeys, Startup
<1>2. IsFiniteSet(1 .. MaxFeedId)
  BY MaxFeedIdAssumption, FS_Interval
<1> QED BY <1>1, <1>2, FS_Subset, FS_CardinalityType

\* A step that changes neither tasks nor slots.
LEMMA SlotsSame ==
  ASSUME SlotsCounted, UNCHANGED <<tasks, slots>>
  PROVE  SlotsCounted'
BY DEF SlotsCounted, Running

\* A task that ends gives back exactly the slot it held.
LEMMA EndsKeeps ==
  ASSUME FaviconsInv, NEW k \in DOMAIN tasks, k \notin Queued, Ends(k)
  PROVE  /\ SlotsCounted'
         /\ DOMAIN tasks' \subseteq TaskKeys
         /\ tasks' \in [DOMAIN tasks' -> TaskState]
         /\ DOMAIN tasks' \subseteq DOMAIN tasks
         /\ \A j \in DOMAIN tasks' : tasks'[j] = tasks[j]
<1>1. /\ DOMAIN tasks' = DOMAIN tasks \ {k}
      /\ \A j \in DOMAIN tasks' : tasks'[j] = tasks[j]
      /\ tasks' = [j \in DOMAIN tasks' |-> tasks[j]]
  BY DEF Ends
<1>2. tasks' \in [DOMAIN tasks' -> TaskState] /\ DOMAIN tasks' \subseteq TaskKeys
  BY <1>1 DEF FaviconsInv, Ranges
<1>3. Running' = Running \ {k}
  BY <1>1 DEF Running, Startup
<1>4. IsFiniteSet(Running) /\ Cardinality(Running) \in Nat
  BY RunningIsFinite DEF FaviconsInv
<1>5. /\ slots \in 0 .. Concurrency /\ Cardinality(Running) = Concurrency - slots
      /\ Concurrency \in Nat
      /\ \A j \in DOMAIN tasks : tasks[j].stage = "queued" => Startup(j)
  BY ConcurrencyAssumption DEF FaviconsInv, SlotsCounted
<1>6. CASE Startup(k)
  <2>1. k \in Running
    BY <1>6 DEF Running, Queued
  <2>2. Cardinality(Running') = Cardinality(Running) - 1
    BY <1>3, <1>4, <2>1, FS_RemoveElement
  <2>3. slots' = slots + 1
    BY <1>6 DEF Ends
  <2>4. Cardinality(Running) # 0
    BY <1>4, <2>1, FS_EmptySet
  <2>5. slots' \in 0 .. Concurrency /\ Cardinality(Running') = Concurrency - slots'
    BY <1>4, <1>5, <2>2, <2>3, <2>4
  <2>6. SlotsCounted'
    BY <1>1, <1>5, <2>5 DEF SlotsCounted
  <2> QED BY <1>1, <1>2, <2>6
<1>7. CASE ~Startup(k)
  <2>1. Running' = Running /\ slots' = slots
    BY <1>3, <1>7 DEF Running, Ends
  <2>2. SlotsCounted'
    BY <1>1, <1>5, <2>1 DEF SlotsCounted
  <2> QED BY <1>1, <1>2, <2>2
<1> QED BY <1>6, <1>7

\* A task that goes on to the next place keeps its slot, its feed and its URL.
LEMMA GoesKeeps ==
  ASSUME FaviconsInv, NEW k \in DOMAIN tasks, k \notin Queued,
         NEW stage \in Stages \ {"queued"}, Goes(k, stage)
  PROVE  /\ SlotsCounted'
         /\ DOMAIN tasks' = DOMAIN tasks
         /\ tasks' \in [DOMAIN tasks' -> TaskState]
         /\ \A j \in DOMAIN tasks : tasks'[j].url = tasks[j].url /\ tasks'[j].feed = tasks[j].feed
<1>1. tasks \in [DOMAIN tasks -> TaskState]
  BY DEF FaviconsInv, Ranges
<1>2. tasks' = [tasks EXCEPT ![k].stage = stage] /\ slots' = slots
  BY DEF Goes
<1>3. /\ DOMAIN tasks' = DOMAIN tasks
      /\ tasks'[k] = [tasks[k] EXCEPT !.stage = stage]
      /\ \A j \in DOMAIN tasks \ {k} : tasks'[j] = tasks[j]
      /\ tasks' \in [DOMAIN tasks' -> TaskState]
  BY <1>1, <1>2 DEF TaskState
<1>4. tasks'[k].stage = stage /\ tasks'[k].url = tasks[k].url /\ tasks'[k].feed = tasks[k].feed
  BY <1>1, <1>3 DEF TaskState
<1>5. Running' = Running
  BY <1>3, <1>4 DEF Running, Queued, Startup
<1>6. \A j \in DOMAIN tasks' : tasks'[j].stage = "queued" => Startup(j)
  BY <1>3, <1>4 DEF FaviconsInv, SlotsCounted
<1>7. SlotsCounted'
  BY <1>2, <1>5, <1>6 DEF FaviconsInv, SlotsCounted
<1> QED BY <1>3, <1>4, <1>7

\* A task of the pass takes a free slot.
LEMMA BeginKeeps ==
  ASSUME FaviconsInv, NEW k \in DOMAIN tasks, Begin(k)
  PROVE  FaviconsInv'
<1> DEFINE stage == FirstStage(tasks[k].url)
<1>1. /\ tasks \in [DOMAIN tasks -> TaskState] /\ stage \in Stages \ {"queued"}
      /\ k \in Queued /\ Startup(k)
  BY DEF FaviconsInv, Ranges, FirstStage, Stages, Begin, SlotsCounted, Queued
<1>2. /\ tasks' = [tasks EXCEPT ![k].stage = stage] /\ slots > 0 /\ slots' = slots - 1
      /\ UNCHANGED <<storeVars, favicon, frame, historyVars>>
  BY DEF Begin
<1> HIDE DEF stage
<1>3. /\ DOMAIN tasks' = DOMAIN tasks
      /\ tasks'[k] = [tasks[k] EXCEPT !.stage = stage]
      /\ \A j \in DOMAIN tasks \ {k} : tasks'[j] = tasks[j]
      /\ tasks' \in [DOMAIN tasks' -> TaskState]
  BY <1>1, <1>2 DEF TaskState
<1>4. tasks'[k].stage = stage /\ tasks'[k].url = tasks[k].url /\ tasks'[k].feed = tasks[k].feed
  BY <1>1, <1>3 DEF TaskState
<1>5. Running' = Running \cup {k} /\ k \notin Running
  BY <1>1, <1>3, <1>4 DEF Running, Queued, Startup
<1>6. SlotsCounted'
  <2>1. IsFiniteSet(Running) /\ Cardinality(Running) \in Nat
    BY RunningIsFinite DEF FaviconsInv
  <2>2. Cardinality(Running') = Cardinality(Running) + 1
    BY <1>5, <2>1, FS_AddElement
  <2>3. slots \in 0 .. Concurrency /\ Cardinality(Running) = Concurrency - slots
        /\ Concurrency \in Nat
    BY ConcurrencyAssumption DEF FaviconsInv, SlotsCounted
  <2>4. slots' \in 0 .. Concurrency /\ Cardinality(Running') = Concurrency - slots'
    BY <1>2, <2>1, <2>2, <2>3
  <2>5. \A j \in DOMAIN tasks' : tasks'[j].stage = "queued" => Startup(j)
    BY <1>1, <1>3 DEF FaviconsInv, SlotsCounted
  <2> QED BY <2>4, <2>5 DEF SlotsCounted
<1>7. Ranges'
  BY <1>2, <1>3 DEF FaviconsInv, Ranges, storeVars, historyVars, StoreTypeOK
<1>8. Owned'
  BY <1>2, <1>3, <1>4 DEF FaviconsInv, Owned, IconOfAnOwner, storeVars, historyVars
<1>9. FrameReports'
  BY <1>2 DEF FaviconsInv, FrameReports, storeVars, historyVars, FeedByUrl
<1> QED BY <1>6, <1>7, <1>8, <1>9 DEF FaviconsInv

----------------------------------------------------------------------------
\* The tasks

\* A task that ends, stores or not.
LEMMA ResolvedKeeps ==
  ASSUME FaviconsInv, NEW k \in DOMAIN tasks, Resolved(k)
  PROVE  FaviconsInv' /\ \A f \in DOMAIN feeds : favicon[f] # None => favicon'[f] # None
<1> DEFINE f == tasks[k].feed
           url == tasks[k].url
<1>1. /\ tasks[k].stage \in {"known", "ico", "link"}
      /\ favicon' = [g \in DOMAIN feeds |-> IF g = f THEN url ELSE favicon[g]]
      /\ Ends(k) /\ UNCHANGED <<storeVars, frame, historyVars>>
  BY DEF Resolved, set_feed_favicon
<1>2. f \in FeedIds /\ url \in Urls /\ url \in owners[f] /\ None \notin Urls
  BY NoneAssumption DEF FaviconsInv, Ranges, TaskState, Owned
<1>3. /\ SlotsCounted'
      /\ DOMAIN tasks' \subseteq TaskKeys
      /\ tasks' \in [DOMAIN tasks' -> TaskState]
      /\ DOMAIN tasks' \subseteq DOMAIN tasks
      /\ \A j \in DOMAIN tasks' : tasks'[j] = tasks[j]
  BY <1>1, EndsKeeps DEF Queued
<1> HIDE DEF f, url
<1>4. Ranges'
  <2>1. StoreTypeOK'
    BY <1>1 DEF FaviconsInv, Ranges, storeVars, StoreTypeOK
  <2>2. favicon' \in [DOMAIN feeds -> Urls \cup {None}]
    BY <1>1, <1>2 DEF FaviconsInv, Ranges
  <2> QED BY <1>1, <1>3, <2>1, <2>2 DEF FaviconsInv, Ranges, storeVars, historyVars
<1>5. Owned'
  <2>1. \A g \in DOMAIN feeds : favicon'[g] # None => favicon'[g] \in owners[g]
    BY <1>1, <1>2 DEF FaviconsInv, Owned, IconOfAnOwner
  <2> QED BY <1>1, <1>3, <2>1 DEF FaviconsInv, Owned, IconOfAnOwner, storeVars, historyVars
<1>6. FrameReports'
  BY <1>1 DEF FaviconsInv, FrameReports, storeVars, historyVars, FeedByUrl
<1>7. \A g \in DOMAIN feeds : favicon[g] # None => favicon'[g] # None
  BY <1>1, <1>2
<1> QED BY <1>3, <1>4, <1>5, <1>6, <1>7 DEF FaviconsInv

\* A task that changes no table.
LEMMA TaskAlone ==
  ASSUME FaviconsInv, SlotsCounted',
         DOMAIN tasks' \subseteq DOMAIN tasks,
         tasks' \in [DOMAIN tasks' -> TaskState],
         \A j \in DOMAIN tasks' : tasks'[j].url = tasks[j].url /\ tasks'[j].feed = tasks[j].feed,
         UNCHANGED <<storeVars, favicon, frame, historyVars>>
  PROVE  FaviconsInv'
<1>1. Ranges'
  BY DEF FaviconsInv, Ranges, storeVars, historyVars, StoreTypeOK
<1>2. Owned'
  BY DEF FaviconsInv, Owned, IconOfAnOwner, storeVars, historyVars
<1>3. FrameReports'
  BY DEF FaviconsInv, FrameReports, storeVars, historyVars, FeedByUrl
<1> QED BY <1>1, <1>2, <1>3 DEF FaviconsInv

LEMMA FailsKeeps ==
  ASSUME FaviconsInv, NEW k \in DOMAIN tasks, Fails(k)
  PROVE  FaviconsInv'
BY EndsKeeps, TaskAlone DEF Fails

LEMMA NotAnIconKeeps ==
  ASSUME FaviconsInv, NEW k \in DOMAIN tasks, NotAnIcon(k)
  PROVE  FaviconsInv'
<1>1. k \notin Queued /\ UNCHANGED <<storeVars, favicon, frame, historyVars>>
  BY DEF NotAnIcon, Queued
<1>2. CASE Ends(k)
  BY <1>1, <1>2, EndsKeeps, TaskAlone
<1>3. ASSUME NEW stage \in Stages \ {"queued"}, Goes(k, stage)
      PROVE  FaviconsInv'
  BY <1>1, <1>3, GoesKeeps, TaskAlone
<1> QED BY <1>2, <1>3 DEF NotAnIcon, Stages

----------------------------------------------------------------------------
\* The frames

\* A step of a frame that leaves tables and tasks alone.
LEMMA FrameAlone ==
  ASSUME FaviconsInv, frame' \in FrameState, FrameReports', missed' \subseteq missed,
         UNCHANGED <<storeVars, favicon, tasks, slots, restarts, owners>>
  PROVE  FaviconsInv'
<1>1. Ranges'
  BY DEF FaviconsInv, Ranges, storeVars, StoreTypeOK
<1>2. Owned'
  BY DEF FaviconsInv, Owned, IconOfAnOwner, storeVars
<1>3. SlotsCounted'
  BY SlotsSame DEF FaviconsInv
<1> QED BY <1>1, <1>2, <1>3 DEF FaviconsInv

LEMMA ReceiveFrameKeeps ==
  ASSUME FaviconsInv, NEW entries \in Frames, ReceiveFrame(entries)
  PROVE  FaviconsInv'
<1>1. /\ frame = NoFrame /\ missed = {} /\ entries # <<>> /\ entries \in Seq(Urls)
      /\ frame' = [NoFrame EXCEPT !.at = "look", !.entries = entries]
      /\ UNCHANGED <<storeVars, favicon, tasks, slots, historyVars>>
  BY FramesAssumption DEF ReceiveFrame, LoopIdle, FaviconsInv, FrameReports, NoFrame
<1>2. frame' \in FrameState
  BY <1>1 DEF NoFrame, FrameState
<1>3. FrameReports'
  BY <1>1 DEF NoFrame, FrameReports, historyVars
<1> QED BY <1>1, <1>2, <1>3, FrameAlone DEF historyVars

LEMMA LookKeeps ==
  ASSUME FaviconsInv, Look
  PROVE  FaviconsInv'
<1>1. /\ frame.at = "look" /\ frame \in FrameState
      /\ frame' = [frame EXCEPT !.at = "upsert",
                                !.found = FeedByUrl(Head(frame.entries)) # {}]
      /\ UNCHANGED <<storeVars, favicon, tasks, slots, historyVars>>
  BY DEF Look, FaviconsInv, Ranges
<1>2. /\ frame' \in FrameState /\ frame'.at = "upsert" /\ frame'.ids = frame.ids
      /\ frame'.entries = frame.entries /\ frame'.swept = frame.swept
      /\ frame'.found = (FeedByUrl(Head(frame.entries)) # {})
  BY <1>1 DEF FrameState
<1>3. UNCHANGED <<feeds, missed>>
  BY <1>1 DEF storeVars, historyVars
<1>4. \A url : FeedByUrl(url)' = FeedByUrl(url)
  BY <1>3 DEF FeedByUrl
<1>5. FrameReports'
  BY <1>1, <1>2, <1>3, <1>4 DEF FaviconsInv, FrameReports, FeedByUrl
<1> QED BY <1>1, <1>2, <1>5, FrameAlone DEF historyVars

LEMMA FrameRaisesKeeps ==
  ASSUME FaviconsInv, FrameRaises
  PROVE  FaviconsInv'
<1>1. /\ frame' = NoFrame /\ missed' = missed \ frame.ids
      /\ UNCHANGED <<storeVars, favicon, tasks, slots, restarts, owners>>
  BY DEF FrameRaises
<1>2. missed' = {}
  BY <1>1 DEF FaviconsInv, FrameReports
<1>3. NoFrame \in FrameState
  <2>1. <<>> \in Seq(Urls)
    OBVIOUS
  <2> QED BY <2>1 DEF NoFrame, FrameState
<1>4. FrameReports'
  BY <1>1, <1>2 DEF FrameReports, NoFrame
<1> QED BY <1>1, <1>2, <1>3, <1>4, FrameAlone

\* The next entry of a frame, if there is one.
LEMMA NextEntryOK ==
  ASSUME NEW fr \in FrameState, fr.entries # <<>>
  PROVE  /\ NextEntry(fr) \in FrameState
         /\ NextEntry(fr).at \in {"look", "name"}
         /\ NextEntry(fr).at = "look" => NextEntry(fr).entries # <<>>
         /\ NextEntry(fr).ids = fr.ids /\ NextEntry(fr).swept = fr.swept
<1>1. Tail(fr.entries) \in Seq(Urls)
  BY DEF FrameState
<1> QED BY <1>1 DEF NextEntry, FrameState

\* The row of the entry is found or made: it is remembered as missed if it is new, and
\* as an owner of its rowid.
LEMMA UpsertKeeps ==
  ASSUME FaviconsInv, Upsert
  PROVE  FaviconsInv' /\ \A f \in DOMAIN feeds : favicon[f] # None => favicon'[f] # None
<1> DEFINE url == Head(frame.entries)
<1>1. PICK id \in FeedIds :
         /\ upsert_feed(url, 0, id)
         /\ frame' = IF id \in frame.ids THEN NextEntry(frame)
                     ELSE [frame EXCEPT !.at = "get", !.id = id, !.ids = @ \cup {id}]
         /\ owners' = [owners EXCEPT ![id] = @ \cup {url}]
  BY DEF Upsert
<1>2. /\ frame.at = "upsert" /\ frame \in FrameState /\ frame.entries # <<>>
      /\ ColumnFollows /\ missed' = missed \cup (DOMAIN feeds' \ DOMAIN feeds)
      /\ UNCHANGED <<tasks, slots, restarts>>
  BY DEF Upsert, FaviconsInv, Ranges, FrameReports
<1>3. url \in Urls
  BY <1>2 DEF FrameState
<1> HIDE DEF url
<1>4. /\ StoreTypeOK'
      /\ DOMAIN feeds' = DOMAIN feeds \cup {id}
      /\ \A f \in DOMAIN feeds : feeds'[f] = feeds[f]
      /\ feeds'[id].url = url
      /\ id \in DOMAIN feeds <=> FeedByUrl(url) # {}
  BY <1>1, <1>3, UpsertFeedOK DEF FaviconsInv, Ranges
<1>5. /\ owners' \in [FeedIds -> SUBSET Urls] /\ url \in owners'[id]
      /\ \A f \in FeedIds : owners[f] \subseteq owners'[f]
  BY <1>1, <1>3 DEF FaviconsInv, Ranges
<1>6. /\ favicon' \in [DOMAIN feeds' -> Urls \cup {None}]
      /\ \A f \in DOMAIN feeds : favicon'[f] = favicon[f]
      /\ id \notin DOMAIN feeds => favicon'[id] = None
  BY <1>2, <1>4 DEF ColumnFollows, FaviconsInv, Ranges
<1>7. /\ frame' \in FrameState /\ frame'.ids = frame.ids \cup {id}
      /\ frame'.swept = frame.swept
      /\ frame'.at \in {"look", "get"} => frame'.entries # <<>>
      /\ frame'.at \in {"look", "get", "name"}
      /\ id \notin frame.ids =>
            frame'.at = "get" /\ frame'.id = id /\ frame'.found = frame.found
  <2>1. CASE id \in frame.ids
    BY <1>1, <1>2, <2>1, NextEntryOK
  <2>2. CASE id \notin frame.ids
    <3>1. frame' = [frame EXCEPT !.at = "get", !.id = id, !.ids = @ \cup {id}]
      BY <1>1, <2>2
    <3> QED BY <1>2, <2>2, <3>1 DEF FrameState
  <2> QED BY <2>1, <2>2
<1>8. Ranges'
  <2>1. missed' \subseteq DOMAIN feeds'
    BY <1>2, <1>4 DEF FaviconsInv, Ranges
  <2> QED BY <1>2, <1>4, <1>5, <1>6, <1>7, <2>1 DEF FaviconsInv, Ranges
<1>9. Owned'
  <2>1. DOMAIN feeds \subseteq FeedIds /\ \A k \in DOMAIN tasks : tasks[k].feed \in FeedIds
    BY DEF FaviconsInv, Ranges, StoreTypeOK, TaskState
  <2>2. \A f \in DOMAIN feeds' : feeds'[f].url \in owners'[f]
    BY <1>4, <1>5, <2>1 DEF FaviconsInv, Owned
  <2>3. \A k \in DOMAIN tasks : tasks[k].url \in owners'[tasks[k].feed]
    BY <1>5, <2>1 DEF FaviconsInv, Owned
  <2>4. \A f \in DOMAIN feeds' : favicon'[f] # None => favicon'[f] \in owners'[f]
    BY <1>4, <1>5, <1>6, <2>1 DEF FaviconsInv, Owned, IconOfAnOwner
  <2> QED BY <1>2, <2>2, <2>3, <2>4 DEF Owned, IconOfAnOwner
<1>10. FrameReports'
  <2>1. missed' \subseteq frame'.ids
    BY <1>2, <1>4, <1>7 DEF FaviconsInv, FrameReports
  <2>2. ASSUME ~frame'.swept
        PROVE  /\ frame'.ids \subseteq DOMAIN feeds'
               /\ missed' # {} => frame'.at = "get" /\ ~frame'.found /\ missed' = {frame'.id}
    <3>1. frame.ids \subseteq DOMAIN feeds /\ missed = {}
          /\ (frame.found <=> FeedByUrl(url) # {})
      BY <1>2, <1>7, <2>2 DEF FaviconsInv, FrameReports, url
    <3>2. missed' \subseteq {id} /\ (missed' # {} => id \notin DOMAIN feeds)
      BY <1>2, <1>4, <3>1
    <3> QED BY <1>4, <1>7, <3>1, <3>2
  <2> QED BY <1>7, <2>1, <2>2 DEF FrameReports, NoFrame
<1>11. SlotsCounted'
  BY <1>2, SlotsSame DEF FaviconsInv
<1> QED BY <1>6, <1>8, <1>9, <1>10, <1>11 DEF FaviconsInv

\* A row that feed_by_url had not found is reported: its task starts, and it is not
\* missed any more.
LEMMA GetKeeps ==
  ASSUME FaviconsInv, Get
  PROVE  FaviconsInv'
<1>1. /\ frame.at = "get" /\ frame \in FrameState /\ frame.entries # <<>>
      /\ frame' = NextEntry(frame)
      /\ UNCHANGED <<storeVars, favicon, slots, restarts, owners>>
  BY DEF Get, FaviconsInv, Ranges, FrameReports
<1>2. /\ frame' \in FrameState /\ frame'.at \in {"look", "name"}
      /\ frame'.at = "look" => frame'.entries # <<>>
      /\ frame'.ids = frame.ids /\ frame'.swept = frame.swept
  BY <1>1, NextEntryOK
<1>3. /\ missed' \subseteq missed
      /\ ~frame.swept => missed' = {}
  <2>1. CASE frame.id \in DOMAIN feeds /\ ~frame.found
    BY <2>1 DEF Get, FaviconsInv, FrameReports
  <2>2. CASE ~(frame.id \in DOMAIN feeds /\ ~frame.found)
    BY <2>2 DEF Get, FaviconsInv, FrameReports, Ranges
  <2> QED BY <2>1, <2>2
<1>4. FrameReports'
  <2>1. feeds' = feeds
    BY <1>1 DEF storeVars
  <2> QED BY <1>2, <1>3, <2>1 DEF FaviconsInv, FrameReports, NoFrame
<1>5. /\ DOMAIN tasks' \subseteq TaskKeys
      /\ tasks' \in [DOMAIN tasks' -> TaskState]
      /\ SlotsCounted'
      /\ \A k \in DOMAIN tasks' : tasks'[k].url \in owners[tasks'[k].feed]
  <2>1. CASE UNCHANGED tasks
    <3>1. SlotsCounted'
      BY <1>1, <2>1, SlotsSame DEF FaviconsInv
    <3> QED BY <2>1, <3>1 DEF FaviconsInv, Ranges, Owned
  <2>2. ASSUME frame.id \in DOMAIN feeds,
               NEW k \in TaskKeys \ DOMAIN tasks, ~Startup(k),
               tasks' = [j \in DOMAIN tasks \cup {k} |->
                            IF j = k THEN [feed |-> frame.id, url |-> feeds[frame.id].url,
                                           stage |-> FirstStage(feeds[frame.id].url)]
                            ELSE tasks[j]]
        PROVE  /\ DOMAIN tasks' \subseteq TaskKeys
               /\ tasks' \in [DOMAIN tasks' -> TaskState]
               /\ SlotsCounted'
               /\ \A j \in DOMAIN tasks' : tasks'[j].url \in owners[tasks'[j].feed]
    <3> DEFINE task == [feed |-> frame.id, url |-> feeds[frame.id].url,
                        stage |-> FirstStage(feeds[frame.id].url)]
    <3>1. frame.id \in FeedIds /\ feeds[frame.id].url \in Urls
      BY <2>2 DEF FaviconsInv, Ranges, StoreTypeOK, FeedRow
    <3>2. task \in TaskState /\ task.stage # "queued" /\ task.url \in owners[task.feed]
      BY <2>2, <3>1 DEF TaskState, FirstStage, Stages, FaviconsInv, Owned
    <3> HIDE DEF task
    <3>3. /\ DOMAIN tasks' = DOMAIN tasks \cup {k} /\ tasks'[k] = task
          /\ \A j \in DOMAIN tasks : tasks'[j] = tasks[j]
          /\ tasks' = [j \in DOMAIN tasks' |-> tasks'[j]]
      BY <2>2 DEF task
    <3>4. \A j \in DOMAIN tasks' : tasks'[j] \in TaskState
      BY <3>2, <3>3 DEF FaviconsInv, Ranges
    <3>5. tasks' \in [DOMAIN tasks' -> TaskState]
      BY <3>3, <3>4
    <3>6. Running' = Running
      BY <2>2, <3>3 DEF Running, Startup
    <3>7. SlotsCounted'
      BY <1>1, <3>2, <3>3, <3>6 DEF FaviconsInv, SlotsCounted
    <3> QED BY <3>2, <3>3, <3>5, <3>7 DEF FaviconsInv, Ranges, Owned
  <2> QED BY <2>1, <2>2 DEF Get
<1>6. Ranges'
  <2>1. StoreTypeOK'
    BY <1>1 DEF FaviconsInv, Ranges, storeVars, StoreTypeOK
  <2> QED BY <1>1, <1>2, <1>3, <1>5, <2>1 DEF FaviconsInv, Ranges, storeVars
<1>7. Owned'
  BY <1>1, <1>5 DEF FaviconsInv, Owned, IconOfAnOwner, storeVars
<1> QED BY <1>4, <1>5, <1>6, <1>7 DEF FaviconsInv

\* set_feeds enables a row of the frame, which changes no URL and no icon.
LEMMA FlagKeeps ==
  ASSUME FaviconsInv, NEW f \in FeedIds, NEW flag \in BOOLEAN, set_enabled(f, flag),
         frame' \in FrameState, FrameReports', missed' \subseteq missed,
         UNCHANGED <<favicon, tasks, slots, restarts, owners>>
  PROVE  FaviconsInv'
<1>1. /\ StoreTypeOK' /\ DOMAIN feeds' = DOMAIN feeds
      /\ \A g \in DOMAIN feeds : feeds'[g].url = feeds[g].url
  BY SetEnabledOK DEF FaviconsInv, Ranges
<1>2. Ranges'
  BY <1>1 DEF FaviconsInv, Ranges
<1>3. Owned'
  BY <1>1 DEF FaviconsInv, Owned, IconOfAnOwner
<1>4. SlotsCounted'
  BY SlotsSame DEF FaviconsInv
<1> QED BY <1>2, <1>3, <1>4 DEF FaviconsInv

LEMMA NameKeeps ==
  ASSUME FaviconsInv, NEW f \in FeedIds, Name(f)
  PROVE  FaviconsInv'
<1>1. /\ frame.at = "name" /\ f \in frame.ids /\ frame \in FrameState
      /\ set_enabled(f, TRUE)
      /\ frame' = IF frame.ids = {f} THEN NoFrame ELSE [frame EXCEPT !.ids = @ \ {f}]
      /\ missed' = IF frame.swept THEN missed \ {f} ELSE missed
      /\ UNCHANGED <<favicon, tasks, slots, restarts, owners>>
  BY DEF Name, FaviconsInv, Ranges
<1>2. DOMAIN feeds' = DOMAIN feeds
  BY <1>1, SetEnabledOK DEF FaviconsInv, Ranges
<1>3. /\ missed \subseteq frame.ids
      /\ ~frame.swept => frame.ids \subseteq DOMAIN feeds /\ missed = {}
  BY <1>1 DEF FaviconsInv, FrameReports
<1>4. frame' \in FrameState /\ FrameReports'
  <2>1. CASE frame.ids = {f}
    <3>1. frame' = NoFrame /\ missed' = {}
      BY <1>1, <1>3, <2>1
    <3>2. NoFrame \in FrameState
      <4>1. <<>> \in Seq(Urls)
        OBVIOUS
      <4> QED BY <4>1 DEF NoFrame, FrameState
    <3>3. FrameReports'
      BY <3>1 DEF FrameReports, NoFrame
    <3> QED BY <3>1, <3>2, <3>3
  <2>2. CASE frame.ids # {f}
    <3>1. /\ frame' \in FrameState /\ frame'.ids = frame.ids \ {f} /\ frame'.at = "name"
          /\ frame'.swept = frame.swept
      BY <1>1, <2>2 DEF FrameState
    <3>2. missed' \subseteq frame'.ids /\ (~frame.swept => missed' = {})
      BY <1>1, <1>3, <3>1
    <3>3. FrameReports'
      BY <1>2, <1>3, <3>1, <3>2 DEF FrameReports
    <3> QED BY <3>1, <3>3
  <2> QED BY <2>1, <2>2
<1> QED BY <1>1, <1>4, FlagKeeps

LEMMA PartKeeps ==
  ASSUME FaviconsInv, NEW f \in FeedIds, Part(f)
  PROVE  FaviconsInv'
<1>1. /\ set_enabled(f, FALSE)
      /\ frame = NoFrame
      /\ UNCHANGED <<favicon, tasks, slots, frame, historyVars>>
  BY DEF Part, LoopIdle, FaviconsInv, FrameReports
<1>2. FrameReports'
  BY <1>1 DEF FaviconsInv, FrameReports, NoFrame, historyVars
<1>3. frame' \in FrameState
  BY <1>1 DEF FaviconsInv, Ranges
<1> QED BY <1>1, <1>2, <1>3, FlagKeeps DEF historyVars

----------------------------------------------------------------------------
\* The sweep and the restart

LEMMA SweepKeeps ==
  ASSUME FaviconsInv, Sweep
  PROVE  FaviconsInv' /\ \A f \in DOMAIN feeds' : favicon'[f] = favicon[f]
<1> DEFINE kept == EnabledFeeds
<1>1. /\ drop_disabled_feeds /\ ColumnFollows
      /\ frame' = IF LoopIdle THEN frame
                  ELSE [frame EXCEPT !.swept = @ \/ kept # DOMAIN feeds]
      /\ missed' = missed \cap kept
      /\ UNCHANGED <<tasks, slots, restarts, owners>>
  BY DEF Sweep
<1>2. /\ StoreTypeOK' /\ DOMAIN feeds' = kept /\ kept \subseteq DOMAIN feeds
      /\ \A f \in kept : feeds'[f] = feeds[f]
  BY <1>1, DropDisabledFeedsOK DEF FaviconsInv, Ranges, EnabledFeeds
<1> HIDE DEF kept
<1>3. /\ favicon' \in [DOMAIN feeds' -> Urls \cup {None}]
      /\ \A f \in kept : favicon'[f] = favicon[f]
  BY <1>1, <1>2 DEF ColumnFollows, FaviconsInv, Ranges
<1>4. /\ frame \in FrameState /\ frame' \in FrameState
      /\ frame'.at = frame.at /\ frame'.entries = frame.entries /\ frame'.ids = frame.ids
      /\ frame'.found = frame.found /\ frame'.id = frame.id
      /\ frame = NoFrame => frame' = NoFrame
      /\ ~frame'.swept => ~frame.swept /\ (LoopIdle \/ kept = DOMAIN feeds)
  <2>1. frame \in FrameState /\ frame.swept \in BOOLEAN
    BY DEF FaviconsInv, Ranges, FrameState
  <2>2. CASE LoopIdle
    <3>1. frame' = frame /\ frame = NoFrame
      BY <1>1, <2>2 DEF LoopIdle, FaviconsInv, FrameReports
    <3> QED BY <2>1, <2>2, <3>1
  <2>3. CASE ~LoopIdle
    <3> DEFINE swept == frame.swept \/ kept # DOMAIN feeds
    <3>1. swept \in BOOLEAN
      OBVIOUS
    <3>2. frame' = [frame EXCEPT !.swept = swept]
      BY <1>1, <2>3
    <3>3. ~swept => ~frame.swept /\ kept = DOMAIN feeds
      OBVIOUS
    <3> HIDE DEF swept
    <3>4. /\ frame' \in FrameState /\ frame'.swept = swept
          /\ frame'.at = frame.at /\ frame'.entries = frame.entries
          /\ frame'.ids = frame.ids /\ frame'.found = frame.found /\ frame'.id = frame.id
      BY <2>1, <3>1, <3>2 DEF FrameState
    <3>5. frame # NoFrame
      BY <2>3 DEF LoopIdle, NoFrame
    <3> QED BY <2>1, <3>3, <3>4, <3>5
  <2> QED BY <2>2, <2>3
<1>5. Ranges'
  BY <1>1, <1>2, <1>3, <1>4 DEF FaviconsInv, Ranges
<1>6. Owned'
  BY <1>1, <1>2, <1>3 DEF FaviconsInv, Owned, IconOfAnOwner
<1>7. SlotsCounted'
  BY <1>1, SlotsSame DEF FaviconsInv
<1>8. FrameReports'
  <2>1. missed' \subseteq frame'.ids
    BY <1>1, <1>4 DEF FaviconsInv, FrameReports
  <2>2. CASE LoopIdle
    BY <1>1, <1>4, <2>2 DEF FaviconsInv, FrameReports, LoopIdle, NoFrame
  <2>3. CASE ~LoopIdle
    <3>1. ASSUME ~frame'.swept
          PROVE  /\ frame'.ids \subseteq DOMAIN feeds'
                 /\ missed' # {} => frame'.at = "get" /\ ~frame'.found /\ missed' = {frame'.id}
                 /\ (frame.at = "upsert" =>
                       (frame.found <=> FeedByUrl(Head(frame.entries)) # {}))'
      <4>1. kept = DOMAIN feeds /\ ~frame.swept
        BY <1>4, <2>3, <3>1
      <4>2. DOMAIN feeds' = DOMAIN feeds /\ missed' = missed
        BY <1>1, <1>2, <4>1 DEF FaviconsInv, Ranges
      <4>3. (FeedByUrl(Head(frame.entries)))' = FeedByUrl(Head(frame.entries))
        BY <1>2, <1>4, <4>1, <4>2 DEF FeedByUrl
      <4>4. /\ frame.ids \subseteq DOMAIN feeds
            /\ missed # {} => frame.at = "get" /\ ~frame.found /\ missed = {frame.id}
            /\ frame.at = "upsert" => (frame.found <=> FeedByUrl(Head(frame.entries)) # {})
        BY <4>1 DEF FaviconsInv, FrameReports
      <4> QED BY <1>4, <4>2, <4>3, <4>4
    <3>2. frame'.at # "none"
      BY <1>4, <2>3 DEF LoopIdle
    <3>3. frame'.at \in {"look", "upsert", "get"} => frame'.entries # <<>>
      BY <1>4 DEF FaviconsInv, FrameReports
    <3> QED BY <2>1, <3>1, <3>2, <3>3 DEF FrameReports
  <2> QED BY <2>2, <2>3
<1> QED BY <1>2, <1>3, <1>5, <1>6, <1>7, <1>8 DEF FaviconsInv

LEMMA RestartKeeps ==
  ASSUME FaviconsInv, Restart
  PROVE  FaviconsInv'
<1>1. /\ disable_all_feeds
      /\ tasks' = [f \in DOMAIN feeds |-> [feed |-> f, url |-> feeds[f].url, stage |-> "queued"]]
      /\ missed' = {} /\ slots' = Concurrency /\ frame' = NoFrame
      /\ UNCHANGED <<favicon, owners>>
  BY DEF Restart, StartupTasks
<1>2. /\ StoreTypeOK' /\ DOMAIN feeds' = DOMAIN feeds
      /\ \A f \in DOMAIN feeds : feeds'[f].url = feeds[f].url
  BY <1>1, DisableAllFeedsOK DEF FaviconsInv, Ranges
<1>3. DOMAIN feeds \subseteq 1 .. MaxFeedId /\ \A f \in DOMAIN feeds : feeds[f].url \in Urls
  BY DEF FaviconsInv, Ranges, StoreTypeOK, FeedRow, FeedIds
<1>4. /\ DOMAIN tasks' = DOMAIN feeds
      /\ \A k \in DOMAIN tasks' : /\ tasks'[k].stage = "queued" /\ tasks'[k].feed = k
                                  /\ tasks'[k].url = feeds[k].url /\ tasks'[k] \in TaskState
  BY <1>1, <1>3 DEF TaskState, Stages, FeedIds
<1>5. /\ DOMAIN tasks' \subseteq TaskKeys /\ tasks' \in [DOMAIN tasks' -> TaskState]
      /\ \A k \in DOMAIN tasks' : Startup(k)
  <2>1. tasks' = [k \in DOMAIN tasks' |-> tasks'[k]]
    BY <1>1
  <2>2. DOMAIN tasks' \subseteq TaskKeys /\ \A k \in DOMAIN tasks' : Startup(k)
    BY <1>3, <1>4, MaxFeedIdAssumption, MaxAddedAssumption DEF TaskKeys, Startup
  <2> QED BY <1>4, <2>1, <2>2
<1>6. SlotsCounted'
  <2>1. Running' = {}
    BY <1>4 DEF Running
  <2>2. Cardinality(Running') = 0
    BY <2>1, FS_EmptySet
  <2> QED BY <1>1, <1>4, <1>5, <2>2, ConcurrencyAssumption DEF SlotsCounted
<1>7. frame' \in FrameState
  <2>1. <<>> \in Seq(Urls)
    OBVIOUS
  <2> QED BY <1>1, <2>1 DEF NoFrame, FrameState
<1>8. Ranges'
  BY <1>1, <1>2, <1>5, <1>7 DEF FaviconsInv, Ranges
<1>9. Owned'
  BY <1>1, <1>2, <1>4 DEF FaviconsInv, Owned, IconOfAnOwner
<1>10. FrameReports'
  BY <1>1 DEF FrameReports, NoFrame
<1> QED BY <1>6, <1>8, <1>9, <1>10 DEF FaviconsInv

----------------------------------------------------------------------------
\* What follows

\* No step wipes an icon.
NoIconWiped ==
    \A f \in DOMAIN feeds \cap DOMAIN feeds' : favicon[f] # None => favicon'[f] # None

LEMMA StepKeeps ==
  ASSUME FaviconsInv, [Next]_vars
  PROVE  FaviconsInv' /\ NoIconWiped
<1>1. ASSUME NEW entries \in Frames, ReceiveFrame(entries)
      PROVE  FaviconsInv' /\ NoIconWiped
  BY <1>1, ReceiveFrameKeeps DEF ReceiveFrame, NoIconWiped
<1>2. CASE Look
  BY <1>2, LookKeeps DEF Look, NoIconWiped
<1>3. CASE Upsert
  BY <1>3, UpsertKeeps DEF NoIconWiped
<1>4. CASE Get
  BY <1>4, GetKeeps DEF Get, NoIconWiped
<1>5. ASSUME NEW f \in FeedIds, Name(f)
      PROVE  FaviconsInv' /\ NoIconWiped
  BY <1>5, NameKeeps DEF Name, NoIconWiped
<1>6. ASSUME NEW k \in DOMAIN tasks, TaskStep(k)
      PROVE  FaviconsInv' /\ NoIconWiped
  <2>1. CASE Begin(k)
    BY <2>1, BeginKeeps DEF Begin, NoIconWiped
  <2>2. CASE Resolved(k)
    BY <2>2, ResolvedKeeps DEF NoIconWiped
  <2>3. CASE NotAnIcon(k)
    BY <2>3, NotAnIconKeeps DEF NotAnIcon, NoIconWiped
  <2>4. CASE Fails(k)
    BY <2>4, FailsKeeps DEF Fails, NoIconWiped
  <2> QED BY <1>6, <2>1, <2>2, <2>3, <2>4 DEF TaskStep
<1>7. ASSUME NEW f \in FeedIds, Part(f)
      PROVE  FaviconsInv' /\ NoIconWiped
  BY <1>7, PartKeeps DEF Part, NoIconWiped
<1>8. CASE Sweep
  BY <1>8, SweepKeeps DEF NoIconWiped
<1>9. CASE Restart
  BY <1>9, RestartKeeps DEF Restart, NoIconWiped
<1>10. CASE UNCHANGED vars
  <2>1. frame' \in FrameState /\ UNCHANGED <<storeVars, favicon, tasks, slots, historyVars>>
    BY <1>10 DEF vars, FaviconsInv, Ranges
  <2>2. FrameReports'
    BY <1>10 DEF vars, storeVars, historyVars, FaviconsInv, FrameReports, FeedByUrl
  <2> QED BY <2>1, <2>2, FrameAlone DEF NoIconWiped, historyVars
<1>11. CASE FrameRaises
  BY <1>11, FrameRaisesKeeps DEF FrameRaises, NoIconWiped
<1> QED
  BY <1>1, <1>2, <1>3, <1>4, <1>5, <1>6, <1>7, <1>8, <1>9, <1>10, <1>11 DEF Next, FrameStep

LEMMA InitKeeps == Init => FaviconsInv
<1> SUFFICES ASSUME Init PROVE FaviconsInv
  OBVIOUS
<1>1. StoreTypeOK /\ DOMAIN feeds = {}
  BY EmptyStoreOK DEF Init, EmptyStore
<1>2. frame \in FrameState
  <2>1. <<>> \in Seq(Urls)
    OBVIOUS
  <2> QED BY <2>1 DEF Init, NoFrame, FrameState
<1>3. Ranges
  BY <1>1, <1>2 DEF Init, Ranges
<1>4. SlotsCounted
  <2>1. Running = {}
    BY DEF Init, Running
  <2>2. Cardinality(Running) = 0
    BY <2>1, FS_EmptySet
  <2> QED BY <2>2, ConcurrencyAssumption DEF Init, SlotsCounted
<1>5. Owned
  BY <1>1 DEF Init, Owned, IconOfAnOwner
<1>6. FrameReports
  BY DEF Init, FrameReports, NoFrame
<1> QED BY <1>3, <1>4, <1>5, <1>6 DEF FaviconsInv

LEMMA FaviconsInvariant == Spec => []FaviconsInv
<1>1. FaviconsInv /\ [Next]_vars => FaviconsInv'
  BY StepKeeps
<1> QED BY InitKeeps, <1>1, PTL DEF Spec

\* The variables stay in their ranges: the semaphore is never left more often than it
\* was entered, and a task never needs a key that is taken (refresh_favicons).
THEOREM FaviconsTypeCorrect == Spec => []TypeOK
<1>1. FaviconsInv => TypeOK
  BY DEF FaviconsInv, Ranges, SlotsCounted, TypeOK, TaskState, FrameState
<1> QED BY FaviconsInvariant, <1>1, PTL

\* A row shows no icon but one of a feed that had its rowid, although icons are stored
\* by rowids whose row may have been swept and given away (resolve_and_store).
THEOREM IconsOfOwners == Spec => []IconOfAnOwner
<1>1. FaviconsInv => IconOfAnOwner
  BY DEF FaviconsInv, Owned
<1> QED BY FaviconsInvariant, <1>1, PTL

\* Between two frames every row has been asked for its icon, also the rows a sweep took
\* away from under a frame and the frame made again (resolve_subscription).
THEOREM EveryRowIsAsked == Spec => []EveryRowAsked
<1>1. FaviconsInv => EveryRowAsked
  BY DEF FaviconsInv, FrameReports, EveryRowAsked, LoopIdle, NoFrame
<1> QED BY FaviconsInvariant, <1>1, PTL

\* No step of any task, frame, sweep or restart takes the icon of a row that stays
\* (favicon.py, "never wipes a known icon on failure").
THEOREM KnownIconsKept == Spec => KnownIconKept
<1>1. FaviconsInv /\ [Next]_vars =>
         [\A f \in DOMAIN feeds \cap DOMAIN feeds' :
             favicon[f] # None => favicon'[f] # None]_vars
  BY StepKeeps DEF NoIconWiped
<1> QED BY FaviconsInvariant, <1>1, PTL DEF Spec, KnownIconKept
=============================================================================
