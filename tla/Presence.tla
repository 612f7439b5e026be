------------------------------ MODULE Presence ------------------------------
(***************************************************************************)
(* What the subscription machinery of src/rss_ticker promises, with no     *)
(* counter in it: a feed of the pool is polled while some subscription     *)
(* names it.  Subscriptions.tla implements this with reference counts and  *)
(* an `enabled` column, one store call at a time (see Refinement there).   *)
(***************************************************************************)
CONSTANTS
    Sockets,  \* the subscriptions
    FeedIds

VARIABLES
    names,    \* the feeds each subscription names
    pool,     \* the feeds that have a row
    polled,   \* the feeds of the pool the poller picks up
    lost      \* the feeds about which nothing is promised until the next restart

vars == <<names, pool, polled, lost>>

TypeOK ==
    /\ names \in [Sockets -> SUBSET FeedIds]
    /\ lost \subseteq FeedIds
    /\ pool \subseteq FeedIds \ lost
    /\ polled \subseteq pool

Named(f) == \E s \in Sockets : f \in names[s]

Init ==
    /\ names = [s \in Sockets |-> {}]
    /\ pool = {}
    /\ polled = {}
    /\ lost = {}

\* A feed enters the pool polled: its first subscription is about to name it.
Admit(f) ==
    /\ f \notin pool \cup lost
    /\ pool' = pool \cup {f}
    /\ polled' = polled \cup {f}
    /\ UNCHANGED <<names, lost>>

\* s names f: from here on f is polled, if it has a row at all.
Name(s, f) ==
    /\ f \notin names[s] \cup lost
    /\ names' = [names EXCEPT ![s] = @ \cup {f}]
    /\ polled' = polled \cup ({f} \cap pool)
    /\ UNCHANGED <<pool, lost>>

\* s no longer names f: the last one to do so stops the polling at once.
Unname(s, f) ==
    /\ f \in names[s]
    /\ names' = [names EXCEPT ![s] = @ \ {f}]
    /\ polled' = IF \E t \in Sockets \ {s} : f \in names[t] THEN polled ELSE polled \ {f}
    /\ UNCHANGED <<pool, lost>>

\* The sweep removes the feeds that are not polled.
Reclaim ==
    /\ pool' = polled
    /\ UNCHANGED <<names, polled, lost>>

\* The feeds F are lost: a failure was about them, and about no other feed.
Lose(F) ==
    /\ names' = [s \in Sockets |-> names[s] \ F]
    /\ pool' = pool \ F
    /\ polled' = polled \ F
    /\ lost' = lost \cup F

\* A restart forgets every subscription; the pool is kept, with what of the lost feeds
\* is still in it, and nothing is polled.
Restart ==
    /\ names' = [s \in Sockets |-> {}]
    /\ pool \subseteq pool' /\ pool' \subseteq pool \cup lost
    /\ polled' = {}
    /\ lost' = {}

Next ==
    \/ \E f \in FeedIds : Admit(f)
    \/ \E s \in Sockets, f \in FeedIds : Name(s, f) \/ Unname(s, f)
    \/ Reclaim
    \/ \E F \in SUBSET FeedIds : Lose(F)
    \/ Restart

Spec == Init /\ [][Next]_vars

\* A feed of the pool that some subscription names is polled.
NamedIsPolled == \A f \in pool : Named(f) => f \in polled
=============================================================================
