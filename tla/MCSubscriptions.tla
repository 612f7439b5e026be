--------------------------- MODULE MCSubscriptions ---------------------------
(* Values for the model checker: see the README for why they are enough. *)
EXTENDS Subscriptions, TLC

CONSTANTS s1, s2, u1, u2

\* Nothing, one feed, two feeds in either order, and one feed named twice.
MCFrames == {<<>>, <<u1>>, <<u2>>, <<u1, u2>>, <<u2, u1>>, <<u1, u1>>}

\* With a single feed: unsubscribe from it, subscribe to it.
MCFramesOne == {<<>>, <<u1>>}

MCSymmetry == Permutations({s1, s2})
=============================================================================
