----------------------------- MODULE MCFavicons -----------------------------
(* Values for the model checker: see the README for why they are enough. *)
EXTENDS Favicons

CONSTANTS u1, u2

\* One feed, the other, and both in one frame.
MCFrames == {<<u1>>, <<u2>>, <<u1, u2>>}
=============================================================================
