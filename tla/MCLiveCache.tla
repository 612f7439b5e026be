---------------------------- MODULE MCLiveCache ----------------------------
(* Values for the model checker: see the README for why they are enough. *)
EXTENDS LiveCache, TLC

\* A live page and what differs from it in one thing that matters to the parser.
Live(vid) == [player |-> TRUE, id |-> vid, isLive |-> TRUE, isUpcoming |-> FALSE,
              status |-> "other"]
MCPages == UNION {{Live(vid),
                   [Live(vid) EXCEPT !.isLive = FALSE],
                   [Live(vid) EXCEPT !.isUpcoming = TRUE],
                   [Live(vid) EXCEPT !.status = "offline"],
                   [Live(vid) EXCEPT !.status = "no object"],
                   [Live(vid) EXCEPT !.id = None]} : vid \in VideoIds}

MCSymmetry == Permutations(Requests) \cup Permutations(VideoIds)
=============================================================================
