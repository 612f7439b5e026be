------------------------------ MODULE MCPoller ------------------------------
(* Values for the model checker: see the README for why they are enough. *)
EXTENDS Poller

CONSTANTS u1, u2, a1, a2, b1

\* Two articles of u1 and one of u2.  The first one of u1 is dated at time 1 or ahead, at a
\* time when the retention is almost over; the second has no date.
MCPublisher == [g \in Guids |-> IF g = b1 THEN u2 ELSE u1]
MCDates == [g \in Guids |-> IF g = a2 THEN {None} ELSE {1, 5}]
MCOneDate == [g \in Guids |-> {1}]
=============================================================================
