---------------------------- MODULE MCRateLimit -----------------------------
(* Two requests at a limit of one: more tasks than the limit, so that the  *)
(* bound of WindowBound is reached on both its counts.                     *)
EXTENDS RateLimit
CONSTANTS c1, c2
MCCallers == {c1, c2}
=============================================================================
