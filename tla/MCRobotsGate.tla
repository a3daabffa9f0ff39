---------------------------- MODULE MCRobotsGate ----------------------------
(* Two hosts in a cache of one entry, so that a fetch of one evicts the    *)
(* other, and two tasks that keep asking for pages of both.                *)
EXTENDS RobotsGate
CONSTANTS t1, t2
MCTasks == {t1, t2}
MCUrl == [host : {"a", "b"}, open : BOOLEAN]
=============================================================================
