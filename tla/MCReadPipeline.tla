--------------------------- MODULE MCReadPipeline ---------------------------
(* Two reads of one domain, by any cohorts.                                *)
EXTENDS ReadPipeline
CONSTANTS r1, r2
MCReads == {r1, r2}
MCCohorts == BOOLEAN
=============================================================================
