--------------------------- MODULE MCRequestChain ---------------------------
(* Every chain, every method and every answer, with one retry. *)
EXTENDS RequestChain
=============================================================================
