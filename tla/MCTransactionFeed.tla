-------------------------- MODULE MCTransactionFeed --------------------------
(* TransactionFeed for TLC.  Payment ids are numbers, because they break   *)
(* ties of time; no symmetry, because a run checks liveness.               *)
EXTENDS TransactionFeed
=============================================================================
