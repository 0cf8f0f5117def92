--------------------------- MODULE MCRetryScheduler ---------------------------
(* Instances of RetryScheduler: the .cfg files choose whether passes stop      *)
(* half-way.                                                                   *)
EXTENDS RetryScheduler
===============================================================================
