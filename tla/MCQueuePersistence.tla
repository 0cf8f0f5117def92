-------------------------- MODULE MCQueuePersistence --------------------------
(* Instances of QueuePersistence: a caller, a few changes, restarts.           *)
EXTENDS QueuePersistence

CONSTANTS w1
===============================================================================
