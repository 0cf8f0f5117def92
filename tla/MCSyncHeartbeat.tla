---- MODULE MCSyncHeartbeat ----
(* Instances of SyncHeartbeat.                                                *)
EXTENDS SyncHeartbeat
====
