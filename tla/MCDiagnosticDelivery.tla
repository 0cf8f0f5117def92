---- MODULE MCDiagnosticDelivery ----
(* Instances of DiagnosticDelivery.                                           *)
EXTENDS DiagnosticDelivery
====
