------------------------- MODULE MCLiveRouteChange -------------------------
(* One route under two assignment generations and two publications. *)
EXTENDS LiveRouteChange

=============================================================================
