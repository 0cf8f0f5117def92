---------------------------- MODULE MCLocationTask ----------------------------
(* One route, held by one of two drivers of a phone.                           *)
EXTENDS LocationTask

CONSTANTS a, b, route, g1, g2, none, t1, t2
===============================================================================
