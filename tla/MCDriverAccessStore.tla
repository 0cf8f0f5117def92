------------------------- MODULE MCDriverAccessStore -------------------------
(* The store alone, under every order of calls: two drivers, two routes and    *)
(* three assignments.                                                          *)
EXTENDS DriverAccessStore

CONSTANTS a, b, r, q, g1, g2, none, t1, t2
===============================================================================
