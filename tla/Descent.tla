------------------------------- MODULE Descent -------------------------------
(***************************************************************************)
(* The order of loops within loops: bounds that are left are compared from *)
(* the outermost loop inwards, and an outer one that is used up by one may *)
(* start all inner ones anew.                                              *)
(***************************************************************************)
EXTENDS Naturals

(* What is left of six bounds.                                              *)
Tuples == [1..6 -> Nat]

Below(u, v) ==
  \E k \in DOMAIN v : u[k] < v[k] /\ \A j \in DOMAIN v : j < k => u[j] = v[j]
=============================================================================
