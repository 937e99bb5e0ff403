----------------------------- MODULE MCTaxiRoute -----------------------------
(***************************************************************************)
(* Two flights between two airports, there and back; a clearance of each   *)
(* kind, of which the crossing has no line; a worker that keeps one        *)
(* network, may die once, and is given up when it then cannot start.  The  *)
(* second version of a network has as many segments as the first, the      *)
(* third one more.                                                         *)
(***************************************************************************)
EXTENDS TaxiRoute, TLC

MCDep == [f \in Flights |-> IF f = "out" THEN "a" ELSE "b"]
MCLengthOf == [n \in Networks |-> CASE n = 0 -> 0 [] n \in 1..2 -> 1 [] OTHER -> n - 1]
MCArr == [f \in Flights |-> IF f = "out" THEN "b" ELSE "a"]
=============================================================================
