------------------------------- MODULE MCSync ------------------------------
(***************************************************************************)
(* Two devices, and an aircraft, its flight and the flight's landing: one  *)
(* row for each level of the dependency order (an invoice hangs off its    *)
(* flight the way a landing does).                                         *)
(***************************************************************************)
EXTENDS Sync, TLC

CONSTANTS a, f, l

AircraftOnly == {a}
Fleet == {a, f}
Logbook == {a, f, l}

MCTableOf == [r \in Rows |-> CASE r = a -> "aircraft" [] r = f -> "flight" [] r = l -> "landing"]
MCParentOf == [r \in Rows |-> CASE r = a -> NoParent [] r = f -> a [] r = l -> f]

DeviceSymmetry == Permutations(Devices)
=============================================================================
