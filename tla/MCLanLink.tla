----------------------------- MODULE MCLanLink ------------------------------
(***************************************************************************)
(* Two asks for the same runways, whose answer may be kept, and one for    *)
(* the settings; one slot in each lane, so that they wait for each other,  *)
(* and two tries.                                                          *)
(***************************************************************************)
EXTENDS LanLink, TLC

CONSTANTS firstAsk, again, other, runways, noKey, airport

MCLaneOf == [a \in Asks |-> "fast"]
MCKeyOf == [a \in Asks |-> IF a = other THEN noKey ELSE runways]
MCSubjectOf == [a \in Asks |-> airport]
OneSlot == [l \in Lanes |-> 1]
=============================================================================
