---------------------------- MODULE MCLanServer -----------------------------
(***************************************************************************)
(* Two slots for three sockets: a phone that may open a second one before  *)
(* its first is given up, and a tablet.  The PC has one address to lose    *)
(* and find again, and two ports to choose from.  The flight shown is the  *)
(* plan, the same flight being tracked, or none; at first none.  The ports *)
(* are alike, so it does not matter which is set at first.                 *)
(***************************************************************************)
EXTENDS LanServer, TLC

CONSTANTS phone, phoneAgain, tablet

MCAddressOf == [s \in Sockets |-> IF s = tablet THEN "tablet" ELSE "phone"]
MCFlightOf == [k \in Keys |-> IF k = "none" THEN None ELSE "flight"]

MCInit == Init /\ flight = "none" /\ settings.port = 4848
MCSpec == MCInit /\ [][Next]_vars /\ Fairness
=============================================================================
