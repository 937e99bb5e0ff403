-------------------------- MODULE FlightLifecycle --------------------------
(***************************************************************************)
(* What the logbook promises about its flights, whatever happens to the    *)
(* app: a flight is planned or goes straight to active, an active one      *)
(* completes once, and a flight that is gone (cancelled, abandoned or      *)
(* deleted) stays gone.  One step may let several flights go, since "Fly"  *)
(* replaces what was there, but it moves at most one forward.              *)
(***************************************************************************)
CONSTANT Flights

VARIABLE stage

Stages == {"none", "planned", "active", "completed", "gone"}

Forward == {<<"none", "planned">>, <<"none", "active">>,
            <<"planned", "active">>, <<"active", "completed">>}

Goes(f) == stage[f] # "none" /\ stage'[f] = "gone"
Advances(f) == <<stage[f], stage'[f]>> \in Forward

Init == stage = [f \in Flights |-> "none"]

Next ==
  /\ stage' \in [Flights -> Stages]
  /\ \A f \in Flights : stage'[f] = stage[f] \/ Goes(f) \/ Advances(f)
  /\ \A f, g \in Flights : Advances(f) /\ Advances(g) => f = g

Spec == Init /\ [][Next]_stage
=============================================================================
