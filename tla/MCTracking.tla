---------------------------- MODULE MCTracking -----------------------------
(***************************************************************************)
(* A handful of samples that take a flight from the gate round a circuit   *)
(* and back, with every sustain threshold at one or two samples (the       *)
(* streaks are FlightPhase's subject; here they only lengthen behaviours). *)
(***************************************************************************)
EXTENDS Tracking, TLC

Sample(onGround, gs, vs, engine, brake) ==
  [onGround |-> onGround, gs |-> gs, vs |-> vs, agl |-> IF onGround THEN 0 ELSE 1,
   engine |-> engine, brake |-> brake, slew |-> FALSE, offRunway |-> FALSE]

Gate      == Sample(TRUE, 0, "level", FALSE, TRUE)
Taxiing   == Sample(TRUE, 2, "level", TRUE, FALSE)
Rolling   == Sample(TRUE, 3, "level", TRUE, FALSE)
Climbing  == Sample(FALSE, 3, "up", TRUE, FALSE)
Level     == Sample(FALSE, 3, "level", TRUE, FALSE)
Sinking   == Sample(FALSE, 3, "down", TRUE, FALSE)

HopSamples     == {Gate, Climbing}
CircuitSamples == {Gate, Rolling, Climbing, Level, Sinking}

\* After a refused createFlight() the code flies a plan that was replaced (see LifecycleSpec).
AllButCreate == Writes \ {"create"}

FlightSymmetry == Permutations(Flights)
=============================================================================
