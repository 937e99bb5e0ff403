--------------------------- MODULE MCFlightPhase ---------------------------
(***************************************************************************)
(* The sim's samples for the phase machine: the ground at every speed, a   *)
(* touchdown that is still sinking, flight at every height and rate, the   *)
(* moments after an aircraft is loaded (reported airborne while it sits at *)
(* the gate), and slewing.                                                 *)
(***************************************************************************)
EXTENDS FlightPhase

Sample(onGround, gs, vs, agl, engine, brake, slew, offRunway) ==
  [onGround |-> onGround, gs |-> gs, vs |-> vs, agl |-> agl, engine |-> engine,
   brake |-> brake, slew |-> slew, offRunway |-> offRunway]

AtGate    == {Sample(TRUE, 0, "level", 0, e, b, FALSE, FALSE) : e, b \in BOOLEAN}
OnGround  == {Sample(TRUE, g, "level", 0, TRUE, FALSE, FALSE, o) : g \in 1..3, o \in BOOLEAN}
Touching  == {Sample(TRUE, 3, "down", 0, TRUE, FALSE, FALSE, FALSE)}
Flying    == {Sample(FALSE, 3, v, a, TRUE, FALSE, FALSE, FALSE) :
                v \in {"up", "level", "sink", "down"}, a \in 0..2}
Loading   == {Sample(FALSE, 0, "level", a, FALSE, TRUE, FALSE, FALSE) : a \in 0..1}
Slewing   == {Sample(o, 3, "level", 1, TRUE, FALSE, TRUE, FALSE) : o \in BOOLEAN}

MCSamples == AtGate \cup OnGround \cup Touching \cup Flying \cup Loading \cup Slewing
=============================================================================
