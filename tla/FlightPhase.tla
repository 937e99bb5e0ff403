---------------------------- MODULE FlightPhase ----------------------------
(***************************************************************************)
(* One FlightRecorder (src/main/tracking/FlightRecorder.ts) fed by the sim *)
(* at 1 Hz: every sample steps the phase machine of PhaseStep, and the two *)
(* switches can change between samples.  The recorder starts as start(),   *)
(* startFree() or resume() makes it.                                       *)
(***************************************************************************)
EXTENDS PhaseStep

CONSTANT Samples   \* the telemetry samples the sim can send

ASSUME SamplesAssumption == Samples \subseteq Telemetry

VARIABLES state,     \* FlightRecorder.state
          settings,  \* FlightRecorder.settings, without the runway check
          last,      \* what the recorder made of the last sample (Kinds)
          run,       \* how long the flight has really been level, descending and airborne,
                     \* in consecutive samples the machine saw
          tick       \* turns with every sample, so that one that changes nothing is a step

vars == <<state, settings, last, run, tick>>

Runs == [level : 0..LEVEL_SUSTAIN_SAMPLES, descent : 0..DESCENT_SUSTAIN_SAMPLES,
         airborne : 0..GO_AROUND_AIRBORNE_SAMPLES]

\* Counts up to the longest run that any rule asks for.
Count(n, holds, longest) == IF ~holds THEN 0 ELSE IF n < longest THEN n + 1 ELSE n

NextRun(t) ==
  [level    |-> Count(run.level, t.vs = "level", LEVEL_SUSTAIN_SAMPLES),
   descent  |-> Count(run.descent, t.vs = "down", DESCENT_SUSTAIN_SAMPLES),
   airborne |-> Count(run.airborne, ~t.onGround, GO_AROUND_AIRBORNE_SAMPLES)]

\* What a sample shows: nothing while paused or slewing, an aircraft parked with its
\* engines off, one flying well above the ground, or anything else.
Kinds == {"ignored", "parked", "flying", "other"}
Kind(t, paused) ==
  CASE ignored(t, paused)                           -> "ignored"
    [] ~ignored(t, paused) /\ t.onGround /\ Parked(t) -> "parked"
    [] ~ignored(t, paused) /\ ~t.onGround /\ t.agl > 0 /\ t.gs = 3 -> "flying"
    [] OTHER                                        -> "other"

TypeOK ==
  /\ state \in PhaseState
  /\ settings \in [paused : BOOLEAN, autoShutdown : BOOLEAN]
  /\ last \in Kinds
  /\ run \in Runs
  /\ tick \in BOOLEAN

Init ==
  /\ \E phase \in Phases, hasLanded \in BOOLEAN : state = NewPhaseState(phase, hasLanded)
  /\ settings \in [paused : BOOLEAN, autoShutdown : BOOLEAN]
  /\ last = "other"
  /\ run = [level |-> 0, descent |-> 0, airborne |-> 0]
  /\ tick = FALSE

\* One sim tick.
ingest(t) ==
  /\ state' = stepPhase(state, t, settings.paused, settings.autoShutdown)
  /\ run' = IF ignored(t, settings.paused) THEN run ELSE NextRun(t)
  /\ last' = Kind(t, settings.paused)
  /\ tick' = ~tick
  /\ UNCHANGED settings

setPaused(paused) ==
  /\ settings' = [settings EXCEPT !.paused = paused]
  /\ UNCHANGED <<state, last, run, tick>>

setAutoShutdown(enabled) ==
  /\ settings' = [settings EXCEPT !.autoShutdown = enabled]
  /\ UNCHANGED <<state, last, run, tick>>

Next ==
  \/ \E t \in Samples : ingest(t)
  \/ \E paused \in BOOLEAN : setPaused(paused)
  \/ \E enabled \in BOOLEAN : setAutoShutdown(enabled)

Spec == Init /\ [][Next]_vars

\* The sim keeps sending samples; the pilot need never touch a switch.
FairSpec == Spec /\ WF_vars(\E t \in Samples : ingest(t))

-----------------------------------------------------------------------------
(* Safety.                                                                 *)

\* The rules for cruise, descent and the go-around really see consecutive samples: the
\* counts of level, descending and airborne samples are no longer than the run of samples
\* that justifies them, in whichever phase they are compared (the counts outlive the phase
\* that makes them).  Of the fourth count, groundStreak, this is not true: 'climb' and 'cruise'
\* leave it behind, and when they come back to it one sample on the ground can be a landing.
StreaksAreRuns ==
  /\ state.phase \in {"climb", "descent"} => state.levelStreak <= run.level
  /\ state.phase = "cruise" => state.descentStreak <= run.descent
  /\ state.phase \in {"taxi", "landing"} => state.airborneStreak <= run.airborne

Moves(from, to) == state.phase \in from /\ state'.phase \in to /\ state'.phase # state.phase

\* A bounce on the rollout is not a go-around, and an autopilot hunting about its level
\* is not a descent (the comments on the *_SAMPLES constants): the phase leaves the
\* ground or its level only after that many samples in a row.
TransitionsAreSustained ==
  /\ Moves({"taxi", "landing"}, {"climb"}) => run'.airborne = GO_AROUND_AIRBORNE_SAMPLES
  /\ Moves({"climb", "descent"}, {"cruise"}) => run'.level = LEVEL_SUSTAIN_SAMPLES
  /\ Moves({"cruise"}, {"descent"}) => run'.descent = DESCENT_SUSTAIN_SAMPLES
NoHastyTransition == [][TransitionsAreSustained]_vars

\* A rollout or taxi-in speed blip after landing is never a second takeoff roll, and a
\* flight that has landed stays landed (hasLanded: "set once ... and never cleared").
LandedStaysLanded ==
  [][state.hasLanded => /\ state'.hasLanded
                        /\ ~Moves(Phases, {"takeoff"})]_vars

-----------------------------------------------------------------------------
(* Liveness.                                                               *)

\* Once the aircraft stays parked with the engines off, an unpaused recorder with
\* automatic finishing on completes the flight, whatever phase the arrival left it in:
\* no bounce, go-around, rejected takeoff or resume strands it ("the machine got stuck in
\* 'takeoff' after landing").  A flight that never taxied is not over.
ParkedShutsDown ==
  <>[](settings.autoShutdown /\ last = "parked")
    => <>[](state.phase \in {"preflight", "pushback", "shutdown"})

\* However tracking began, an aircraft that stays in the air well above the ground at
\* flying speed is found to be flying.
AirborneIsNoticed ==
  <>[](last = "flying")
    => <>[](state.phase \in {"climb", "cruise", "descent", "shutdown"})
=============================================================================
