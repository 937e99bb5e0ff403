----------------------------- MODULE PhaseStep -----------------------------
(***************************************************************************)
(* The flight phase machine and the touchdown rule as pure step functions, *)
(* from src/main/tracking/flight-phase-step.ts and touchdown-step.ts.      *)
(*                                                                         *)
(* A telemetry sample keeps only what the thresholds tell apart:           *)
(*   gs   ground speed, the number of speed thresholds passed: 1 is above  *)
(*        MOVING_MS, 2 above TAXI_SPEED_MS, 3 above ROLL_SPEED_MS          *)
(*   vs   "up" at least LEVEL_VS_MS, "level" within it, "sink" below it    *)
(*        but not past DESCENT_VS_MS, "down" past DESCENT_VS_MS            *)
(*   agl  1 above AIRBORNE_START_AGL_M, 2 above DESCENT_APPROACH_AGL_M     *)
(* The numbers of consecutive samples are the constants, in samples; the   *)
(* recording intervals are in samples too (the stream is 1 Hz).            *)
(***************************************************************************)
EXTENDS Naturals

CONSTANTS LEVEL_SUSTAIN_SAMPLES,       \* level samples that confirm cruise
          DESCENT_SUSTAIN_SAMPLES,     \* descending samples that end cruise
          GO_AROUND_AIRBORNE_SAMPLES,  \* airborne (or ground) samples that are no bounce
          AIRBORNE_START_SAMPLES       \* airborne samples that start the machine in the air

ASSUME ThresholdsAssumption ==
  /\ LEVEL_SUSTAIN_SAMPLES \in Nat \ {0}
  /\ DESCENT_SUSTAIN_SAMPLES \in Nat \ {0}
  /\ GO_AROUND_AIRBORNE_SAMPLES \in Nat \ {0}
  /\ AIRBORNE_START_SAMPLES \in Nat \ {0}

Phases == {"preflight", "pushback", "taxi", "takeoff", "climb",
           "cruise", "descent", "landing", "shutdown"}

Telemetry == [onGround : BOOLEAN, gs : 0..3, vs : {"up", "level", "sink", "down"},
              agl : 0..2, engine : BOOLEAN, brake : BOOLEAN, slew : BOOLEAN,
              offRunway : BOOLEAN]   \* runwayCheck answered "no": not "yes", not unknown

Longest == 5   \* CRUISE_TRACK_INTERVAL_S, the longest recording interval

\* sinceRecord counts the samples since the last point, up to Longest (which also
\* stands for "no point yet": the first sample is always recorded).
PhaseState == [phase : Phases,
               levelStreak : 0..(LEVEL_SUSTAIN_SAMPLES - 1),
               descentStreak : 0..(DESCENT_SUSTAIN_SAMPLES - 1),
               airborneStreak : Nat,
               groundStreak : 0..(GO_AROUND_AIRBORNE_SAMPLES - 1),
               sinceRecord : 0..Longest,
               hasLanded : BOOLEAN]

\* A recorder made by start() ("preflight", not landed), startFree() or resume().
NewPhaseState(phase, hasLanded) ==
  [phase |-> phase, levelStreak |-> 0, descentStreak |-> 0, airborneStreak |-> 0,
   groundStreak |-> 0, sinceRecord |-> Longest, hasLanded |-> hasLanded]

Parked(t) == t.gs = 0 /\ t.brake /\ ~t.engine

-----------------------------------------------------------------------------
(* One operator per from...() function: the state after the sample.        *)

\* Mutant: nothing looks at the air, as before tracking could start there.
fromPreflight_GroundOnly(s, t) ==
  [s EXCEPT !.phase = IF t.onGround /\ (t.gs > 0 \/ t.engine) THEN "pushback" ELSE @]

fromPreflight(s, t) ==
  LET streak == IF t.agl > 0 THEN s.airborneStreak + 1 ELSE 0
  IN  IF t.onGround
      THEN [s EXCEPT !.airborneStreak = 0,
                     !.phase = IF t.gs > 0 \/ t.engine THEN "pushback" ELSE @]
      ELSE IF streak < AIRBORNE_START_SAMPLES
      THEN [s EXCEPT !.airborneStreak = streak]
      ELSE [s EXCEPT !.airborneStreak = 0,
                     !.phase = CASE t.vs = "up"   -> "climb"
                                 [] t.vs = "down" -> "descent"
                                 [] OTHER         -> "cruise"]

fromPushback(s, t) == [s EXCEPT !.phase = IF t.gs >= 2 THEN "taxi" ELSE @]

\* Mutant: the level streak of the approach is left behind.
goneAround_KeepsLevelStreak(s, t) ==
  IF s.airborneStreak + 1 >= GO_AROUND_AIRBORNE_SAMPLES
  THEN [s EXCEPT !.phase = "climb", !.airborneStreak = 0]
  ELSE [s EXCEPT !.airborneStreak = @ + 1]

\* goneAround() while the aircraft is airborne: 'climb' once it has been for long enough.
goneAround(s, t) ==
  IF s.airborneStreak + 1 >= GO_AROUND_AIRBORNE_SAMPLES
  THEN [s EXCEPT !.phase = "climb", !.airborneStreak = 0, !.levelStreak = 0]
  ELSE [s EXCEPT !.airborneStreak = @ + 1]

\* Mutant: the takeoff roll without its hasLanded guard.
fromTaxi_RollsAgain(s, t) ==
  IF ~t.onGround
  THEN goneAround(s, t)
  ELSE [s EXCEPT !.airborneStreak = 0,
                 !.phase = IF t.gs = 3 /\ ~t.offRunway THEN "takeoff" ELSE @]

fromTaxi(s, t) ==
  IF ~t.onGround
  THEN goneAround(s, t)
  ELSE [s EXCEPT !.airborneStreak = 0,
                 !.phase = IF ~s.hasLanded /\ t.gs = 3 /\ ~t.offRunway
                           THEN "takeoff" ELSE @]

\* Mutant: bounces add up, a sample on the ground does not start the count again.
fromLanding_BouncesAddUp(s, t) ==
  IF ~t.onGround
  THEN goneAround(s, t)
  ELSE [s EXCEPT !.phase = IF t.gs < 3 THEN "taxi" ELSE @]

fromLanding(s, t) ==
  IF ~t.onGround
  THEN goneAround(s, t)
  ELSE [s EXCEPT !.airborneStreak = 0, !.phase = IF t.gs < 3 THEN "taxi" ELSE @]

\* Mutant: no way back from a rejected takeoff.
fromTakeoff_OnlyByFlying(s, t) == [s EXCEPT !.phase = IF ~t.onGround THEN "climb" ELSE @]

fromTakeoff(s, t) ==
  [s EXCEPT !.phase = IF ~t.onGround THEN "climb" ELSE IF t.gs < 3 THEN "taxi" ELSE @]

\* backOnGround() answered true: a landing the machine missed.
MissedLanding(s) ==
  [s EXCEPT !.phase = "landing", !.hasLanded = TRUE,
            !.groundStreak = 0, !.levelStreak = 0, !.descentStreak = 0]

backOnGround(s, t) == t.onGround /\ s.groundStreak + 1 >= GO_AROUND_AIRBORNE_SAMPLES

\* backOnGround() answered false: the streak it leaves behind.
OnGroundSamples(s, t) == IF t.onGround THEN s.groundStreak + 1 ELSE 0

\* Mutant: one sample more than the threshold.
LevelOff_OneLate(s, t) ==
  LET streak == IF t.vs = "level" THEN s.levelStreak + 1 ELSE 0
  IN  IF streak > LEVEL_SUSTAIN_SAMPLES
      THEN [s EXCEPT !.phase = "cruise", !.levelStreak = 0]
      ELSE [s EXCEPT !.levelStreak = streak]

\* Level for long enough is cruise, from 'climb' and from 'descent'.
LevelOff(s, t) ==
  LET streak == IF t.vs = "level" THEN s.levelStreak + 1 ELSE 0
  IN  IF streak >= LEVEL_SUSTAIN_SAMPLES
      THEN [s EXCEPT !.phase = "cruise", !.levelStreak = 0]
      ELSE [s EXCEPT !.levelStreak = streak]

fromClimb(s, t) ==
  IF backOnGround(s, t)
  THEN MissedLanding(s)
  ELSE LevelOff([s EXCEPT !.groundStreak = OnGroundSamples(s, t)], t)

fromCruise(s, t) ==
  LET streak == IF t.vs = "down" THEN s.descentStreak + 1 ELSE 0
      after  == [s EXCEPT !.groundStreak = OnGroundSamples(s, t)]
  IN  IF backOnGround(s, t)
      THEN MissedLanding(s)
      ELSE IF streak >= DESCENT_SUSTAIN_SAMPLES
      THEN [after EXCEPT !.phase = "descent", !.descentStreak = 0, !.levelStreak = 0]
      ELSE [after EXCEPT !.descentStreak = streak]

fromDescent(s, t) ==
  IF t.onGround THEN [s EXCEPT !.phase = "landing", !.hasLanded = TRUE]
                ELSE LevelOff(s, t)

ownTransition(s, t) ==
  CASE s.phase = "preflight" -> fromPreflight(s, t)
    [] s.phase = "pushback"  -> fromPushback(s, t)
    [] s.phase = "taxi"      -> fromTaxi(s, t)
    [] s.phase = "takeoff"   -> fromTakeoff(s, t)
    [] s.phase = "climb"     -> fromClimb(s, t)
    [] s.phase = "cruise"    -> fromCruise(s, t)
    [] s.phase = "descent"   -> fromDescent(s, t)
    [] s.phase = "landing"   -> fromLanding(s, t)
    [] s.phase = "shutdown"  -> s

shutDownIfParked(s, t, autoShutdown) ==
  IF autoShutdown /\ s.phase = "taxi" /\ Parked(t)
  THEN [s EXCEPT !.phase = "shutdown"]
  ELSE s

advancePhase(s, t, autoShutdown) == shutDownIfParked(ownTransition(s, t), t, autoShutdown)

\* The recording interval of the phase, in samples.
interval(s, t) ==
  CASE s.phase = "cruise"                -> 5
    [] s.phase = "climb"                 -> 2
    [] s.phase = "descent" /\ t.agl = 2  -> 5
    [] OTHER                             -> 1

-----------------------------------------------------------------------------
(* stepPhase(): the state after the sample, and whether it becomes a point. *)

ignored(t, paused) == paused \/ t.slew

\* A sample goes by: one more since the last point.
Aged(s) == [s EXCEPT !.sinceRecord = IF @ < Longest THEN @ + 1 ELSE @]

\* Whether the sample becomes a track point.
shouldRecord(s, t) == Aged(s).sinceRecord >= interval(s, t)

stepPhase(s, t, paused, autoShutdown) ==
  LET next == advancePhase(s, t, autoShutdown)
  IN  IF ignored(t, paused) THEN Aged(s)
      ELSE IF shouldRecord(next, t) THEN [next EXCEPT !.sinceRecord = 0]
      ELSE Aged(next)

recorded(s, t, paused, autoShutdown) ==
  ~ignored(t, paused) /\ shouldRecord(advancePhase(s, t, autoShutdown), t)

-----------------------------------------------------------------------------
(* touchdownStep(): wasOnGround is "unknown" before the first sample; the   *)
(* streak is counted up to MIN_AIRBORNE_SAMPLES_FOR_NEW_TOUCHDOWN, past     *)
(* which the code only compares it. The code states the two minima equal.   *)

MIN_AIRBORNE_SAMPLES_FOR_NEW_TOUCHDOWN == GO_AROUND_AIRBORNE_SAMPLES

TouchdownState == [wasOnGround : {"unknown", "ground", "air"},
                   airborneStreak : 0..MIN_AIRBORNE_SAMPLES_FOR_NEW_TOUCHDOWN,
                   airborneMoved : BOOLEAN]

initialTouchdownState ==
  [wasOnGround |-> "unknown", airborneStreak |-> 0, airborneMoved |-> FALSE]

isTouchdown(d, t) ==
  /\ d.wasOnGround = "air" /\ t.onGround
  /\ d.airborneStreak >= MIN_AIRBORNE_SAMPLES_FOR_NEW_TOUCHDOWN
  /\ d.airborneMoved

touchdownStep(d, t) ==
  [wasOnGround |-> IF t.onGround THEN "ground" ELSE "air",
   airborneStreak |-> IF t.onGround THEN 0
                      ELSE IF d.airborneStreak < MIN_AIRBORNE_SAMPLES_FOR_NEW_TOUCHDOWN
                      THEN d.airborneStreak + 1 ELSE d.airborneStreak,
   airborneMoved |-> ~t.onGround /\ (d.airborneMoved \/ t.gs > 0)]
=============================================================================
