------------------------- MODULE FlightPhaseProofs -------------------------
(***************************************************************************)
(* What FlightPhase's runs check on the thresholds of the code, proved for *)
(* every threshold and every set of samples.                               *)
(***************************************************************************)
EXTENDS FlightPhase, TLAPS

\* What every streak is in every phase, for a machine in state s after runs r: the streaks
\* a phase compares are no longer than the run (StreaksAreRuns), and those it leaves alone
\* rest at zero wherever a later phase would take them over.
StreaksFit(s, r) ==
  /\ s.phase \in {"climb", "descent"} => s.levelStreak <= r.level
  /\ s.phase = "cruise" => s.descentStreak <= r.descent
  /\ s.phase \in {"taxi", "landing"} => s.airborneStreak <= r.airborne
  /\ s.phase \in {"preflight", "pushback", "takeoff", "cruise"} => s.levelStreak = 0
  /\ s.phase \in {"taxi", "landing"} /\ ~s.hasLanded => s.levelStreak = 0
  /\ s.phase # "cruise" => s.descentStreak = 0
  /\ s.phase \in {"pushback", "takeoff", "climb", "cruise", "descent"} => s.airborneStreak = 0

IInv == TypeOK /\ StreaksFit(state, run)

-----------------------------------------------------------------------------
(* The machine, phase by phase.                                            *)

\* Which from...() function answers in which phase.
LEMMA OwnTransition ==
  ASSUME NEW s \in PhaseState, NEW t \in Telemetry
  PROVE  /\ s.phase = "preflight" => ownTransition(s, t) = fromPreflight(s, t)
         /\ s.phase = "pushback"  => ownTransition(s, t) = fromPushback(s, t)
         /\ s.phase = "taxi"      => ownTransition(s, t) = fromTaxi(s, t)
         /\ s.phase = "takeoff"   => ownTransition(s, t) = fromTakeoff(s, t)
         /\ s.phase = "climb"     => ownTransition(s, t) = fromClimb(s, t)
         /\ s.phase = "cruise"    => ownTransition(s, t) = fromCruise(s, t)
         /\ s.phase = "descent"   => ownTransition(s, t) = fromDescent(s, t)
         /\ s.phase = "landing"   => ownTransition(s, t) = fromLanding(s, t)
         /\ s.phase = "shutdown"  => ownTransition(s, t) = s
  BY DEF ownTransition

\* The ranges of the sustain counters: none is empty, and what is below the threshold is in.
LEMMA StreakRanges ==
  /\ 0 \in 0..(LEVEL_SUSTAIN_SAMPLES - 1)
  /\ 0 \in 0..(DESCENT_SUSTAIN_SAMPLES - 1)
  /\ 0 \in 0..(GO_AROUND_AIRBORNE_SAMPLES - 1)
  /\ \A n \in Nat : n < LEVEL_SUSTAIN_SAMPLES => n \in 0..(LEVEL_SUSTAIN_SAMPLES - 1)
  /\ \A n \in Nat : n < DESCENT_SUSTAIN_SAMPLES => n \in 0..(DESCENT_SUSTAIN_SAMPLES - 1)
  /\ \A n \in Nat : n < GO_AROUND_AIRBORNE_SAMPLES => n \in 0..(GO_AROUND_AIRBORNE_SAMPLES - 1)
BY ThresholdsAssumption

\* Every transition that stays on the ground, or leaves it from the gate, has this shape.
LEMMA GroundedTyped ==
  ASSUME NEW s \in PhaseState, NEW p \in Phases
  PROVE  [s EXCEPT !.airborneStreak = 0, !.phase = p] \in PhaseState
BY DEF PhaseState

LEMMA PreflightTyped ==
  ASSUME NEW s \in PhaseState, NEW t \in Telemetry
  PROVE  fromPreflight(s, t) \in PhaseState
<1> DEFINE streak == IF t.agl > 0 THEN s.airborneStreak + 1 ELSE 0
<1>1. streak \in Nat
  BY DEF PhaseState
<1>2. CASE t.onGround
  BY <1>2 DEF fromPreflight, PhaseState, Phases
<1>3. CASE ~t.onGround /\ streak < AIRBORNE_START_SAMPLES
  BY <1>3, <1>1 DEF fromPreflight, PhaseState
<1>4. CASE ~t.onGround /\ ~(streak < AIRBORNE_START_SAMPLES)
  <2> DEFINE seeded == CASE t.vs = "up"   -> "climb"
                         [] t.vs = "down" -> "descent"
                         [] OTHER         -> "cruise"
  <2>1. seeded \in Phases
    BY DEF Phases
  <2>2. fromPreflight(s, t) = [s EXCEPT !.airborneStreak = 0, !.phase = seeded]
    BY <1>4 DEF fromPreflight
  <2> HIDE DEF seeded
  <2> QED
    BY <2>1, <2>2, GroundedTyped
<1> QED
  BY <1>2, <1>3, <1>4

LEMMA GoneAroundTyped ==
  ASSUME NEW s \in PhaseState, NEW t \in Telemetry
  PROVE  goneAround(s, t) \in PhaseState
<1>1. CASE s.airborneStreak + 1 >= GO_AROUND_AIRBORNE_SAMPLES
  BY <1>1, StreakRanges DEF goneAround, PhaseState, Phases
<1>2. CASE ~(s.airborneStreak + 1 >= GO_AROUND_AIRBORNE_SAMPLES)
  BY <1>2 DEF goneAround, PhaseState
<1> QED
  BY <1>1, <1>2

LEMMA LevelOffTyped ==
  ASSUME NEW s \in PhaseState, NEW t \in Telemetry
  PROVE  LevelOff(s, t) \in PhaseState
<1> DEFINE streak == IF t.vs = "level" THEN s.levelStreak + 1 ELSE 0
<1>1. streak \in Nat
  BY ThresholdsAssumption DEF PhaseState
<1>2. CASE streak >= LEVEL_SUSTAIN_SAMPLES
  BY <1>2, StreakRanges DEF LevelOff, PhaseState, Phases
<1>3. CASE ~(streak >= LEVEL_SUSTAIN_SAMPLES)
  <2>1. streak \in 0..(LEVEL_SUSTAIN_SAMPLES - 1)
    BY <1>1, <1>3, ThresholdsAssumption
  <2>2. LevelOff(s, t) = [s EXCEPT !.levelStreak = streak]
    BY <1>3 DEF LevelOff
  <2> QED
    BY <2>1, <2>2 DEF PhaseState
<1> QED
  BY <1>2, <1>3

LEMMA MissedLandingTyped ==
  ASSUME NEW s \in PhaseState
  PROVE  MissedLanding(s) \in PhaseState
BY StreakRanges DEF MissedLanding, PhaseState, Phases

LEMMA GroundSamplesTyped ==
  ASSUME NEW s \in PhaseState, NEW t \in Telemetry, ~backOnGround(s, t)
  PROVE  [s EXCEPT !.groundStreak = OnGroundSamples(s, t)] \in PhaseState
<1>1. OnGroundSamples(s, t) \in 0..(GO_AROUND_AIRBORNE_SAMPLES - 1)
  BY ThresholdsAssumption DEF OnGroundSamples, backOnGround, PhaseState
<1> QED
  BY <1>1 DEF PhaseState

LEMMA CruiseTyped ==
  ASSUME NEW s \in PhaseState, NEW t \in Telemetry
  PROVE  fromCruise(s, t) \in PhaseState
<1> DEFINE streak == IF t.vs = "down" THEN s.descentStreak + 1 ELSE 0
           after  == [s EXCEPT !.groundStreak = OnGroundSamples(s, t)]
<1>1. CASE backOnGround(s, t)
  BY <1>1, MissedLandingTyped DEF fromCruise
<1>2. CASE ~backOnGround(s, t) /\ streak >= DESCENT_SUSTAIN_SAMPLES
  <2>1. after \in PhaseState
    BY <1>2, GroundSamplesTyped
  <2>2. fromCruise(s, t) = [after EXCEPT !.phase = "descent", !.descentStreak = 0, !.levelStreak = 0]
    BY <1>2 DEF fromCruise
  <2> HIDE DEF after
  <2> QED
    BY <2>1, <2>2, StreakRanges DEF PhaseState, Phases
<1>3. CASE ~backOnGround(s, t) /\ ~(streak >= DESCENT_SUSTAIN_SAMPLES)
  <2>1. after \in PhaseState
    BY <1>3, GroundSamplesTyped
  <2>2. streak \in 0..(DESCENT_SUSTAIN_SAMPLES - 1)
    BY <1>3, ThresholdsAssumption DEF PhaseState
  <2>3. fromCruise(s, t) = [after EXCEPT !.descentStreak = streak]
    BY <1>3 DEF fromCruise
  <2> HIDE DEF after, streak
  <2> QED
    BY <2>1, <2>2, <2>3 DEF PhaseState
<1> QED
  BY <1>1, <1>2, <1>3

\* No sample takes the machine out of its types, whatever phase it is in.
LEMMA OwnTransitionTyped ==
  ASSUME NEW s \in PhaseState, NEW t \in Telemetry
  PROVE  ownTransition(s, t) \in PhaseState
<1>1. CASE s.phase = "preflight"
  BY <1>1, OwnTransition, PreflightTyped
<1>2. CASE s.phase = "pushback"
  BY <1>2, OwnTransition DEF fromPushback, PhaseState, Phases
<1>3. CASE s.phase = "taxi"
  <2>1. CASE t.onGround
    <3> DEFINE next == IF ~s.hasLanded /\ t.gs = 3 /\ ~t.offRunway THEN "takeoff" ELSE "taxi"
    <3>1. ownTransition(s, t) = [s EXCEPT !.airborneStreak = 0, !.phase = next]
      BY ZenonT(60), <1>3, <2>1, OwnTransition DEF fromTaxi, PhaseState
    <3>2. next \in Phases
      BY DEF Phases
    <3> HIDE DEF next
    <3> QED
      BY <3>1, <3>2, GroundedTyped
  <2>2. CASE ~t.onGround
    BY <1>3, <2>2, OwnTransition, GoneAroundTyped DEF fromTaxi
  <2> QED
    BY <2>1, <2>2
<1>4. CASE s.phase = "takeoff"
  BY <1>4, OwnTransition DEF fromTakeoff, PhaseState, Phases
<1>5. CASE s.phase = "climb"
  <2>1. CASE backOnGround(s, t)
    BY <1>5, <2>1, OwnTransition, MissedLandingTyped DEF fromClimb
  <2>2. CASE ~backOnGround(s, t)
    BY <1>5, <2>2, OwnTransition, GroundSamplesTyped, LevelOffTyped DEF fromClimb
  <2> QED
    BY <2>1, <2>2
<1>6. CASE s.phase = "cruise"
  BY <1>6, OwnTransition, CruiseTyped
<1>7. CASE s.phase = "descent"
  <2>1. CASE t.onGround
    BY ZenonT(60), <1>7, <2>1, OwnTransition DEF fromDescent, PhaseState, Phases
  <2>2. CASE ~t.onGround
    BY <1>7, <2>2, OwnTransition, LevelOffTyped DEF fromDescent
  <2> QED
    BY <2>1, <2>2
<1>8. CASE s.phase = "landing"
  <2>1. CASE t.onGround
    <3> DEFINE next == IF t.gs < 3 THEN "taxi" ELSE "landing"
    <3>1. ownTransition(s, t) = [s EXCEPT !.airborneStreak = 0, !.phase = next]
      BY ZenonT(60), <1>8, <2>1, OwnTransition DEF fromLanding, PhaseState
    <3>2. next \in Phases
      BY DEF Phases
    <3> HIDE DEF next
    <3> QED
      BY <3>1, <3>2, GroundedTyped
  <2>2. CASE ~t.onGround
    BY <1>8, <2>2, OwnTransition, GoneAroundTyped DEF fromLanding
  <2> QED
    BY <2>1, <2>2
<1>9. CASE s.phase = "shutdown"
  BY <1>9, OwnTransition
<1> QED
  BY <1>1, <1>2, <1>3, <1>4, <1>5, <1>6, <1>7, <1>8, <1>9 DEF PhaseState, Phases

LEMMA AdvanceTyped ==
  ASSUME NEW s \in PhaseState, NEW t \in Telemetry, NEW auto \in BOOLEAN
  PROVE  advancePhase(s, t, auto) \in PhaseState
BY OwnTransitionTyped DEF advancePhase, shutDownIfParked, PhaseState, Phases

LEMMA StepTyped ==
  ASSUME NEW s \in PhaseState, NEW t \in Telemetry, NEW paused \in BOOLEAN, NEW auto \in BOOLEAN
  PROVE  stepPhase(s, t, paused, auto) \in PhaseState
<1>1. advancePhase(s, t, auto) \in PhaseState
  BY AdvanceTyped
<1>2. ASSUME NEW n \in PhaseState
      PROVE  Aged(n) \in PhaseState /\ [n EXCEPT !.sinceRecord = 0] \in PhaseState
  BY DEF Aged, Longest, PhaseState
<1> QED
  BY <1>1, <1>2 DEF stepPhase

\* A step of the recorder is a step of the phase machine as far as phase, streaks and
\* hasLanded go: recording only moves sinceRecord.
SameMachine(a, b) ==
  /\ a.phase = b.phase /\ a.hasLanded = b.hasLanded
  /\ a.levelStreak = b.levelStreak /\ a.descentStreak = b.descentStreak
  /\ a.airborneStreak = b.airborneStreak /\ a.groundStreak = b.groundStreak

LEMMA StepAdvances ==
  ASSUME NEW s \in PhaseState, NEW t \in Telemetry, NEW paused \in BOOLEAN, NEW auto \in BOOLEAN
  PROVE  SameMachine(stepPhase(s, t, paused, auto),
                     IF ignored(t, paused) THEN s ELSE advancePhase(s, t, auto))
<1>1. ASSUME NEW n \in PhaseState
      PROVE  SameMachine(Aged(n), n) /\ SameMachine([n EXCEPT !.sinceRecord = 0], n)
  BY DEF SameMachine, Aged, PhaseState
<1> QED
  BY <1>1, AdvanceTyped DEF stepPhase

\* Automatic finishing only turns 'taxi' into 'shutdown'.
LEMMA AdvanceIsOwn ==
  ASSUME NEW s \in PhaseState, NEW t \in Telemetry, NEW auto \in BOOLEAN
  PROVE  LET o == ownTransition(s, t)
             a == advancePhase(s, t, auto)
         IN  a = o \/ (o.phase = "taxi" /\ a = [o EXCEPT !.phase = "shutdown"])
BY DEF advancePhase, shutDownIfParked

-----------------------------------------------------------------------------
(* The streaks, phase by phase.                                            *)

LEMMA RunsTyped ==
  ASSUME run \in Runs, NEW t \in Telemetry
  PROVE  NextRun(t) \in Runs
<1>1. ASSUME NEW longest \in Nat, NEW n \in 0..longest, NEW holds \in BOOLEAN
      PROVE  Count(n, holds, longest) \in 0..longest
  BY DEF Count
<1> QED
  BY <1>1, ThresholdsAssumption DEF NextRun, Runs, Telemetry

\* What the helpers of the transitions do to the fields the invariant speaks of.
LEMMA GoneAroundFields ==
  ASSUME NEW s \in PhaseState, NEW t \in Telemetry
  PROVE  LET g == goneAround(s, t) IN
         /\ g.hasLanded = s.hasLanded /\ g.descentStreak = s.descentStreak
         /\ s.airborneStreak + 1 >= GO_AROUND_AIRBORNE_SAMPLES
              => g.phase = "climb" /\ g.airborneStreak = 0 /\ g.levelStreak = 0
         /\ ~(s.airborneStreak + 1 >= GO_AROUND_AIRBORNE_SAMPLES)
              => /\ g.phase = s.phase /\ g.levelStreak = s.levelStreak
                 /\ g.airborneStreak = s.airborneStreak + 1
BY DEF goneAround, PhaseState

LEMMA RolloutFields ==
  ASSUME NEW s \in PhaseState, NEW t \in Telemetry, s.phase \in {"taxi", "landing"}, t.onGround
  PROVE  LET o == ownTransition(s, t) IN
         /\ o.phase \in {"taxi", "takeoff", "landing"}
         /\ o.phase = "takeoff" => ~s.hasLanded
         /\ o.hasLanded = s.hasLanded /\ o.levelStreak = s.levelStreak
         /\ o.descentStreak = s.descentStreak /\ o.airborneStreak = 0
<1> DEFINE o == ownTransition(s, t)
<1>1. CASE s.phase = "taxi"
  <2>1. \/ o = [s EXCEPT !.airborneStreak = 0, !.phase = "taxi"]
        \/ ~s.hasLanded /\ o = [s EXCEPT !.airborneStreak = 0, !.phase = "takeoff"]
    BY ZenonT(60), <1>1, OwnTransition DEF fromTaxi, PhaseState
  <2> QED
    BY <2>1 DEF PhaseState
<1>2. CASE s.phase = "landing"
  <2>1. o = [s EXCEPT !.airborneStreak = 0, !.phase = IF t.gs < 3 THEN "taxi" ELSE @]
    BY <1>2, OwnTransition DEF fromLanding
  <2> QED
    BY <1>2, <2>1 DEF PhaseState
<1> QED
  BY <1>1, <1>2

LEMMA DescentFields ==
  ASSUME NEW s \in PhaseState, NEW t \in Telemetry, s.phase = "descent", t.onGround
  PROVE  LET o == ownTransition(s, t) IN
         /\ o.phase = "landing" /\ o.hasLanded
         /\ o.descentStreak = s.descentStreak /\ o.airborneStreak = s.airborneStreak
BY OwnTransition DEF fromDescent, PhaseState

LEMMA LevelOffFields ==
  ASSUME NEW s \in PhaseState, NEW t \in Telemetry
  PROVE  LET l == LevelOff(s, t) IN
         /\ l.hasLanded = s.hasLanded /\ l.descentStreak = s.descentStreak
         /\ l.airborneStreak = s.airborneStreak
         /\ t.vs # "level" /\ ~(0 >= LEVEL_SUSTAIN_SAMPLES)
              => l.phase = s.phase /\ l.levelStreak = 0
         /\ t.vs = "level" /\ s.levelStreak + 1 >= LEVEL_SUSTAIN_SAMPLES
              => l.phase = "cruise" /\ l.levelStreak = 0
         /\ t.vs = "level" /\ ~(s.levelStreak + 1 >= LEVEL_SUSTAIN_SAMPLES)
              => l.phase = s.phase /\ l.levelStreak = s.levelStreak + 1
BY DEF LevelOff, PhaseState

LEMMA MissedLandingFields ==
  ASSUME NEW s \in PhaseState
  PROVE  LET l == MissedLanding(s) IN
         /\ l.phase = "landing" /\ l.hasLanded
         /\ l.levelStreak = 0 /\ l.descentStreak = 0 /\ l.airborneStreak = s.airborneStreak
BY DEF MissedLanding, PhaseState

LEMMA CruiseFields ==
  ASSUME NEW s \in PhaseState, NEW t \in Telemetry, ~backOnGround(s, t)
  PROVE  LET c == fromCruise(s, t) IN
         /\ c.hasLanded = s.hasLanded /\ c.airborneStreak = s.airborneStreak
         /\ t.vs # "down" /\ ~(0 >= DESCENT_SUSTAIN_SAMPLES)
              => c.phase = s.phase /\ c.descentStreak = 0 /\ c.levelStreak = s.levelStreak
         /\ t.vs = "down" /\ s.descentStreak + 1 >= DESCENT_SUSTAIN_SAMPLES
              => c.phase = "descent" /\ c.descentStreak = 0 /\ c.levelStreak = 0
         /\ t.vs = "down" /\ ~(s.descentStreak + 1 >= DESCENT_SUSTAIN_SAMPLES)
              => /\ c.phase = s.phase /\ c.levelStreak = s.levelStreak
                 /\ c.descentStreak = s.descentStreak + 1
BY DEF fromCruise, PhaseState

LEMMA OwnTransitionFits ==
  ASSUME NEW t \in Telemetry, TypeOK, StreaksFit(state, run)
  PROVE  StreaksFit(ownTransition(state, t), NextRun(t))
<1> DEFINE o == ownTransition(state, t)
           r == NextRun(t)
<1>1. state \in PhaseState /\ run \in Runs
  BY DEF TypeOK
<1>2. /\ state.levelStreak \in Nat /\ state.descentStreak \in Nat /\ state.airborneStreak \in Nat
      /\ run.level \in 0..LEVEL_SUSTAIN_SAMPLES /\ run.descent \in 0..DESCENT_SUSTAIN_SAMPLES
      /\ run.airborne \in 0..GO_AROUND_AIRBORNE_SAMPLES
      /\ LEVEL_SUSTAIN_SAMPLES \in Nat /\ ~(0 >= LEVEL_SUSTAIN_SAMPLES)
      /\ DESCENT_SUSTAIN_SAMPLES \in Nat /\ ~(0 >= DESCENT_SUSTAIN_SAMPLES)
      /\ GO_AROUND_AIRBORNE_SAMPLES \in Nat
  BY <1>1, ThresholdsAssumption DEF PhaseState, Runs
<1>3. /\ r.level \in Nat /\ r.descent \in Nat /\ r.airborne \in Nat
      /\ t.vs = "level" => r.level = Count(run.level, TRUE, LEVEL_SUSTAIN_SAMPLES)
      /\ t.vs = "down" => r.descent = Count(run.descent, TRUE, DESCENT_SUSTAIN_SAMPLES)
      /\ ~t.onGround => r.airborne = Count(run.airborne, TRUE, GO_AROUND_AIRBORNE_SAMPLES)
  <2>1. r \in Runs
    BY <1>1, RunsTyped
  <2> QED
    BY <1>2, <2>1 DEF Runs, NextRun, Count
<1>4. CASE state.phase = "preflight"
  <2>1. /\ o.phase \in {"preflight", "pushback", "climb", "cruise", "descent"}
        /\ o.phase # "preflight" => o.airborneStreak = 0
        /\ o.levelStreak = 0 /\ o.descentStreak = 0
    <3>1. CASE t.onGround
      BY ZenonT(60), <1>1, <1>4, <3>1, OwnTransition DEF fromPreflight, PhaseState, StreaksFit
    <3>2. CASE ~t.onGround
      <4> DEFINE seeded == CASE t.vs = "up"   -> "climb"
                             [] t.vs = "down" -> "descent"
                             [] OTHER         -> "cruise"
                 streak == IF t.agl > 0 THEN state.airborneStreak + 1 ELSE 0
      <4>1. seeded \in {"climb", "descent", "cruise"}
        OBVIOUS
      <4>2. \/ o = [state EXCEPT !.airborneStreak = streak]
            \/ o = [state EXCEPT !.airborneStreak = 0, !.phase = seeded]
        BY <1>1, <1>4, <3>2, OwnTransition DEF fromPreflight
      <4> HIDE DEF seeded, streak
      <4> QED
        BY <1>1, <1>4, <4>1, <4>2 DEF PhaseState, StreaksFit
    <3> QED
      BY <3>1, <3>2
  <2> QED
    BY <2>1, <1>3 DEF StreaksFit
<1>5. CASE state.phase = "pushback"
  <2>1. /\ o.phase \in {"pushback", "taxi"}
        /\ o.levelStreak = 0 /\ o.descentStreak = 0 /\ o.airborneStreak = 0
    BY <1>1, <1>5, OwnTransition DEF fromPushback, PhaseState, StreaksFit
  <2> QED
    BY <2>1, <1>3 DEF StreaksFit
<1>6. CASE state.phase \in {"taxi", "landing"} /\ t.onGround
  BY <1>1, <1>3, <1>6, RolloutFields DEF StreaksFit
<1>7. CASE state.phase \in {"taxi", "landing"} /\ ~t.onGround
  <2>1. o = goneAround(state, t)
    BY <1>1, <1>7, OwnTransition DEF fromTaxi, fromLanding
  <2>2. state.airborneStreak <= run.airborne
    BY <1>7 DEF StreaksFit
  <2>3. CASE state.airborneStreak + 1 >= GO_AROUND_AIRBORNE_SAMPLES
    BY <1>1, <1>3, <1>7, <2>1, <2>3, GoneAroundFields DEF StreaksFit
  <2>4. CASE ~(state.airborneStreak + 1 >= GO_AROUND_AIRBORNE_SAMPLES)
    <3>1. state.airborneStreak + 1 <= r.airborne
      BY <1>2, <1>3, <1>7, <2>2, <2>4 DEF Count
    <3> QED
      BY <1>1, <1>7, <2>1, <2>4, <3>1, GoneAroundFields DEF StreaksFit
  <2> QED
    BY <2>3, <2>4
<1>8. CASE state.phase = "takeoff"
  <2>1. /\ o.phase \in {"takeoff", "taxi", "climb"}
        /\ o.levelStreak = 0 /\ o.descentStreak = 0 /\ o.airborneStreak = 0
    BY <1>1, <1>8, OwnTransition DEF fromTakeoff, PhaseState, StreaksFit
  <2> QED
    BY <2>1, <1>3 DEF StreaksFit
\* The samples in which 'climb' or 'descent' may level off.
<1>9. ASSUME NEW s \in PhaseState, s.phase \in {"climb", "descent"}, s.levelStreak <= run.level,
             s.descentStreak = 0, s.airborneStreak = 0
      PROVE  StreaksFit(LevelOff(s, t), r)
  <2> DEFINE l == LevelOff(s, t)
  <2>1. /\ l.descentStreak = 0 /\ l.airborneStreak = 0 /\ s.levelStreak \in Nat
    BY <1>9, LevelOffFields DEF PhaseState
  <2>2. CASE t.vs # "level"
    BY <1>2, <1>3, <1>9, <2>1, <2>2, LevelOffFields DEF StreaksFit
  <2>3. CASE t.vs = "level" /\ s.levelStreak + 1 >= LEVEL_SUSTAIN_SAMPLES
    BY <1>3, <2>1, <2>3, LevelOffFields DEF StreaksFit
  <2>4. CASE t.vs = "level" /\ ~(s.levelStreak + 1 >= LEVEL_SUSTAIN_SAMPLES)
    <3>1. s.levelStreak + 1 <= r.level
      BY <1>2, <1>3, <1>9, <2>1, <2>4 DEF Count
    <3>2. l.phase = s.phase /\ l.levelStreak = s.levelStreak + 1
      BY <2>4, LevelOffFields
    <3> QED
      BY <1>9, <2>1, <3>1, <3>2 DEF StreaksFit
  <2> QED
    BY <2>2, <2>3, <2>4
<1>10. CASE state.phase \in {"climb", "cruise"} /\ backOnGround(state, t)
  <2>1. o = MissedLanding(state)
    BY <1>1, <1>10, OwnTransition DEF fromClimb, fromCruise
  <2>2. state.airborneStreak = 0
    BY <1>10 DEF StreaksFit
  <2> QED
    BY <1>1, <1>3, <2>1, <2>2, MissedLandingFields DEF StreaksFit
<1>11. CASE state.phase = "climb" /\ ~backOnGround(state, t)
  <2> DEFINE s == [state EXCEPT !.groundStreak = OnGroundSamples(state, t)]
  <2>1. o = LevelOff(s, t)
    BY <1>1, <1>11, OwnTransition DEF fromClimb
  <2>2. s \in PhaseState
    BY <1>1, <1>11, GroundSamplesTyped
  <2>3. /\ s.phase = "climb" /\ s.levelStreak <= run.level
        /\ s.descentStreak = 0 /\ s.airborneStreak = 0
    BY <1>1, <1>11 DEF StreaksFit, PhaseState
  <2> HIDE DEF s
  <2> QED
    BY <1>9, <2>1, <2>2, <2>3
<1>12. CASE state.phase = "cruise" /\ ~backOnGround(state, t)
  <2>1. o = fromCruise(state, t) /\ state.descentStreak <= run.descent
        /\ state.levelStreak = 0 /\ state.airborneStreak = 0
    BY <1>1, <1>12, OwnTransition DEF StreaksFit
  <2>2. CASE t.vs # "down"
    BY <1>1, <1>2, <1>3, <1>12, <2>1, <2>2, CruiseFields DEF StreaksFit
  <2>3. CASE t.vs = "down" /\ state.descentStreak + 1 >= DESCENT_SUSTAIN_SAMPLES
    BY <1>1, <1>3, <1>12, <2>1, <2>3, CruiseFields DEF StreaksFit
  <2>4. CASE t.vs = "down" /\ ~(state.descentStreak + 1 >= DESCENT_SUSTAIN_SAMPLES)
    <3>1. state.descentStreak + 1 <= r.descent
      BY <1>2, <1>3, <2>1, <2>4 DEF Count
    <3> QED
      BY <1>1, <1>12, <2>1, <2>4, <3>1, CruiseFields DEF StreaksFit
  <2> QED
    BY <2>2, <2>3, <2>4
<1>13. CASE state.phase = "descent" /\ t.onGround
  BY <1>1, <1>3, <1>13, DescentFields DEF StreaksFit
<1>14. CASE state.phase = "descent" /\ ~t.onGround
  <2>1. o = LevelOff(state, t)
    BY <1>1, <1>14, OwnTransition DEF fromDescent
  <2>2. state.levelStreak <= run.level /\ state.descentStreak = 0 /\ state.airborneStreak = 0
    BY <1>14 DEF StreaksFit
  <2> QED
    BY <1>1, <1>9, <1>14, <2>1, <2>2
<1>15. CASE state.phase = "shutdown"
  BY <1>1, <1>15, OwnTransition DEF StreaksFit
<1> QED
  BY <1>1, <1>4, <1>5, <1>6, <1>7, <1>8, <1>10, <1>11, <1>12, <1>13, <1>14, <1>15
     DEF PhaseState, Phases

\* One sample of a recorder that is not paused, and what it can only do after a run.
LEMMA OwnTransitionSustained ==
  ASSUME NEW t \in Telemetry, TypeOK, StreaksFit(state, run)
  PROVE  LET o == ownTransition(state, t)
             r == NextRun(t)
         IN  /\ state.phase \in {"taxi", "landing"} /\ o.phase = "climb"
                  => r.airborne = GO_AROUND_AIRBORNE_SAMPLES
             /\ state.phase \in {"climb", "descent"} /\ o.phase = "cruise"
                  => r.level = LEVEL_SUSTAIN_SAMPLES
             /\ state.phase = "cruise" /\ o.phase = "descent"
                  => r.descent = DESCENT_SUSTAIN_SAMPLES
<1> DEFINE o == ownTransition(state, t)
           r == NextRun(t)
<1>1. state \in PhaseState /\ run \in Runs
  BY DEF TypeOK
<1>2. /\ state.levelStreak \in Nat /\ state.descentStreak \in Nat /\ state.airborneStreak \in Nat
      /\ run.level \in 0..LEVEL_SUSTAIN_SAMPLES /\ run.descent \in 0..DESCENT_SUSTAIN_SAMPLES
      /\ run.airborne \in 0..GO_AROUND_AIRBORNE_SAMPLES
      /\ LEVEL_SUSTAIN_SAMPLES \in Nat /\ ~(0 >= LEVEL_SUSTAIN_SAMPLES)
      /\ DESCENT_SUSTAIN_SAMPLES \in Nat /\ ~(0 >= DESCENT_SUSTAIN_SAMPLES)
      /\ GO_AROUND_AIRBORNE_SAMPLES \in Nat
  BY <1>1, ThresholdsAssumption DEF PhaseState, Runs
<1>3. ASSUME state.phase \in {"taxi", "landing"}, o.phase = "climb"
      PROVE  r.airborne = GO_AROUND_AIRBORNE_SAMPLES
  <2>1. ~t.onGround
    BY <1>1, <1>3, RolloutFields
  <2>2. o = goneAround(state, t)
    BY <1>1, <1>3, <2>1, OwnTransition DEF fromTaxi, fromLanding
  <2>3. state.airborneStreak + 1 >= GO_AROUND_AIRBORNE_SAMPLES
    BY <1>1, <1>3, <2>2, GoneAroundFields
  <2>4. state.airborneStreak <= run.airborne
    BY <1>3 DEF StreaksFit
  <2> QED
    BY <1>2, <2>1, <2>3, <2>4 DEF NextRun, Count
<1>4. ASSUME NEW s \in PhaseState, s.phase # "cruise", s.levelStreak <= run.level,
             LevelOff(s, t).phase = "cruise"
      PROVE  r.level = LEVEL_SUSTAIN_SAMPLES
  <2>1. t.vs = "level" /\ s.levelStreak + 1 >= LEVEL_SUSTAIN_SAMPLES
    BY <1>2, <1>4, LevelOffFields
  <2>2. s.levelStreak \in Nat
    BY <1>4 DEF PhaseState
  <2> QED
    BY <1>2, <1>4, <2>1, <2>2 DEF NextRun, Count
<1>5. ASSUME state.phase \in {"climb", "descent"}, o.phase = "cruise"
      PROVE  r.level = LEVEL_SUSTAIN_SAMPLES
  <2>1. state.levelStreak <= run.level
    BY <1>5 DEF StreaksFit
  <2>2. CASE state.phase = "climb"
    <3> DEFINE s == [state EXCEPT !.groundStreak = OnGroundSamples(state, t)]
    <3>1. ~backOnGround(state, t)
      BY <1>1, <1>5, <2>2, OwnTransition, MissedLandingFields DEF fromClimb
    <3>2. s \in PhaseState
      BY <1>1, <3>1, GroundSamplesTyped
    <3>3. o = LevelOff(s, t)
      BY <1>1, <2>2, <3>1, OwnTransition DEF fromClimb
    <3>4. s.phase = "climb" /\ s.levelStreak = state.levelStreak
      BY <1>1, <2>2 DEF PhaseState
    <3> HIDE DEF s
    <3> QED
      BY <1>4, <1>5, <2>1, <3>2, <3>3, <3>4
  <2>3. CASE state.phase = "descent"
    <3>1. ~t.onGround
      BY <1>1, <1>5, <2>3, DescentFields
    <3>2. o = LevelOff(state, t)
      BY <1>1, <2>3, <3>1, OwnTransition DEF fromDescent
    <3> QED
      BY <1>1, <1>4, <1>5, <2>1, <2>3, <3>2
  <2> QED
    BY <1>5, <2>2, <2>3
<1>6. ASSUME state.phase = "cruise", o.phase = "descent"
      PROVE  r.descent = DESCENT_SUSTAIN_SAMPLES
  <2>1. ~backOnGround(state, t)
    BY <1>1, <1>6, OwnTransition, MissedLandingFields DEF fromCruise
  <2>2. o = fromCruise(state, t)
    BY <1>1, <1>6, OwnTransition
  <2>3. t.vs = "down" /\ state.descentStreak + 1 >= DESCENT_SUSTAIN_SAMPLES
    BY <1>1, <1>2, <1>6, <2>1, <2>2, CruiseFields
  <2>4. state.descentStreak <= run.descent
    BY <1>6 DEF StreaksFit
  <2> QED
    BY <1>2, <2>3, <2>4 DEF NextRun, Count
<1> QED
  BY <1>3, <1>5, <1>6

\* hasLanded is never cleared, and a flight that has landed starts no takeoff roll.
LEMMA OwnTransitionKeepsLanded ==
  ASSUME NEW s \in PhaseState, NEW t \in Telemetry, s.hasLanded
  PROVE  LET o == ownTransition(s, t)
         IN  o.hasLanded /\ (o.phase = "takeoff" => s.phase = "takeoff")
<1> DEFINE o == ownTransition(s, t)
<1>1. CASE s.phase = "preflight"
  <2> DEFINE seeded == CASE t.vs = "up"   -> "climb"
                         [] t.vs = "down" -> "descent"
                         [] OTHER         -> "cruise"
             streak == IF t.agl > 0 THEN s.airborneStreak + 1 ELSE 0
             leaves == IF t.gs > 0 \/ t.engine THEN "pushback" ELSE "preflight"
  <2>1. seeded # "takeoff" /\ leaves # "takeoff"
    OBVIOUS
  <2>2. \/ o = [s EXCEPT !.airborneStreak = 0, !.phase = leaves]
        \/ o = [s EXCEPT !.airborneStreak = streak]
        \/ o = [s EXCEPT !.airborneStreak = 0, !.phase = seeded]
    BY ZenonT(60), <1>1, OwnTransition DEF fromPreflight, PhaseState
  <2> HIDE DEF seeded, streak, leaves
  <2> QED
    BY <1>1, <2>1, <2>2 DEF PhaseState
<1>2. CASE s.phase = "pushback"
  BY <1>2, OwnTransition DEF fromPushback, PhaseState
<1>3. CASE s.phase \in {"taxi", "landing"} /\ t.onGround
  BY <1>3, RolloutFields
<1>4. CASE s.phase \in {"taxi", "landing"} /\ ~t.onGround
  <2>1. o = goneAround(s, t)
    BY <1>4, OwnTransition DEF fromTaxi, fromLanding
  <2>2. o.hasLanded /\ o.phase \in {s.phase, "climb"}
    BY <2>1, GoneAroundFields
  <2> QED
    BY <1>4, <2>2
<1>5. CASE s.phase = "takeoff"
  BY <1>5, OwnTransition DEF fromTakeoff, PhaseState
<1>6. ASSUME NEW n \in PhaseState
      PROVE  LevelOff(n, t).hasLanded = n.hasLanded /\ LevelOff(n, t).phase \in {n.phase, "cruise"}
  BY DEF LevelOff, PhaseState
<1>7. CASE s.phase \in {"climb", "cruise"} /\ backOnGround(s, t)
  BY <1>7, OwnTransition, MissedLandingFields DEF fromClimb, fromCruise
<1>8. CASE s.phase = "climb" /\ ~backOnGround(s, t)
  <2> DEFINE n == [s EXCEPT !.groundStreak = OnGroundSamples(s, t)]
  <2>1. n \in PhaseState /\ n.phase = "climb" /\ n.hasLanded
    BY <1>8, GroundSamplesTyped DEF PhaseState
  <2>2. o = LevelOff(n, t)
    BY <1>8, OwnTransition DEF fromClimb
  <2> HIDE DEF n
  <2> QED
    BY <1>6, <2>1, <2>2
<1>9. CASE s.phase = "cruise" /\ ~backOnGround(s, t)
  BY <1>9, OwnTransition, CruiseFields, ThresholdsAssumption
<1>10. CASE s.phase = "descent" /\ t.onGround
  BY <1>10, DescentFields
<1>11. CASE s.phase = "descent" /\ ~t.onGround
  BY <1>6, <1>11, OwnTransition DEF fromDescent
<1>12. CASE s.phase = "shutdown"
  BY <1>12, OwnTransition
<1> QED
  BY <1>1, <1>2, <1>3, <1>4, <1>5, <1>7, <1>8, <1>9, <1>10, <1>11, <1>12 DEF PhaseState, Phases

-----------------------------------------------------------------------------
(* The theorems.                                                           *)

\* One sample, with or without the recorder looking at it.
LEMMA IngestKeepsIInv ==
  ASSUME IInv, NEW t \in Samples, ingest(t)
  PROVE  IInv'
<1>1. t \in Telemetry /\ state \in PhaseState /\ run \in Runs
      /\ settings.paused \in BOOLEAN /\ settings.autoShutdown \in BOOLEAN
  BY SamplesAssumption DEF IInv, TypeOK
<1>2. TypeOK'
  <2>1. state' \in PhaseState
    BY <1>1, StepTyped DEF ingest
  <2>2. run' \in Runs
    BY <1>1, RunsTyped DEF ingest
  <2>3. last' \in Kinds /\ tick' \in BOOLEAN
    BY DEF ingest, Kind, Kinds
  <2> QED
    BY <2>1, <2>2, <2>3 DEF TypeOK, ingest, IInv
<1>3. StreaksFit(state', run')
  <2> DEFINE o == ownTransition(state, t)
             a == advancePhase(state, t, settings.autoShutdown)
  <2>1. SameMachine(state', IF ignored(t, settings.paused) THEN state ELSE a)
    BY <1>1, StepAdvances DEF ingest
  <2>2. CASE ignored(t, settings.paused)
    BY <2>1, <2>2 DEF SameMachine, StreaksFit, ingest, IInv
  <2>3. CASE ~ignored(t, settings.paused)
    <3>1. StreaksFit(o, run')
      BY <1>1, <2>3, OwnTransitionFits DEF ingest, IInv
    <3>2. a = o \/ (o.phase = "taxi" /\ a = [o EXCEPT !.phase = "shutdown"])
      BY <1>1, AdvanceIsOwn
    <3>3. o \in PhaseState
      BY <1>1, OwnTransitionTyped
    <3>4. StreaksFit(a, run')
      <4>1. CASE a = o
        BY <3>1, <4>1
      <4>2. CASE o.phase = "taxi" /\ a = [o EXCEPT !.phase = "shutdown"]
        <5>1. a.phase = "shutdown" /\ a.descentStreak = o.descentStreak
          BY <3>3, <4>2 DEF PhaseState
        <5> HIDE DEF a, o
        <5> QED
          BY <3>1, <4>2, <5>1 DEF StreaksFit
      <4> QED
        BY <3>2, <4>1, <4>2
    <3>5. SameMachine(state', a)
      BY <2>1, <2>3
    <3> HIDE DEF a
    <3> QED
      BY <3>4, <3>5 DEF SameMachine, StreaksFit
  <2> QED
    BY <2>2, <2>3
<1> QED
  BY <1>2, <1>3 DEF IInv

LEMMA InitIInv == Init => IInv
<1> SUFFICES ASSUME Init PROVE IInv
  OBVIOUS
<1>1. PICK phase \in Phases, hasLanded \in BOOLEAN : state = NewPhaseState(phase, hasLanded)
  BY DEF Init
<1>2. state \in PhaseState
  BY <1>1, StreakRanges DEF NewPhaseState, PhaseState, Longest
<1>3. run \in Runs
  BY ThresholdsAssumption DEF Init, Runs
<1>4. StreaksFit(state, run)
  BY <1>1 DEF Init, NewPhaseState, StreaksFit
<1> QED
  BY <1>2, <1>3, <1>4 DEF Init, IInv, TypeOK, Kinds

LEMMA NextIInv == IInv /\ [Next]_vars => IInv'
<1> SUFFICES ASSUME IInv, [Next]_vars PROVE IInv'
  OBVIOUS
<1>1. CASE \E t \in Samples : ingest(t)
  BY <1>1, IngestKeepsIInv
<1>2. CASE \E paused \in BOOLEAN : setPaused(paused)
  BY <1>2 DEF setPaused, IInv, TypeOK
<1>3. CASE \E enabled \in BOOLEAN : setAutoShutdown(enabled)
  BY <1>3 DEF setAutoShutdown, IInv, TypeOK
<1>4. CASE UNCHANGED vars
  BY <1>4 DEF vars, IInv, TypeOK
<1> QED
  BY <1>1, <1>2, <1>3, <1>4 DEF Next

THEOREM InductiveInvariant == Spec => []IInv
<1> QED
  BY InitIInv, NextIInv, PTL DEF Spec

\* Type correctness: no counter of the recorder ever leaves the range below its threshold.
THEOREM TypeCorrect == Spec => []TypeOK
<1>1. IInv => TypeOK
  BY DEF IInv
<1> QED
  BY <1>1, InductiveInvariant, PTL

\* The counts of level, descending and airborne samples are runs of consecutive samples,
\* whichever phase compares them, for every threshold.
THEOREM StreaksAreRunsAlways == Spec => []StreaksAreRuns
<1>1. IInv => StreaksAreRuns
  BY DEF IInv, StreaksFit, StreaksAreRuns
<1> QED
  BY <1>1, InductiveInvariant, PTL

\* The go-around, cruise and descent transitions wait for their sustained samples, for
\* every threshold: no bounce is a go-around, no level-off hunt a descent.
THEOREM NoHastyTransitionEver == Spec => NoHastyTransition
<1>1. IInv /\ [Next]_vars => [TransitionsAreSustained]_vars
  <2> SUFFICES ASSUME IInv, Next PROVE TransitionsAreSustained
    OBVIOUS
  <2>1. ASSUME NEW t \in Samples, ingest(t)
        PROVE  TransitionsAreSustained
    <3> DEFINE o == ownTransition(state, t)
               a == advancePhase(state, t, settings.autoShutdown)
    <3>1. t \in Telemetry /\ state \in PhaseState
          /\ settings.paused \in BOOLEAN /\ settings.autoShutdown \in BOOLEAN
      BY SamplesAssumption DEF IInv, TypeOK
    <3>2. SameMachine(state', IF ignored(t, settings.paused) THEN state ELSE a)
      BY <2>1, <3>1, StepAdvances DEF ingest
    <3>3. CASE ignored(t, settings.paused)
      BY <3>2, <3>3 DEF SameMachine, TransitionsAreSustained, Moves
    <3>4. CASE ~ignored(t, settings.paused)
      <4>1. run' = NextRun(t) /\ state'.phase = a.phase
        BY <2>1, <3>2, <3>4 DEF SameMachine, ingest
      <4>2. a = o \/ a.phase = "shutdown"
        <5>1. o \in PhaseState
          BY <3>1, OwnTransitionTyped
        <5> QED
          BY <3>1, <5>1, AdvanceIsOwn DEF PhaseState
      <4>3. /\ state.phase \in {"taxi", "landing"} /\ o.phase = "climb"
                  => run'.airborne = GO_AROUND_AIRBORNE_SAMPLES
            /\ state.phase \in {"climb", "descent"} /\ o.phase = "cruise"
                  => run'.level = LEVEL_SUSTAIN_SAMPLES
            /\ state.phase = "cruise" /\ o.phase = "descent"
                  => run'.descent = DESCENT_SUSTAIN_SAMPLES
        BY <3>1, <4>1, OwnTransitionSustained DEF IInv
      <4> HIDE DEF a, o
      <4> QED
        BY <4>1, <4>2, <4>3 DEF TransitionsAreSustained, Moves
    <3> QED
      BY <3>3, <3>4
  <2>2. CASE \E paused \in BOOLEAN : setPaused(paused)
    BY <2>2 DEF setPaused, TransitionsAreSustained, Moves
  <2>3. CASE \E enabled \in BOOLEAN : setAutoShutdown(enabled)
    BY <2>3 DEF setAutoShutdown, TransitionsAreSustained, Moves
  <2> QED
    BY <2>1, <2>2, <2>3 DEF Next
<1> QED
  BY <1>1, InductiveInvariant, PTL DEF Spec, NoHastyTransition

\* A flight that has landed stays landed and rolls for no second takeoff.
THEOREM LandedStaysLandedAlways == Spec => LandedStaysLanded
<1> DEFINE Kept == state.hasLanded => state'.hasLanded /\ ~Moves(Phases, {"takeoff"})
<1>1. IInv /\ [Next]_vars => [Kept]_vars
  <2> SUFFICES ASSUME IInv, Next, state.hasLanded
               PROVE  state'.hasLanded /\ ~Moves(Phases, {"takeoff"})
    OBVIOUS
  <2>1. ASSUME NEW t \in Samples, ingest(t)
        PROVE  state'.hasLanded /\ ~Moves(Phases, {"takeoff"})
    <3> DEFINE o == ownTransition(state, t)
               a == advancePhase(state, t, settings.autoShutdown)
    <3>1. t \in Telemetry /\ state \in PhaseState
          /\ settings.paused \in BOOLEAN /\ settings.autoShutdown \in BOOLEAN
      BY SamplesAssumption DEF IInv, TypeOK
    <3>2. SameMachine(state', IF ignored(t, settings.paused) THEN state ELSE a)
      BY <2>1, <3>1, StepAdvances DEF ingest
    <3>3. o.hasLanded /\ (o.phase = "takeoff" => state.phase = "takeoff") /\ o \in PhaseState
      BY <3>1, OwnTransitionKeepsLanded, OwnTransitionTyped
    <3>4. a.hasLanded /\ (a.phase = "takeoff" => state.phase = "takeoff")
      BY <3>1, <3>3, AdvanceIsOwn DEF PhaseState
    <3> HIDE DEF a
    <3> QED
      BY <3>2, <3>4 DEF SameMachine, Moves
  <2>2. CASE \E paused \in BOOLEAN : setPaused(paused)
    BY <2>2 DEF setPaused, Moves
  <2>3. CASE \E enabled \in BOOLEAN : setAutoShutdown(enabled)
    BY <2>3 DEF setAutoShutdown, Moves
  <2> QED
    BY <2>1, <2>2, <2>3 DEF Next
<1> QED
  BY <1>1, InductiveInvariant, PTL DEF Spec, LandedStaysLanded
=============================================================================
