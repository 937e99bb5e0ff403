---------------------------- MODULE TrackingProofs -----------------------------
(***************************************************************************)
(* That flight tracking implements FlightLifecycle, for any flights,       *)
(* samples, thresholds and bounds, with any writes refused but that of     *)
(* createFlight() and the process ended at any moment; that, as long as no *)
(* write is refused, the flight being recorded is active and the landings, *)
(* the liftoff and the arrival of every flight are right; and that, for    *)
(* finitely many flights, the state keeps its types, the bounds on its     *)
(* counters among them.                                                    *)
(***************************************************************************)
EXTENDS Tracking, TLAPS, FiniteSetTheorems

Statuses == {"none", "planned", "active", "completed", "abandoned"}

\* What the proof needs to know of a row; a row that was never written is not deleted.
RowOK(row) ==
  /\ "status" \in DOMAIN row /\ row.status \in Statuses
  /\ "deleted" \in DOMAIN row /\ row.deleted \in BOOLEAN
  /\ row.status = "none" => ~row.deleted

Shapes ==
  /\ DOMAIN db = Flights /\ \A f \in Flights : RowOK(db[f])
  /\ "recorder" \in DOMAIN tc /\ tc.recorder \in Flights \cup {NoFlight}
  /\ app \in [armed : Flights \cup {NoFlight}, orphaned : Flights \cup {NoFlight},
              cancelling : Flights \cup {NoFlight}]
  /\ "refusals" \in DOMAIN spent /\ spent.refusals \in Nat

\* The flight being recorded has begun, and has ended only when a refused write kept the
\* recorder.
RecordedHasBegun ==
  tc.recorder # NoFlight =>
    /\ db[tc.recorder].status \in {"active", "completed"}
    /\ MaxRefusals = 0 => db[tc.recorder].status = "active"

\* The watch is armed for a plan that can still be flown, or that was replaced when the new
\* one may be refused; it never is while the prompt for an orphaned flight is open.
ArmedIsPlanned ==
  /\ app.armed # NoFlight =>
       /\ db[app.armed].status \in {"planned", "abandoned"} /\ ~db[app.armed].deleted
       /\ "create" \notin Refusable \/ MaxRefusals = 0 => db[app.armed].status = "planned"
  /\ app.orphaned # NoFlight => app.armed = NoFlight

\* The open dialog is about a flight that exists, or existed.
AskedAboutExists ==
  /\ app.orphaned # NoFlight => db[app.orphaned].status # "none"
  /\ app.cancelling # NoFlight => db[app.cancelling].status # "none"

IInv == Shapes /\ RecordedHasBegun /\ ArmedIsPlanned /\ AskedAboutExists

-----------------------------------------------------------------------------
(* Steps of FlightLifecycle, one flight at a time.                         *)

Kept(f) == db'[f].status = db[f].status /\ db'[f].deleted = db[f].deleted
StaysOrGoes(f) == stageOf(f)' = stageOf(f) \/ (stageOf(f) # "none" /\ stageOf(f)' = "gone")
Advance(f) == <<stageOf(f), stageOf(f)'>> \in Lifecycle!Forward

LEMMA StageIsStage ==
  ASSUME NEW f \in Flights, RowOK(db[f])
  PROVE  stageOf(f) \in Lifecycle!Stages
BY DEF RowOK, Statuses, stageOf, Lifecycle!Stages

\* A step that moves one flight at most forward is a step of the abstract specification.
LEMMA OneFlightMoves ==
  ASSUME Shapes', NEW x,
         \A f \in Flights : StaysOrGoes(f) \/ (f = x /\ Advance(f))
  PROVE  Lifecycle!Next
<1>1. \A f \in Flights : stageOf(f)' \in Lifecycle!Stages
  BY DEF Shapes, RowOK, Statuses, stageOf, Lifecycle!Stages
<1>2. ASSUME NEW f \in Flights, StaysOrGoes(f)
      PROVE  ~Advance(f)
  BY <1>2 DEF StaysOrGoes, Advance, Lifecycle!Forward
<1>3. \A f \in Flights : Lifecycle!Advances(f) <=> Advance(f)
  BY DEF Advance, Lifecycle!Advances
<1>4. \A f \in Flights : StaysOrGoes(f) => \/ [g \in Flights |-> stageOf(g)]'[f]
                                                = [g \in Flights |-> stageOf(g)][f]
                                           \/ Lifecycle!Goes(f)
  BY DEF StaysOrGoes, Lifecycle!Goes
<1> QED
  BY <1>1, <1>2, <1>3, <1>4 DEF Lifecycle!Next

LEMMA KeptStays ==
  ASSUME NEW f \in Flights, Kept(f)
  PROVE  StaysOrGoes(f)
BY DEF Kept, StaysOrGoes, stageOf

\* A row that was written goes when it is deleted, and stays gone.
LEMMA DeletedGoes ==
  ASSUME NEW f \in Flights, RowOK(db[f]), db[f].status # "none", db'[f].deleted
  PROVE  StaysOrGoes(f)
BY DEF RowOK, Statuses, StaysOrGoes, stageOf

\* A flight that has begun ends, unless it is gone.
LEMMA EndsAdvances ==
  ASSUME NEW f \in Flights, RowOK(db[f]), db[f].status \in {"active", "completed"},
         db'[f].deleted = db[f].deleted,
         db'[f].status \in {db[f].status, "completed"}
  PROVE  StaysOrGoes(f) \/ Advance(f)
BY DEF RowOK, StaysOrGoes, Advance, stageOf, Lifecycle!Forward

-----------------------------------------------------------------------------
(* One sample, statement by statement: what each stage leaves of the row's *)
(* status and of the recorder.                                             *)

Carried(m, row, recorder) ==
  /\ {"row", "tc", "pending", "thrown"} \subseteq DOMAIN m
  /\ {"status", "deleted"} \subseteq DOMAIN m.row /\ "recorder" \in DOMAIN m.tc
  /\ m.row.status = row.status /\ m.row.deleted = row.deleted /\ m.tc.recorder = recorder

LEMMA SaveCarries ==
  ASSUME NEW m, NEW row, NEW recorder, Carried(m, row, recorder), NEW write, NEW refused, NEW new,
         {"status", "deleted"} \subseteq DOMAIN new,
         new.status = row.status, new.deleted = row.deleted
  PROVE  Carried(Save(m, write, refused, new), row, recorder)
BY DEF Save, Carried

LEMMA IngestCarries ==
  ASSUME NEW m, NEW row, NEW recorder, Carried(m, row, recorder), NEW x
  PROVE  Carried(Ingest(m, x), row, recorder)
BY DEF Ingest, Carried

LEMMA FuelCarries ==
  ASSUME NEW m, NEW row, NEW recorder, Carried(m, row, recorder), NEW x
  PROVE  Carried(finalizeFuelOut(m, x), row, recorder)
<1> DEFINE set == [m EXCEPT !.tc.fuelOutFinalized = TRUE]
           new == [m.row EXCEPT !.fuel = TRUE]
<1>1. Carried(set, row, recorder)
  BY DEF Carried
<1>2. /\ {"status", "deleted"} \subseteq DOMAIN new
      /\ new.status = row.status /\ new.deleted = row.deleted
  BY DEF Carried
<1> HIDE DEF set, new
<1>3. Carried(Save(set, "fuel", x.refused, new), row, recorder)
  BY <1>1, <1>2, SaveCarries
<1> QED
  BY <1>3 DEF finalizeFuelOut, set, new

LEMMA OffCarries ==
  ASSUME NEW m, NEW row, NEW recorder, Carried(m, row, recorder), NEW x
  PROVE  Carried(recordOff(m, x), row, recorder)
<1> DEFINE set == [m EXCEPT !.tc.offRecorded = TRUE]
           new == [m.row EXCEPT !.off = TRUE]
<1>1. Carried(set, row, recorder)
  BY DEF Carried
<1>2. /\ {"status", "deleted"} \subseteq DOMAIN new
      /\ new.status = row.status /\ new.deleted = row.deleted
  BY DEF Carried
<1> HIDE DEF set, new
<1>3. Carried(Save(set, "off", x.refused, new), row, recorder)
  BY <1>1, <1>2, SaveCarries
<1> QED
  BY <1>3 DEF recordOff, set, new

LEMMA TouchdownCarries ==
  ASSUME NEW m, NEW row, NEW recorder, Carried(m, row, recorder), NEW x, NEW f
  PROVE  Carried(Touchdown(m, x, f), row, recorder)
<1> DEFINE n    == m.row.touched + 1
           seen == [m EXCEPT !.row.touched = n]
           won  == [seen.row EXCEPT !.on = TRUE]
           on   == Save(seen, "on", x.refused, won)
           next == [on EXCEPT !.tc.landingSeq = @ + 1]
           seq  == next.tc.landingSeq
           land == addLanding(next.row, seq, n)
           new  == [land EXCEPT !.arr = n]
           ask  == IF x.runway THEN next.pending
                   ELSE next.pending \cup {[flight |-> f, seq |-> seq, touchdown |-> n]}
           done == [next EXCEPT !.row = land, !.pending = ask]
<1>1. Carried(seen, row, recorder)
  BY DEF Carried
<1>2. /\ {"status", "deleted"} \subseteq DOMAIN won
      /\ won.status = row.status /\ won.deleted = row.deleted
  BY <1>1 DEF Carried
<1>3. Carried(on, row, recorder)
  <2> HIDE DEF seen, won
  <2> QED
    BY <1>1, <1>2, SaveCarries
<1>4. Touchdown(m, x, f) = IF on.thrown THEN on
                           ELSE IF "landing" \in x.refused THEN [next EXCEPT !.thrown = TRUE]
                           ELSE IF m.tc.isFreeFlight /\ x.near
                             THEN Save(done, "arr", x.refused, new)
                           ELSE done
  BY DEF Touchdown
<1> HIDE DEF on
<1>5. Carried(next, row, recorder)
  BY <1>3 DEF Carried
<1> HIDE DEF next, seq, n
<1>6. /\ {"status", "deleted"} \subseteq DOMAIN land
      /\ land.status = row.status /\ land.deleted = row.deleted
  BY <1>5 DEF Carried, addLanding
<1> HIDE DEF land
<1>7. /\ {"status", "deleted"} \subseteq DOMAIN new
      /\ new.status = row.status /\ new.deleted = row.deleted
  BY <1>6
<1> HIDE DEF new, ask
<1>8. Carried(done, row, recorder)
  BY <1>5, <1>6 DEF Carried
<1>9. Carried([next EXCEPT !.thrown = TRUE], row, recorder)
  BY <1>5 DEF Carried
<1> HIDE DEF done
<1>10. Carried(Save(done, "arr", x.refused, new), row, recorder)
  BY <1>7, <1>8, SaveCarries
<1> QED
  BY <1>3, <1>4, <1>8, <1>9, <1>10

LEMMA DetectCarries ==
  ASSUME NEW m, NEW row, NEW recorder, Carried(m, row, recorder), NEW x, NEW f
  PROVE  Carried(detectTouchdown(m, x, f), row, recorder)
<1> DEFINE stepped == [m EXCEPT !.tc.touchdown = touchdownStep(@, x.t)]
<1>1. Carried(stepped, row, recorder)
  BY DEF Carried
<1>2. Carried(Touchdown(stepped, x, f), row, recorder)
  <2> HIDE DEF stepped
  <2> QED
    BY <1>1, TouchdownCarries
<1> QED
  BY <1>1, <1>2 DEF detectTouchdown

LEMMA PointCarries ==
  ASSUME NEW m, NEW row, NEW recorder, Carried(m, row, recorder), NEW x
  PROVE  Carried(recordPoint(m, x), row, recorder)
<1>1. Carried([m EXCEPT !.row.lastPoint = phase(m)], row, recorder)
  BY DEF Carried
<1> QED
  BY <1>1 DEF recordPoint

\* What a completion leaves: the row completed or not, its deletion alone, and the recorder
\* let go if all went well.
Completed(m, row, recorder, refused) ==
  /\ "recorder" \in DOMAIN m.tc
  /\ {"status", "deleted"} \subseteq DOMAIN m.row
  /\ m.row.deleted = row.deleted /\ m.row.status \in {row.status, "completed"}
  /\ m.tc.recorder \in {recorder, NoFlight}
  /\ refused = {} /\ m.tc.recorder # NoFlight => m.row.status = row.status

\* The arrival, at a completion: nothing else of the row, and the recorder is kept.
LEMMA ResolvedCarries ==
  ASSUME NEW m, NEW row, NEW recorder, Carried(m, row, recorder), NEW x
  PROVE  Carried(Resolved(m, x), row, recorder)
<1> DEFINE new == [m.row EXCEPT !.arr = AtCompletion]
<1>1. /\ {"status", "deleted"} \subseteq DOMAIN new
      /\ new.status = row.status /\ new.deleted = row.deleted
  BY DEF Carried
<1> HIDE DEF new
<1>2. Carried(Save(m, "arr", x.refused, new), row, recorder)
  BY <1>1, SaveCarries
<1> QED
  BY <1>2 DEF Resolved, new

LEMMA CompleteCompletes ==
  ASSUME NEW m, NEW row, NEW recorder, Carried(m, row, recorder), ~m.thrown, NEW x
  PROVE  Completed(complete(m, x), row, recorder, x.refused)
<1> DEFINE resolved == Resolved(m, x)
           new  == [resolved.row EXCEPT !.status = "completed"]
           done == Save(resolved, "complete", x.refused, new)
<1>1. Carried(resolved, row, recorder)
  BY ResolvedCarries
<1>2. /\ {"status", "deleted"} \subseteq DOMAIN new
      /\ new.status = "completed" /\ new.deleted = row.deleted
  BY <1>1 DEF Carried
<1>3. complete(m, x) = IF resolved.thrown THEN resolved
                       ELSE IF done.thrown THEN done
                       ELSE IF "after" \in x.refused THEN [done EXCEPT !.thrown = TRUE]
                       ELSE [done EXCEPT !.tc.recorder = NoFlight]
  BY DEF complete
<1>6. CASE resolved.thrown
  <2>1. x.refused # {}
    BY <1>6 DEF Resolved, Save
  <2> QED
    BY <1>1, <1>3, <1>6, <2>1 DEF Carried, Completed
<1> HIDE DEF resolved, new
<1>4. CASE ~resolved.thrown /\ "complete" \in x.refused
  <2>1. done = [resolved EXCEPT !.thrown = TRUE]
    BY <1>4 DEF Save
  <2>2. done.thrown
    BY <1>1, <2>1 DEF Carried
  <2>3. Carried(done, row, recorder)
    BY <1>1, <2>1 DEF Carried
  <2> HIDE DEF done
  <2> QED
    BY <1>3, <1>4, <2>2, <2>3 DEF Carried, Completed
<1>5. CASE ~resolved.thrown /\ "complete" \notin x.refused
  <2>1. done = [resolved EXCEPT !.row = new]
    BY <1>5 DEF Save
  <2>2. /\ {"row", "tc", "thrown"} \subseteq DOMAIN done /\ done.row = new
        /\ "recorder" \in DOMAIN done.tc /\ done.tc.recorder = recorder /\ ~done.thrown
    BY <1>1, <1>5, <2>1 DEF Carried
  <2> HIDE DEF done
  <2>3. CASE "after" \notin x.refused
    <3>1. complete(m, x) = [done EXCEPT !.tc.recorder = NoFlight]
      BY <1>3, <1>5, <2>2, <2>3
    <3> QED
      BY <1>2, <2>2, <3>1 DEF Completed
  <2>4. CASE "after" \in x.refused
    <3>1. complete(m, x) = [done EXCEPT !.thrown = TRUE]
      BY <1>3, <1>5, <2>2, <2>4
    <3> QED
      BY <1>2, <2>2, <2>4, <3>1 DEF Completed
  <2> QED
    BY <2>3, <2>4
<1> QED
  BY <1>4, <1>5, <1>6

\* The outcome of a sample, stage by stage.
Handled(x, f) ==
  LET before == [row |-> db[f], tc |-> tc, pending |-> pending, thrown |-> FALSE]
  IN  completeAtShutdown(
        recordPoint(
          detectTouchdown(recordOff(finalizeFuelOut(Ingest(before, x), x), x), x, f), x), x)

LEMMA OneOutcome ==
  ASSUME NEW x, NEW f
  PROVE  handleTelemetry(x, f) = {Handled(x, f)}
BY DEF handleTelemetry, Handled

LEMMA SampleCompletes ==
  ASSUME NEW x, NEW f,
         {"status", "deleted"} \subseteq DOMAIN db[f], "recorder" \in DOMAIN tc
  PROVE  Completed(Handled(x, f), db[f], tc.recorder, x.refused)
<1> DEFINE before == [row |-> db[f], tc |-> tc, pending |-> pending, thrown |-> FALSE]
           m1 == Ingest(before, x)
           m2 == finalizeFuelOut(m1, x)
           m3 == recordOff(m2, x)
           m4 == detectTouchdown(m3, x, f)
           m5 == recordPoint(m4, x)
<1>1. Carried(before, db[f], tc.recorder)
  BY DEF Carried
<1> HIDE DEF before
<1>2. Carried(m1, db[f], tc.recorder)
  BY <1>1, IngestCarries
<1> HIDE DEF m1
<1>3. Carried(m2, db[f], tc.recorder)
  BY <1>2, FuelCarries
<1> HIDE DEF m2
<1>4. Carried(m3, db[f], tc.recorder)
  BY <1>3, OffCarries
<1> HIDE DEF m3
<1>5. Carried(m4, db[f], tc.recorder)
  BY <1>4, DetectCarries
<1> HIDE DEF m4
<1>6. Carried(m5, db[f], tc.recorder)
  BY <1>5, PointCarries
<1>7. Handled(x, f) = completeAtShutdown(m5, x)
  BY DEF Handled, before, m1, m2, m3, m4
<1> HIDE DEF m5
<1>8. CASE m5.thrown \/ phase(m5) # "shutdown"
  BY <1>6, <1>7, <1>8 DEF completeAtShutdown, Carried, Completed
<1>9. CASE ~m5.thrown /\ phase(m5) = "shutdown"
  BY <1>6, <1>7, <1>9, CompleteCompletes DEF completeAtShutdown
<1> QED
  BY <1>8, <1>9

-----------------------------------------------------------------------------
(* What the actions do, each a step of FlightLifecycle that keeps IInv,    *)
(* unless a createFlight() may be refused.                                 *)

Moves == "create" \notin Refusable => Lifecycle!Next
Step == IInv' /\ Moves

\* A step that moves no flight, and lets none be recorded that was not.
LEMMA NothingMoves ==
  ASSUME IInv, Shapes', \A f \in Flights : Kept(f),
         tc'.recorder \in {tc.recorder, NoFlight}, UNCHANGED app
  PROVE  Step
<1>1. Lifecycle!Next
  BY KeptStays, OneFlightMoves
<1>2. RecordedHasBegun' /\ ArmedIsPlanned' /\ AskedAboutExists'
  BY TrackingAssumption DEF IInv, Shapes, RecordedHasBegun, ArmedIsPlanned, AskedAboutExists, Kept
<1> QED
  BY <1>1, <1>2 DEF Step, Moves, IInv

\* A handler that records or completes the flight in the recorder.
LEMMA RecorderWrites ==
  ASSUME IInv, NEW m, NEW refused, tc.recorder # NoFlight, Leaves(m, tc.recorder),
         Completed(m, db[tc.recorder], tc.recorder, refused), Refusing(refused), UNCHANGED app
  PROVE  Step
<1> DEFINE f == tc.recorder
<1>1. f \in Flights /\ RowOK(db[f]) /\ db[f].status \in {"active", "completed"}
  BY DEF IInv, Shapes, RecordedHasBegun
<1>2. /\ DOMAIN db' = Flights /\ db'[f] = m.row /\ tc' = m.tc
      /\ \A g \in Flights : g # f => db'[g] = db[g]
  BY <1>1 DEF Leaves, IInv, Shapes
<1>3. RowOK(db'[f]) /\ db'[f].deleted = db[f].deleted
      /\ db'[f].status \in {db[f].status, "completed"}
  BY <1>1, <1>2 DEF Completed, RowOK, Statuses
<1>4. "refusals" \in DOMAIN spent' /\ spent'.refusals \in Nat
  BY DEF Refusing, IInv, Shapes
<1>5. MaxRefusals = 0 => refused = {}
  BY DEF Refusing, IInv, Shapes
<1>6. Shapes'
  BY <1>2, <1>3, <1>4 DEF IInv, Shapes, Completed
<1>7. Lifecycle!Next
  <2>1. StaysOrGoes(f) \/ Advance(f)
    BY <1>1, <1>3, EndsAdvances
  <2>2. \A g \in Flights : g # f => StaysOrGoes(g)
    BY <1>2, KeptStays DEF Kept
  <2> QED
    BY <1>6, <2>1, <2>2, OneFlightMoves
<1>8. RecordedHasBegun'
  BY <1>1, <1>2, <1>3, <1>5 DEF IInv, RecordedHasBegun, Completed
<1>9. ArmedIsPlanned' /\ AskedAboutExists'
  BY <1>1, <1>2, <1>3 DEF IInv, Shapes, ArmedIsPlanned, AskedAboutExists
<1> QED
  BY <1>6, <1>7, <1>8, <1>9 DEF Step, Moves, IInv

LEMMA IngestSteps ==
  ASSUME IInv, NEW t \in Samples, NEW refused, ingest(t, refused)
  PROVE  Step
<1>1. CASE tc.recorder = NoFlight
  <2>1. UNCHANGED <<db, tc, spent, app>>
    BY <1>1 DEF ingest
  <2> QED
    BY <2>1, NothingMoves DEF IInv, Shapes, RowOK, Kept
<1>2. CASE tc.recorder # NoFlight
  <2>1. PICK due, autoFinish, near, runway :
          Leaves(Handled([t |-> t, refused |-> refused, due |-> due,
                          autoFinish |-> autoFinish, near |-> near,
                          runway |-> runway], tc.recorder), tc.recorder)
    BY <1>2, OneOutcome DEF ingest
  <2> DEFINE x == [t |-> t, refused |-> refused, due |-> due, autoFinish |-> autoFinish,
                   near |-> near, runway |-> runway]
  <2>2. Completed(Handled(x, tc.recorder), db[tc.recorder], tc.recorder, x.refused)
    BY <1>2, SampleCompletes DEF IInv, Shapes, RowOK
  <2>3. x.refused = refused /\ Refusing(refused) /\ UNCHANGED app
    BY <1>2 DEF ingest
  <2> HIDE DEF x
  <2> QED
    BY <1>2, <2>1, <2>2, <2>3, RecorderWrites DEF x
<1> QED
  BY <1>1, <1>2

LEMMA FinishSteps ==
  ASSUME IInv, NEW near, NEW refused, finish(near, refused)
  PROVE  Step
<1> DEFINE m == [row |-> db[tc.recorder], tc |-> tc, pending |-> pending, thrown |-> FALSE]
           x == [near |-> near /\ telemetry # NoSample, refused |-> refused]
<1>1. tc.recorder # NoFlight /\ Refusing(refused) /\ UNCHANGED app
      /\ Leaves(complete(m, x), tc.recorder)
  BY DEF finish
<1>2. Carried(m, db[tc.recorder], tc.recorder) /\ ~m.thrown
  BY <1>1 DEF Carried, IInv, Shapes, RowOK
<1>3. x.refused = refused
  OBVIOUS
<1> HIDE DEF m, x
<1>4. Completed(complete(m, x), db[tc.recorder], tc.recorder, x.refused)
  BY <1>2, CompleteCompletes
<1> QED
  BY <1>1, <1>3, <1>4, RecorderWrites

-----------------------------------------------------------------------------
(* The calls.                                                              *)

\* stop() inside another call: the flight in the recorder is gone, and nothing else changes.
LEMMA StoppedRows ==
  ASSUME IInv, NEW f \in Flights
  PROVE  /\ DOMAIN Stopped(db) = Flights /\ RowOK(Stopped(db)[f])
         /\ Stopped(db)[f].status = db[f].status
         /\ f # tc.recorder => Stopped(db)[f] = db[f]
         /\ f = tc.recorder => Stopped(db)[f].deleted /\ db[f].status # "none"
<1>1. CASE tc.recorder = NoFlight
  BY <1>1, TrackingAssumption DEF Stopped, IInv, Shapes
<1>2. CASE tc.recorder # NoFlight
  <2>1. tc.recorder \in Flights /\ DOMAIN db = Flights /\ RowOK(db[f])
        /\ db[tc.recorder].status \in {"active", "completed"}
    BY <1>2 DEF IInv, Shapes, RecordedHasBegun
  <2>2. Stopped(db) = [db EXCEPT ![tc.recorder].deleted = TRUE, ![tc.recorder].lastPoint = "none"]
    BY <1>2 DEF Stopped, Deleted
  <2> QED
    BY ZenonT(60), <2>1, <2>2 DEF RowOK, Statuses
<1> QED
  BY <1>1, <1>2

LEMMA SpentCounts ==
  ASSUME IInv, NEW refused, Refusing(refused)
  PROVE  "refusals" \in DOMAIN spent' /\ spent'.refusals \in Nat
BY DEF IInv, Shapes, Refusing

\* What the two ways to start a flight have in common: f begins, the flight recorded before
\* goes, and a refused write may keep f out of the recorder.
LEMMA BeginSteps ==
  ASSUME IInv, NEW f \in Flights, f # tc.recorder,
         DOMAIN db' = Flights, \A g \in Flights : g # f => db'[g] = Stopped(db)[g],
         RowOK(db'[f]), db'[f].status = "active", ~db'[f].deleted,
         ~db[f].deleted, db[f].status \in {"none", "planned", "abandoned"},
         "create" \notin Refusable => db[f].status # "abandoned",
         "recorder" \in DOMAIN tc', tc'.recorder \in {f, NoFlight},
         NEW refused, Refusing(refused),
         app' = [app EXCEPT !.armed = NoFlight]
  PROVE  Step
<1>1. Shapes'
  BY StoppedRows DEF IInv, Shapes, Refusing
<1>2. "create" \notin Refusable => Advance(f)
  BY DEF Advance, stageOf, Lifecycle!Forward
<1>3. \A g \in Flights : g # f => StaysOrGoes(g)
  BY StoppedRows, DeletedGoes, KeptStays DEF Kept, IInv, Shapes
<1>4. Moves
  BY <1>1, <1>2, <1>3, OneFlightMoves DEF Moves
<1>5. RecordedHasBegun'
  BY TrackingAssumption DEF RecordedHasBegun
<1>6. \A g \in Flights : db[g].status # "none" => db'[g].status # "none"
  BY StoppedRows
<1>7. ArmedIsPlanned' /\ AskedAboutExists'
  BY <1>6 DEF IInv, Shapes, ArmedIsPlanned, AskedAboutExists
<1> QED
  BY <1>1, <1>4, <1>5, <1>7 DEF Step, Moves, IInv

\* A call that fails after it has stopped the flight recorded before, or a plain stop().
LEMMA StopSteps ==
  ASSUME IInv, db' = Stopped(db), tc' = [tc EXCEPT !.recorder = NoFlight],
         "refusals" \in DOMAIN spent', spent'.refusals \in Nat,
         app' \in {app, [app EXCEPT !.armed = NoFlight]}
  PROVE  Step
<1>1. DOMAIN db' = Flights /\ \A g \in Flights : RowOK(db'[g])
  <2>1. DOMAIN Stopped(db) = Flights
    BY TrackingAssumption DEF Stopped, Deleted, IInv, Shapes
  <2>2. \A g \in Flights : RowOK(Stopped(db)[g])
    BY StoppedRows
  <2> QED
    BY <2>1, <2>2
<1>2. "recorder" \in DOMAIN tc' /\ tc'.recorder = NoFlight
  BY DEF IInv, Shapes
<1>3. app' \in [armed : Flights \cup {NoFlight}, orphaned : Flights \cup {NoFlight},
                cancelling : Flights \cup {NoFlight}]
      /\ app'.armed \in {app.armed, NoFlight} /\ app'.orphaned = app.orphaned
      /\ app'.cancelling = app.cancelling
  BY DEF IInv, Shapes
<1>4. Shapes'
  BY <1>1, <1>2, <1>3 DEF Shapes
<1>5. \A g \in Flights : StaysOrGoes(g)
  BY StoppedRows, DeletedGoes, KeptStays DEF Kept, IInv, Shapes
<1>6. Lifecycle!Next
  BY <1>4, <1>5, OneFlightMoves
<1>7. ASSUME NEW g \in Flights
      PROVE  /\ db'[g].status = db[g].status
             /\ db[g].status \in {"planned", "abandoned"} => db'[g] = db[g]
  <2>1. db[g].status \in {"planned", "abandoned"} => g # tc.recorder
    BY TrackingAssumption DEF IInv, RecordedHasBegun
  <2> QED
    BY <2>1, StoppedRows
<1>8. RecordedHasBegun' /\ AskedAboutExists'
  BY <1>2, <1>3, <1>7 DEF IInv, Shapes, RecordedHasBegun, AskedAboutExists
<1>9. ArmedIsPlanned'
  BY <1>3, <1>7 DEF IInv, Shapes, ArmedIsPlanned
<1> QED
  BY <1>4, <1>6, <1>8, <1>9 DEF Step, Moves, IInv

\* Nothing happens but to the watch, the dialog's flight still exists, and the bounds.
LEMMA OnlyDisarms ==
  ASSUME IInv, UNCHANGED <<db, tc>>, "refusals" \in DOMAIN spent', spent'.refusals \in Nat,
         app' = [app EXCEPT !.armed = NoFlight]
  PROVE  Step
<1>1. Shapes'
  BY DEF IInv, Shapes, RowOK
<1>2. Lifecycle!Next
  BY <1>1, KeptStays, OneFlightMoves DEF Kept
<1>3. RecordedHasBegun' /\ ArmedIsPlanned' /\ AskedAboutExists'
  BY DEF IInv, Shapes, RecordedHasBegun, ArmedIsPlanned, AskedAboutExists
<1> QED
  BY <1>1, <1>2, <1>3 DEF Step, Moves, IInv

\* A handler whose first write is refused: the watch may be over, or the dialog closed.
LEMMA RefusedSteps ==
  ASSUME IInv, NEW write, Refused(write),
         app' \in {app, [app EXCEPT !.armed = NoFlight], [app EXCEPT !.cancelling = NoFlight]}
  PROVE  Step
<1>1. /\ app'.armed \in {app.armed, NoFlight} /\ app'.orphaned = app.orphaned
      /\ app'.cancelling \in {app.cancelling, NoFlight}
      /\ app' \in [armed : Flights \cup {NoFlight}, orphaned : Flights \cup {NoFlight},
                    cancelling : Flights \cup {NoFlight}]
  BY DEF IInv, Shapes
<1>2. UNCHANGED <<db, tc>> /\ "refusals" \in DOMAIN spent' /\ spent'.refusals \in Nat
  BY SpentCounts DEF Refused
<1>3. Shapes'
  BY <1>1, <1>2 DEF IInv, Shapes, RowOK
<1>4. Moves
  BY <1>2, <1>3, KeptStays, OneFlightMoves DEF Kept, Moves
<1>5. RecordedHasBegun' /\ ArmedIsPlanned' /\ AskedAboutExists'
  BY <1>1, <1>2 DEF IInv, Shapes, RecordedHasBegun, ArmedIsPlanned, AskedAboutExists
<1> QED
  BY <1>3, <1>4, <1>5 DEF Step, IInv

\* start() of a plan that is not in the recorder, also of one that was replaced.
LEMMA StartSteps ==
  ASSUME IInv, NEW f \in Flights, db[f].status \in {"planned", "abandoned"}, ~db[f].deleted,
         "create" \notin Refusable => db[f].status = "planned", NEW refused,
         start(f, refused), app' = [app EXCEPT !.armed = NoFlight]
  PROVE  Step
<1> DEFINE fails == telemetry = NoSample \/ "start" \in refused
<1>1. f # tc.recorder
  BY TrackingAssumption DEF IInv, RecordedHasBegun
<1>2. CASE Refusing({}) /\ UNCHANGED <<db, tc>>
  BY <1>2, SpentCounts, OnlyDisarms
<1>3. CASE Refused("delete")
  BY <1>3, RefusedSteps
<1>4. CASE Refusing(refused) /\ db' = Stopped(db) /\ tc' = [tc EXCEPT !.recorder = NoFlight]
  BY <1>4, SpentCounts, StopSteps
<1>5. CASE /\ Refusing(refused) /\ db' = [Stopped(db) EXCEPT ![f].status = "active"]
           /\ tc' = Reset(Recording(f, NewPhaseState("preflight", FALSE), FALSE), 0, FALSE, FALSE)
  <2>1. "recorder" \in DOMAIN tc' /\ tc'.recorder = f
    BY <1>5 DEF Reset, Recording, IInv, Shapes
  <2>2. /\ DOMAIN db' = Flights /\ \A g \in Flights : g # f => db'[g] = Stopped(db)[g]
        /\ RowOK(db'[f]) /\ db'[f].status = "active" /\ ~db'[f].deleted
    BY <1>1, <1>5, StoppedRows DEF RowOK, Statuses
  <2> QED
    BY <1>1, <1>5, <2>1, <2>2, BeginSteps
<1> QED
  BY <1>2, <1>3, <1>4, <1>5 DEF start

LEMMA StartFreeSteps ==
  ASSUME IInv, NEW f \in Flights, NEW refused, startFree(f, refused),
         app' = [app EXCEPT !.armed = NoFlight]
  PROVE  Step
<1> DEFINE new == [NoRow EXCEPT !.status = "active", !.free = TRUE]
           created == [Stopped(db) EXCEPT ![f] = new]
           fails == telemetry = NoSample \/ "start" \in refused
<1>1. db[f].status = "none"
  BY DEF startFree
<1>2. f # tc.recorder /\ ~db[f].deleted
  BY <1>1, TrackingAssumption DEF IInv, RecordedHasBegun, Shapes, RowOK
<1>3. CASE Refusing({}) /\ UNCHANGED <<db, tc>>
  BY <1>3, SpentCounts, OnlyDisarms
<1>4. CASE Refused("delete")
  BY <1>4, RefusedSteps
<1>5. CASE Refusing(refused) /\ db' = Stopped(db) /\ tc' = [tc EXCEPT !.recorder = NoFlight]
  BY <1>5, SpentCounts, StopSteps
<1>6. CASE /\ Refusing(refused)
           /\ db' = created \/ \E off : db' = [created EXCEPT ![f].off = off]
           /\ \/ tc' = [tc EXCEPT !.recorder = NoFlight]
              \/ \E state, off : \/ tc' = Recording(f, state, off)
                                \/ tc' = Reset(Recording(f, state, off), 0, FALSE, TRUE)
  <2>2. "recorder" \in DOMAIN tc' /\ tc'.recorder \in {f, NoFlight}
    BY <1>6 DEF Reset, Recording, IInv, Shapes
  <2>3. /\ "status" \in DOMAIN new /\ new.status = "active"
        /\ "deleted" \in DOMAIN new /\ new.deleted = FALSE
    BY DEF NoRow
  <2>4. DOMAIN created = Flights /\ created[f] = new
        /\ \A g \in Flights : g # f => created[g] = Stopped(db)[g]
    BY StoppedRows
  <2> HIDE DEF new, created
  <2>5. /\ DOMAIN db' = Flights /\ \A g \in Flights : g # f => db'[g] = Stopped(db)[g]
        /\ RowOK(db'[f]) /\ db'[f].status = "active" /\ ~db'[f].deleted
    BY <1>6, <2>3, <2>4 DEF RowOK, Statuses
  <2> QED
    BY <1>1, <1>2, <1>6, <2>2, <2>5, BeginSteps
<1> HIDE DEF created
<1>7. \/ Refusing({}) /\ UNCHANGED <<db, tc>>
      \/ Refused("delete")
      \/ /\ Refusing(refused)
         /\ \/ db' = Stopped(db) /\ tc' = [tc EXCEPT !.recorder = NoFlight]
            \/ /\ db' = created \/ \E off : db' = [created EXCEPT ![f].off = off]
               /\ \/ tc' = [tc EXCEPT !.recorder = NoFlight]
                  \/ \E state, off : \/ tc' = Recording(f, state, off)
                                    \/ tc' = Reset(Recording(f, state, off), 0, FALSE, TRUE)
  BY DEF startFree, created
<1> QED
  BY <1>3, <1>4, <1>5, <1>6, <1>7

\* abandonAllPlanned() after stop(): plans go, and the flight recorded.
LEMMA AbandonedRows ==
  ASSUME IInv, NEW g \in Flights
  PROVE  /\ DOMAIN Abandoned(Stopped(db)) = Flights /\ RowOK(Abandoned(Stopped(db))[g])
         /\ \/ Abandoned(Stopped(db))[g] = Stopped(db)[g]
            \/ /\ db[g].status = "planned" /\ Abandoned(Stopped(db))[g].status = "abandoned"
               /\ Abandoned(Stopped(db))[g].deleted = db[g].deleted
<1> DEFINE rows == Stopped(db)
<1>1. /\ RowOK(rows[g]) /\ rows[g].status = db[g].status
      /\ db[g].status = "planned" => rows[g] = db[g]
  BY StoppedRows, TrackingAssumption DEF IInv, RecordedHasBegun
<1> HIDE DEF rows
<1>2. /\ DOMAIN Abandoned(rows) = Flights
      /\ Abandoned(rows)[g] = IF rows[g].status = "planned"
                              THEN [rows[g] EXCEPT !.status = "abandoned"] ELSE rows[g]
  BY DEF Abandoned
<1>3. /\ RowOK(Abandoned(rows)[g])
      /\ \/ Abandoned(rows)[g] = rows[g]
         \/ /\ db[g].status = "planned" /\ Abandoned(rows)[g].status = "abandoned"
            /\ Abandoned(rows)[g].deleted = db[g].deleted
  BY <1>1, <1>2 DEF RowOK, Statuses
<1> QED
  BY <1>2, <1>3 DEF rows

\* The new plan is refused: the watch is left with a plan that was replaced.
LEMMA CreateRefusedSteps ==
  ASSUME IInv, Refusing({"create"}), db' = Abandoned(Stopped(db)),
         tc' = [tc EXCEPT !.recorder = NoFlight], UNCHANGED app
  PROVE  Step
<1>1. "create" \in Refusable /\ "refusals" \in DOMAIN spent' /\ spent'.refusals \in Nat
  BY SpentCounts DEF Refusing
<1>6. MaxRefusals # 0
  BY DEF Refusing, IInv, Shapes
<1>2. "recorder" \in DOMAIN tc' /\ tc'.recorder = NoFlight
  BY DEF IInv, Shapes
<1>3. Shapes'
  <2>1. DOMAIN db = Flights
    BY DEF IInv, Shapes
  <2>2. DOMAIN db' = Flights
    BY DEF Abandoned
  <2>3. \A g \in Flights : RowOK(db'[g])
    BY AbandonedRows
  <2> QED
    BY <1>1, <1>2, <2>2, <2>3 DEF IInv, Shapes
<1>4. \A g \in Flights :
        /\ db[g].status # "none" => db'[g].status # "none"
        /\ db[g].status \in {"planned", "abandoned"} =>
             db'[g].status = "abandoned" /\ db'[g].deleted = db[g].deleted
  <2> TAKE g \in Flights
  <2>1. Stopped(db)[g].status = db[g].status
    BY StoppedRows
  <2>2. CASE db[g].status \in {"planned", "abandoned"}
    <3>1. g # tc.recorder
      BY <2>2, TrackingAssumption DEF IInv, RecordedHasBegun
    <3>2. Stopped(db)[g] = db[g]
      BY <3>1, StoppedRows
    <3>3. Abandoned(Stopped(db))[g] = IF db[g].status = "planned"
            THEN [db[g] EXCEPT !.status = "abandoned"] ELSE db[g]
      BY <3>2 DEF Abandoned
    <3>4. RowOK(db[g])
      BY DEF IInv, Shapes
    <3> QED
      BY <2>2, <3>3, <3>4 DEF RowOK
  <2>3. CASE db[g].status \notin {"planned", "abandoned"}
    BY <2>1, <2>3, AbandonedRows
  <2> QED
    BY <2>2, <2>3
<1>5. RecordedHasBegun' /\ ArmedIsPlanned' /\ AskedAboutExists'
  BY <1>1, <1>2, <1>4, <1>6 DEF IInv, Shapes, RecordedHasBegun, ArmedIsPlanned, AskedAboutExists
<1> QED
  BY <1>1, <1>3, <1>5 DEF Step, Moves, IInv

\* A new plan: the plans before it are abandoned, and the flight recorded goes.
LEMMA CreateSteps ==
  ASSUME IInv, NEW f \in Flights, flightCreate(f)
  PROVE  Step
<1> DEFINE new == [NoRow EXCEPT !.status = "planned"]
<1>1. db[f].status = "none" /\ app.orphaned = NoFlight /\ app.cancelling = NoFlight
  BY DEF flightCreate, NoDialog
<1>2. CASE Refused("delete") /\ UNCHANGED app
  BY <1>2, RefusedSteps
<1>3. CASE /\ Refusing({"plans"}) /\ db' = Stopped(db) /\ UNCHANGED app
           /\ tc' = [tc EXCEPT !.recorder = NoFlight]
  BY <1>3, SpentCounts, StopSteps
<1>4. CASE /\ Refusing({"create"}) /\ db' = Abandoned(Stopped(db)) /\ UNCHANGED app
           /\ tc' = [tc EXCEPT !.recorder = NoFlight]
  BY <1>4, CreateRefusedSteps
<1>5. CASE /\ Refusing({}) /\ db' = [Abandoned(Stopped(db)) EXCEPT ![f] = new]
           /\ app' = [app EXCEPT !.armed = f] /\ tc' = [tc EXCEPT !.recorder = NoFlight]
  <2>1. new.status = "planned" /\ new.deleted = FALSE /\ RowOK(new)
    BY DEF NoRow, RowOK, Statuses
  <2> HIDE DEF new
  <2>2. /\ DOMAIN db' = Flights /\ db'[f] = new
        /\ \A g \in Flights : g # f => db'[g] = Abandoned(Stopped(db))[g]
    BY <1>5, AbandonedRows
  <2>3. \A g \in Flights : g # f =>
          /\ RowOK(db'[g])
          /\ \/ db'[g] = Stopped(db)[g]
             \/ db[g].status = "planned" /\ db'[g].status = "abandoned"
    BY <2>2, AbandonedRows
  <2>4. "recorder" \in DOMAIN tc' /\ tc'.recorder = NoFlight
        /\ "refusals" \in DOMAIN spent' /\ spent'.refusals \in Nat
    BY <1>5, SpentCounts DEF IInv, Shapes
  <2>5. Shapes'
    BY <1>5, <2>1, <2>2, <2>3, <2>4 DEF IInv, Shapes
  <2>6. Advance(f)
    BY <1>1, <2>1, <2>2 DEF Advance, stageOf, Lifecycle!Forward, IInv, Shapes, RowOK
  <2>7. ASSUME NEW g \in Flights, g # f
        PROVE  StaysOrGoes(g)
    <3>1. CASE db'[g] = Stopped(db)[g]
      BY <3>1, StoppedRows, DeletedGoes, KeptStays DEF Kept, IInv, Shapes
    <3>2. CASE db[g].status = "planned" /\ db'[g].status = "abandoned"
      BY <3>2 DEF StaysOrGoes, stageOf
    <3> QED
      BY <2>3, <2>7, <3>1, <3>2
  <2>8. Lifecycle!Next
    BY <2>5, <2>6, <2>7, OneFlightMoves
  <2>9. RecordedHasBegun' /\ ArmedIsPlanned' /\ AskedAboutExists'
    BY <1>1, <1>5, <2>1, <2>2, <2>4
    DEF IInv, Shapes, RecordedHasBegun, ArmedIsPlanned, AskedAboutExists
  <2> QED
    BY <2>5, <2>8, <2>9 DEF Step, Moves, IInv
<1> QED
  BY <1>2, <1>3, <1>4, <1>5 DEF flightCreate

\* deleteFlight() of a flight that was written, whoever asks for it.
LEMMA DeleteSteps ==
  ASSUME IInv, NEW f \in Flights, db[f].status # "none", db' = Deleted(db, f),
         "recorder" \in DOMAIN tc', tc'.recorder \in {tc.recorder, NoFlight},
         "refusals" \in DOMAIN spent', spent'.refusals \in Nat,
         app' \in [armed : {app.armed, NoFlight}, orphaned : {app.orphaned, NoFlight},
                   cancelling : {app.cancelling, NoFlight}],
         app'.armed # f
  PROVE  Step
<1>1. /\ DOMAIN db' = Flights /\ \A g \in Flights : g # f => db'[g] = db[g]
      /\ RowOK(db'[f]) /\ db'[f].status = db[f].status /\ db'[f].deleted
  BY DEF Deleted, IInv, Shapes, RowOK, Statuses
<1>2. Shapes'
  BY <1>1 DEF IInv, Shapes
<1>3. \A g \in Flights : StaysOrGoes(g)
  BY <1>1, DeletedGoes, KeptStays DEF Kept, IInv, Shapes
<1>4. Lifecycle!Next
  BY <1>2, <1>3, OneFlightMoves
<1>5. RecordedHasBegun' /\ ArmedIsPlanned' /\ AskedAboutExists'
  BY <1>1, TrackingAssumption DEF IInv, Shapes, RecordedHasBegun, ArmedIsPlanned, AskedAboutExists
<1> QED
  BY <1>2, <1>4, <1>5 DEF Step, Moves, IInv

-----------------------------------------------------------------------------
(* The dialogs, the watch, and the end of the process.                     *)

\* A step that changes no row: what else it may do to the recorder and the dialogs.
LEMMA RowsStay ==
  ASSUME IInv, UNCHANGED db, "refusals" \in DOMAIN spent', spent'.refusals \in Nat,
         "recorder" \in DOMAIN tc', tc'.recorder \in Flights \cup {NoFlight},
         app' \in [armed : Flights \cup {NoFlight}, orphaned : Flights \cup {NoFlight},
                   cancelling : Flights \cup {NoFlight}],
         RecordedHasBegun', ArmedIsPlanned', AskedAboutExists'
  PROVE  Step
<1>1. Shapes'
  BY DEF IInv, Shapes, RowOK
<1>2. Lifecycle!Next
  BY <1>1, KeptStays, OneFlightMoves DEF Kept
<1> QED
  BY <1>1, <1>2 DEF Step, Moves, IInv

\* The recorder and the bounds stay, and a dialog opens or closes.
LEMMA DialogSteps ==
  ASSUME IInv, UNCHANGED <<db, tc, spent>>,
         app' \in [armed : {app.armed}, orphaned : {app.orphaned, NoFlight},
                   cancelling : Flights \cup {NoFlight}],
         app'.cancelling # NoFlight => db[app'.cancelling].status # "none"
  PROVE  Step
<1>1. RecordedHasBegun' /\ ArmedIsPlanned' /\ AskedAboutExists'
  BY DEF IInv, Shapes, RecordedHasBegun, ArmedIsPlanned, AskedAboutExists
<1>2. app' \in [armed : Flights \cup {NoFlight}, orphaned : Flights \cup {NoFlight},
                cancelling : Flights \cup {NoFlight}]
  BY DEF IInv, Shapes
<1> QED
  BY <1>1, <1>2, RowsStay DEF IInv, Shapes

LEMMA ResumeSteps ==
  ASSUME IInv, trackingResumeOrphaned
  PROVE  Step
<1> DEFINE f == app.orphaned
<1>1. /\ f \in Flights /\ UNCHANGED <<db, spent>> /\ resume(f)
      /\ app' = [app EXCEPT !.orphaned = NoFlight]
  BY DEF trackingResumeOrphaned, IInv, Shapes
<1>2. /\ "recorder" \in DOMAIN tc'
      /\ tc'.recorder = tc.recorder \/ (tc'.recorder = f /\ db[f].status = "active")
  <2>1. CASE db[f].status # "active"
    BY <1>1, <2>1 DEF resume, IInv, Shapes
  <2>2. CASE db[f].status = "active"
    <3>1. PICK state, off, seq, fuel, free : tc' = Reset(Recording(f, state, off), seq, fuel, free)
      BY <1>1, <2>2 DEF resume
    <3> QED
      BY <2>2, <3>1 DEF Reset, Recording, IInv, Shapes
  <2> QED
    BY <2>1, <2>2
<1>3. tc'.recorder \in Flights \cup {NoFlight}
  BY <1>1, <1>2 DEF IInv, Shapes
<1>4. RecordedHasBegun'
  BY <1>1, <1>2 DEF IInv, Shapes, RecordedHasBegun
<1>5. ArmedIsPlanned' /\ AskedAboutExists'
  BY <1>1 DEF IInv, Shapes, ArmedIsPlanned, AskedAboutExists
<1>6. app' \in [armed : Flights \cup {NoFlight}, orphaned : Flights \cup {NoFlight},
                cancelling : Flights \cup {NoFlight}]
  BY <1>1 DEF IInv, Shapes
<1> QED
  BY <1>1, <1>2, <1>3, <1>4, <1>5, <1>6, RowsStay DEF IInv, Shapes

\* A late answer of the sim, and the pilot's destination, change what no stage depends on.
LEMMA LateAnswerSteps ==
  ASSUME IInv, NEW p, upgradeLandingFromSim(p)
  PROVE  Step
<1> DEFINE f == p.flight
           row == addLanding(db[f], p.seq, p.touchdown)
           late == [row EXCEPT !.arr = p.touchdown]
<1>1. UNCHANGED <<tc, app>> /\ "refusals" \in DOMAIN spent' /\ spent'.refusals \in Nat
  BY SpentCounts DEF upgradeLandingFromSim, IInv, Shapes
<1>5. UNCHANGED db \/ (\E new \in {row, late} : db' = [db EXCEPT ![f] = new])
  BY DEF upgradeLandingFromSim
<1>2. CASE UNCHANGED db
  BY <1>1, <1>2, NothingMoves DEF Kept, IInv, Shapes, RowOK
<1>3. ASSUME NEW new \in {row, late}, db' = [db EXCEPT ![f] = new], f \in Flights
      PROVE  Step
  <2>1. RowOK(row) /\ row.status = db[f].status /\ row.deleted = db[f].deleted
    BY <1>3 DEF addLanding, RowOK, IInv, Shapes
  <2> HIDE DEF row
  <2>2. RowOK(new) /\ new.status = db[f].status /\ new.deleted = db[f].deleted
    BY <1>3, <2>1 DEF RowOK
  <2>3. DOMAIN db' = Flights /\ \A g \in Flights : RowOK(db'[g]) /\ Kept(g)
    BY <1>3, <2>2 DEF IInv, Shapes, Kept
  <2>4. Shapes'
    BY <1>1, <2>3 DEF IInv, Shapes
  <2> QED
    BY <1>1, <2>3, <2>4, NothingMoves DEF IInv, Shapes
<1>4. ASSUME NEW new \in {row, late}, db' = [db EXCEPT ![f] = new], f \notin Flights
      PROVE  Step
  <2>1. DOMAIN db' = Flights /\ \A g \in Flights : db'[g] = db[g]
    BY <1>4 DEF IInv, Shapes
  <2>2. Shapes'
    BY <1>1, <2>1 DEF IInv, Shapes
  <2> QED
    BY <1>1, <2>1, <2>2, NothingMoves DEF IInv, Shapes, Kept
<1> QED
  BY <1>2, <1>3, <1>4, <1>5

LEMMA DestinationSteps ==
  ASSUME IInv, trackingSetDestination
  PROVE  Step
<1> DEFINE f == tc.recorder
<1>1. f \in Flights /\ UNCHANGED app
  BY DEF trackingSetDestination, IInv, Shapes
<1>2. CASE Refusing({}) /\ db' = [db EXCEPT ![f].arr = 0] /\ UNCHANGED tc
  <2>1. DOMAIN db' = Flights /\ \A g \in Flights : RowOK(db'[g]) /\ Kept(g)
    BY <1>1, <1>2 DEF IInv, Shapes, Kept, RowOK
  <2>2. Shapes'
    BY <1>1, <1>2, <2>1, SpentCounts DEF IInv, Shapes
  <2> QED
    BY <1>1, <1>2, <2>1, <2>2, NothingMoves DEF IInv, Shapes
<1>3. CASE Refused("arr")
  BY <1>1, <1>3, RefusedSteps
<1> QED
  BY <1>2, <1>3 DEF trackingSetDestination

LEMMA PausedSteps ==
  ASSUME IInv, NEW isPaused, paused(isPaused)
  PROVE  Step
<1>1. UNCHANGED <<db, app>>
  BY DEF paused
<1>2. "recorder" \in DOMAIN tc' /\ tc'.recorder = tc.recorder
  BY DEF paused, IInv, Shapes
<1>3. "refusals" \in DOMAIN spent' /\ spent'.refusals = spent.refusals
  BY DEF paused, IInv, Shapes
<1>4. Shapes'
  BY <1>1, <1>2, <1>3 DEF IInv, Shapes, RowOK
<1> QED
  BY <1>1, <1>2, <1>4, NothingMoves DEF Kept

LEMMA RestartSteps ==
  ASSUME IInv, restart
  PROVE  Step
<1>1. PICK f \in Flights \cup {NoFlight} :
        /\ f # NoFlight => inProgress(f)
        /\ app' = [armed |-> NoFlight, orphaned |-> f, cancelling |-> NoFlight]
  BY DEF restart
<1>2. UNCHANGED db /\ tc' = NewController
      /\ "refusals" \in DOMAIN spent' /\ spent'.refusals \in Nat
  BY DEF restart, IInv, Shapes
<1>3. "recorder" \in DOMAIN tc' /\ tc'.recorder = NoFlight
  BY <1>2 DEF NewController
<1>4. RecordedHasBegun' /\ ArmedIsPlanned' /\ AskedAboutExists'
  BY <1>1, <1>2, <1>3 DEF RecordedHasBegun, ArmedIsPlanned, AskedAboutExists, inProgress
<1> QED
  BY <1>1, <1>2, <1>3, <1>4, RowsStay

LEMMA AutoStartSteps ==
  ASSUME IInv, autoStart
  PROVE  Step
<1>1. /\ app.armed \in Flights /\ db[app.armed].status \in {"planned", "abandoned"}
      /\ "create" \notin Refusable => db[app.armed].status = "planned"
      /\ ~db[app.armed].deleted /\ app' = [app EXCEPT !.armed = NoFlight]
  BY DEF autoStart, IInv, Shapes, ArmedIsPlanned
<1>2. ASSUME NEW refused, start(app.armed, refused)
      PROVE  Step
  BY <1>1, <1>2, StartSteps
<1>3. CASE UNCHANGED <<db, tc, pending, telemetry, spent>>
  BY <1>1, <1>3, OnlyDisarms DEF IInv, Shapes
<1> QED
  BY <1>2, <1>3 DEF autoStart

\* The three ways to delete a flight.
LEMMA FlightDeleteSteps ==
  ASSUME IInv, NEW f \in Flights, flightDelete(f)
  PROVE  Step
<1>1. db[f].status \in {"active", "completed"} /\ UNCHANGED app
  BY DEF flightDelete
<1>2. app.armed # f
  BY <1>1, TrackingAssumption DEF IInv, ArmedIsPlanned
<1>3. app' \in [armed : {app.armed, NoFlight}, orphaned : {app.orphaned, NoFlight},
                cancelling : {app.cancelling, NoFlight}] /\ app'.armed # f
  BY <1>1, <1>2 DEF IInv, Shapes
<1>4. CASE /\ Refusing({}) /\ db' = Deleted(db, f)
           /\ tc' = IF Tracked(f) THEN [tc EXCEPT !.recorder = NoFlight] ELSE tc
  <2>1. "recorder" \in DOMAIN tc' /\ tc'.recorder \in {tc.recorder, NoFlight}
    BY <1>4 DEF IInv, Shapes
  <2> QED
    BY <1>1, <1>3, <1>4, <2>1, SpentCounts, DeleteSteps
<1>5. CASE Refused("delete")
  BY <1>1, <1>5, RefusedSteps
<1> QED
  BY <1>4, <1>5 DEF flightDelete

LEMMA DiscardSteps ==
  ASSUME IInv, trackingDiscardOrphaned
  PROVE  Step
<1> DEFINE f == app.orphaned
<1>1. f \in Flights /\ db[f].status # "none" /\ app.armed = NoFlight
  BY DEF trackingDiscardOrphaned, IInv, Shapes, AskedAboutExists, ArmedIsPlanned
<1>2. CASE /\ Refusing({}) /\ db' = Deleted(db, f) /\ UNCHANGED tc
           /\ app' = [app EXCEPT !.orphaned = NoFlight]
  <2>1. app' \in [armed : {app.armed, NoFlight}, orphaned : {app.orphaned, NoFlight},
                  cancelling : {app.cancelling, NoFlight}] /\ app'.armed # f
    BY <1>1, <1>2, TrackingAssumption DEF IInv, Shapes
  <2> QED
    BY <1>1, <1>2, <2>1, SpentCounts, DeleteSteps DEF IInv, Shapes
<1>3. CASE Refused("delete") /\ UNCHANGED app
  BY <1>3, RefusedSteps
<1> QED
  BY <1>2, <1>3 DEF trackingDiscardOrphaned

LEMMA CancelSteps ==
  ASSUME IInv, flightCancel
  PROVE  Step
<1> DEFINE f == app.cancelling
<1>1. f \in Flights /\ db[f].status # "none"
  BY DEF flightCancel, IInv, Shapes, AskedAboutExists
<1>2. CASE /\ Refusing({}) /\ db' = Deleted(db, f) /\ UNCHANGED tc
           /\ app' = [app EXCEPT !.cancelling = NoFlight, !.armed = NoFlight]
  <2>1. app' \in [armed : {app.armed, NoFlight}, orphaned : {app.orphaned, NoFlight},
                  cancelling : {app.cancelling, NoFlight}] /\ app'.armed # f
    BY <1>1, <1>2, TrackingAssumption DEF IInv, Shapes
  <2> QED
    BY <1>1, <1>2, <2>1, SpentCounts, DeleteSteps DEF IInv, Shapes
<1>3. CASE Refused("delete") /\ app' = [app EXCEPT !.cancelling = NoFlight]
  BY <1>3, RefusedSteps
<1> QED
  BY <1>2, <1>3 DEF flightCancel

-----------------------------------------------------------------------------
(* The theorems.                                                           *)

LEMMA InitIInv ==
  ASSUME Init
  PROVE  IInv /\ Lifecycle!Init
<1>1. /\ db = [f \in Flights |-> NoRow] /\ tc = NewController
      /\ app = [armed |-> NoFlight, orphaned |-> NoFlight, cancelling |-> NoFlight]
      /\ spent = [refusals |-> 0, pauses |-> 0, restarts |-> 0]
  BY DEF Init
<1>2. "recorder" \in DOMAIN tc /\ tc.recorder = NoFlight
  BY <1>1 DEF NewController
<1>3. \A f \in Flights : RowOK(db[f]) /\ stageOf(f) = "none"
  BY <1>1 DEF NoRow, RowOK, Statuses, stageOf
<1>4. Shapes
  BY <1>1, <1>2, <1>3 DEF Shapes
<1>5. RecordedHasBegun /\ ArmedIsPlanned /\ AskedAboutExists
  BY <1>1, <1>2 DEF RecordedHasBegun, ArmedIsPlanned, AskedAboutExists
<1> QED
  BY <1>3, <1>4, <1>5 DEF IInv, Lifecycle!Init

\* The calls that begin or end what the windows show, one at a time.
LEMMA CallSteps ==
  ASSUME IInv, NEW f \in Flights,
         \/ trackingStart(f) \/ trackingStartFree(f) \/ flightCreate(f)
         \/ askCancel(f) \/ flightDelete(f)
  PROVE  Step
<1>1. CASE trackingStart(f)
  BY <1>1, StartSteps DEF trackingStart
<1>2. CASE trackingStartFree(f)
  BY <1>2, StartFreeSteps DEF trackingStartFree
<1>3. CASE flightCreate(f)
  BY <1>3, CreateSteps
<1>4. CASE askCancel(f)
  <2>1. UNCHANGED <<db, tc, spent>> /\ app' = [app EXCEPT !.cancelling = f]
        /\ db[f].status # "none"
    BY <1>4 DEF askCancel
  <2>2. app' \in [armed : {app.armed}, orphaned : {app.orphaned, NoFlight},
                  cancelling : Flights \cup {NoFlight}] /\ app'.cancelling = f
    BY <2>1 DEF IInv, Shapes
  <2> QED
    BY <2>1, <2>2, DialogSteps
<1>5. CASE flightDelete(f)
  BY <1>5, FlightDeleteSteps
<1> QED
  BY <1>1, <1>2, <1>3, <1>4, <1>5

\* A dialog closes without an answer.
LEMMA CloseSteps ==
  ASSUME IInv, dismissCancel \/ closeOrphanedPrompt
  PROVE  Step
<1>1. UNCHANGED <<db, tc, spent>>
      /\ app' \in {[app EXCEPT !.cancelling = NoFlight], [app EXCEPT !.orphaned = NoFlight]}
  BY DEF dismissCancel, closeOrphanedPrompt
<1>2. app' \in [armed : {app.armed}, orphaned : {app.orphaned, NoFlight},
                cancelling : Flights \cup {NoFlight}]
      /\ app'.cancelling \in {app.cancelling, NoFlight}
  BY <1>1 DEF IInv, Shapes
<1>3. app'.cancelling # NoFlight => db[app'.cancelling].status # "none"
  BY <1>2 DEF IInv, AskedAboutExists
<1> QED
  BY <1>1, <1>2, <1>3, DialogSteps

LEMMA StopTrackingSteps ==
  ASSUME IInv, trackingStop
  PROVE  Step
<1>1. CASE Refusing({}) /\ db' = Stopped(db) /\ tc' = [tc EXCEPT !.recorder = NoFlight]
           /\ UNCHANGED app
  BY <1>1, SpentCounts, StopSteps
<1>2. CASE Refused("delete") /\ UNCHANGED app
  BY <1>2, RefusedSteps
<1> QED
  BY <1>1, <1>2 DEF trackingStop, stop

LEMMA NextStep ==
  ASSUME IInv, Next
  PROVE  Step
<1>1. CASE \E t \in Samples : sample(t)
  BY <1>1, IngestSteps DEF sample
<1>2. CASE \E isPaused \in BOOLEAN : paused(isPaused)
  BY <1>2, PausedSteps
<1>3. CASE \E p \in pending : upgradeLandingFromSim(p)
  BY <1>3, LateAnswerSteps
<1>4. CASE \E f \in Flights : \/ trackingStart(f) \/ trackingStartFree(f) \/ flightCreate(f)
                              \/ askCancel(f) \/ flightDelete(f)
  BY <1>4, CallSteps
<1>5. CASE trackingStop
  BY <1>5, StopTrackingSteps
<1>6. CASE trackingFinish
  BY <1>6, FinishSteps DEF trackingFinish
<1>7. CASE trackingSetDestination
  BY <1>7, DestinationSteps
<1>8. CASE dismissCancel \/ closeOrphanedPrompt
  BY <1>8, CloseSteps
<1>9. CASE flightCancel
  BY <1>9, CancelSteps
<1>10. CASE trackingResumeOrphaned
  BY <1>10, ResumeSteps
<1>11. CASE trackingDiscardOrphaned
  BY <1>11, DiscardSteps
<1>12. CASE autoStart
  BY <1>12, AutoStartSteps
<1>13. CASE restart
  BY <1>13, RestartSteps
<1> QED
  BY <1>1, <1>2, <1>3, <1>4, <1>5, <1>6, <1>7, <1>8, <1>9, <1>10, <1>11, <1>12, <1>13 DEF Next

\* Every step keeps the invariant and, unless a createFlight() may be refused, is a step of
\* FlightLifecycle, or moves no flight.
LEMMA NextSteps ==
  ASSUME IInv, [Next]_vars
  PROVE  /\ IInv'
         /\ "create" \notin Refusable => [Lifecycle!Next]_([f \in Flights |-> stageOf(f)])
<1>1. CASE UNCHANGED vars
  <2>1. IInv'
    BY <1>1 DEF vars, IInv, Shapes, RowOK, RecordedHasBegun, ArmedIsPlanned, AskedAboutExists
  <2>2. UNCHANGED [f \in Flights |-> stageOf(f)]
    BY <1>1 DEF vars, stageOf
  <2> QED
    BY <2>1, <2>2
<1>2. CASE Next
  BY <1>2, NextStep DEF Step, Moves
<1> QED
  BY <1>1, <1>2

\* The invariant of flight tracking.
THEOREM TrackingInvariant == Spec => []IInv
<1>1. Init => IInv
  BY InitIInv
<1>2. IInv /\ [Next]_vars => IInv'
  BY NextSteps
<1> QED
  BY <1>1, <1>2, PTL DEF Spec

\* Whatever is refused, and whenever the process ends, the flight in the recorder has begun,
\* and the watch is not armed while the prompt for an orphaned flight is open.  What it waits
\* for is a plan that can still be flown, as long as no createFlight() is refused, and
\* otherwise such a plan or one that was just replaced: never a flight that has begun or was
\* deleted.
THEOREM WatchAndRecorder == Spec => [](RecordedHasBegun /\ ArmedIsPlanned)
<1>1. IInv => RecordedHasBegun /\ ArmedIsPlanned
  BY DEF IInv
<1> QED
  BY <1>1, TrackingInvariant, PTL

\* Unless a createFlight() is refused, flight tracking implements the lifecycle of the
\* logbook's flights: no sample, call, late answer, restart or other refused write revives a
\* flight that is gone, completes one twice, or moves two forward at once.
THEOREM ImplementsLifecycle == "create" \notin Refusable => (Spec => LifecycleSpec)
<1> SUFFICES ASSUME "create" \notin Refusable
             PROVE  Spec => LifecycleSpec
  OBVIOUS
<1>1. Init => IInv /\ Lifecycle!Init
  BY InitIInv
<1>2. IInv /\ [Next]_vars => IInv' /\ [Lifecycle!Next]_([f \in Flights |-> stageOf(f)])
  BY NextSteps
<1> QED
  BY <1>1, <1>2, PTL DEF Spec, LifecycleSpec, Lifecycle!Spec

\* While no write is refused, the flight in the recorder is the active one: nothing starts,
\* retires or completes it behind the controller's back.
THEOREM RecordedIsActive == MaxRefusals = 0 => (Spec => []TrackedIsActive)
<1> SUFFICES ASSUME MaxRefusals = 0
             PROVE  Spec => []TrackedIsActive
  OBVIOUS
<1>1. RecordedHasBegun => TrackedIsActive
  BY DEF RecordedHasBegun, TrackedIsActive
<1> QED
  BY <1>1, WatchAndRecorder, PTL

-----------------------------------------------------------------------------
(* The landings, the liftoff and the arrival, for any number of flights,   *)
(* touchdowns, pauses and restarts, any samples, and answers of the sim in *)
(* any order, while no write is refused.                                   *)

\* Each touchdown under its own seq.
InOrder(touched) == [n \in Seqs |-> IF n <= touched THEN n ELSE 0]

\* A row has a landing for each touchdown, and none before it has begun; its arrival is from
\* one of them, or where it completed; a stored climb has its liftoff.
RowFields == {"touched", "landings", "off", "lastPoint", "arr"}

RowBooked(row) ==
  /\ RowFields \subseteq DOMAIN row
  /\ row.touched \in 0..MaxTouchdowns
  /\ row.status \in {"none", "planned"} => row.touched = 0
  /\ row.landings = InOrder(row.touched)
  /\ row.lastPoint = "climb" => row.off
  /\ row.arr \in Nat
  /\ row.arr <= row.touched \/ (row.arr = AtCompletion /\ row.status = "completed")

RowsBooked == \A f \in Flights : RowBooked(db[f])

\* The controller counts the touchdowns of its flight, and knows of no liftoff or climb that
\* the row does not.
Counts(c, row) ==
  /\ c.landingSeq = row.touched
  /\ c.offRecorded => row.off
  /\ c.state.phase = "climb" => row.off

Fields(c) == {"recorder", "state", "offRecorded", "landingSeq", "touchdown"} \subseteq DOMAIN c

RecorderBooked == Fields(tc) /\ (tc.recorder # NoFlight => Counts(tc, db[tc.recorder]))

\* What was asked about a touchdown is stored under that touchdown's seq.
Booked(p, row) == p.seq = p.touchdown /\ p.touchdown \in 1..row.touched

QuestionsBooked == \A p \in pending : p.flight \in Flights /\ Booked(p, db[p.flight])

\* While the prompt for an orphaned flight is open nothing is recorded, no other dialog is
\* open, and the flight is there: a resume finds its landings.
PromptIsOfItsFlight ==
  app.orphaned # NoFlight =>
    tc.recorder = NoFlight /\ app.cancelling = NoFlight /\ ~db[app.orphaned].deleted

BInv == RowsBooked /\ RecorderBooked /\ QuestionsBooked

\* No arrival goes back.
Onward == \A f \in Flights : db'[f].arr >= db[f].arr

-----------------------------------------------------------------------------
(* Numbers.                                                                *)

\* A touchdown of a flight has a seq of its own.
LEMMA RoomForTouchdowns ==
  ASSUME IsFiniteSet(Flights), NEW f \in Flights
  PROVE  MaxSeq \in Nat /\ MaxTouchdowns <= MaxSeq
<1>1. Cardinality(Flights) \in Nat /\ Cardinality(Flights) # 0
  BY FS_CardinalityType, FS_EmptySet
<1> DEFINE n == Cardinality(Flights)
           k == MaxTouchdowns
<1>2. n \in Nat /\ n >= 1 /\ k \in Nat
  BY <1>1, TrackingAssumption
<1> HIDE DEF n, k
<1>3. n * k \in Nat /\ k <= n * k
  BY <1>2
<1> QED
  BY <1>3 DEF MaxSeq, n, k

\* countLandings() is the touchdowns.
LEMMA LandingsCounted ==
  ASSUME IsFiniteSet(Flights), NEW f \in Flights, NEW row, ~row.deleted,
         row.touched \in 0..MaxTouchdowns, row.landings = InOrder(row.touched)
  PROVE  countLandings(row) = row.touched
<1>1. MaxSeq \in Nat /\ MaxTouchdowns <= MaxSeq /\ MaxTouchdowns \in Nat
  BY RoomForTouchdowns, TrackingAssumption
<1>2. {n \in Seqs : row.landings[n] # 0} = 1..row.touched
  BY <1>1 DEF Seqs, InOrder
<1>3. Cardinality(1..row.touched) = row.touched
  BY FS_Interval
<1> QED
  BY <1>2, <1>3 DEF countLandings

\* The landing of the next touchdown, under the next seq.
LEMMA NextInOrder ==
  ASSUME NEW touched \in Nat
  PROVE  [InOrder(touched) EXCEPT ![touched + 1] = touched + 1] = InOrder(touched + 1)
<1>1. [InOrder(touched) EXCEPT ![touched + 1] = touched + 1]
        = [k \in Seqs |-> IF k = touched + 1 THEN touched + 1 ELSE IF k <= touched THEN k ELSE 0]
  BY DEF InOrder
<1>2. \A k \in Seqs : (IF k = touched + 1 THEN touched + 1 ELSE IF k <= touched THEN k ELSE 0)
                      = (IF k <= touched + 1 THEN k ELSE 0)
  BY DEF Seqs
<1> QED
  BY <1>1, <1>2 DEF InOrder

\* Storing a landing again changes nothing.
LEMMA AgainInOrder ==
  ASSUME NEW touched \in Nat, NEW n \in 1..touched
  PROVE  [InOrder(touched) EXCEPT ![n] = n] = InOrder(touched)
<1>1. [InOrder(touched) EXCEPT ![n] = n]
        = [k \in Seqs |-> IF k = n THEN n ELSE IF k <= touched THEN k ELSE 0]
  BY DEF InOrder
<1>2. \A k \in Seqs : (IF k = n THEN n ELSE IF k <= touched THEN k ELSE 0)
                      = (IF k <= touched THEN k ELSE 0)
  BY DEF Seqs
<1> QED
  BY <1>1, <1>2 DEF InOrder

-----------------------------------------------------------------------------
(* One sample.                                                             *)

\* What the handler has done so far, m, books the flight f; c is the touchdown rule's state
\* and n the touchdowns before the sample, until the rule is asked.
Booking(m, f) ==
  /\ {"row", "tc", "pending", "thrown"} \subseteq DOMAIN m /\ "status" \in DOMAIN m.row
  /\ Fields(m.tc) /\ m.thrown = FALSE
  /\ m.row.status \in {"active", "completed"}
  /\ RowBooked(m.row) /\ db[f].arr \in 0..m.row.arr
  /\ m.tc.landingSeq = m.row.touched
  /\ m.tc.offRecorded => m.row.off
  /\ \A p \in m.pending : /\ p.flight = f => Booked(p, m.row)
                          /\ p.flight # f => p \in pending

\* Until the flight is completed.
Underway(m, f) == Booking(m, f) /\ m.row.status = "active"

Asking(m, f) ==
  Underway(m, f) /\ m.tc.touchdown = tc.touchdown /\ m.row.touched = db[f].touched

\* After the liftoff has been recorded.
Climbing(m) == phase(m) = "climb" => m.row.off

LEMMA IngestBooks ==
  ASSUME NEW m, NEW f, Asking(m, f), NEW x
  PROVE  Asking(Ingest(m, x), f)
BY DEF Asking, Underway, Booking, Fields, Ingest

LEMMA FuelBooks ==
  ASSUME NEW m, NEW f, Asking(m, f), NEW x, x.refused = {}
  PROVE  Asking(finalizeFuelOut(m, x), f)
<1> DEFINE set == [m EXCEPT !.tc.fuelOutFinalized = TRUE]
           new == [m.row EXCEPT !.fuel = TRUE]
           done == [set EXCEPT !.row = new]
<1>1. finalizeFuelOut(m, x) \in {m, done}
  BY DEF finalizeFuelOut, Save
<1>2. /\ "status" \in DOMAIN new /\ new.status = m.row.status /\ new.arr = m.row.arr
      /\ RowBooked(new) /\ new.touched = m.row.touched /\ new.off = m.row.off
  BY DEF Asking, Underway, Booking, RowBooked, RowFields
<1>3. /\ {"row", "tc", "pending", "thrown"} \subseteq DOMAIN done
      /\ done.row = new /\ done.pending = m.pending /\ done.thrown = m.thrown
      /\ Fields(done.tc) /\ done.tc.landingSeq = m.tc.landingSeq
      /\ done.tc.offRecorded = m.tc.offRecorded /\ done.tc.touchdown = m.tc.touchdown
  BY DEF Asking, Underway, Booking, Fields
<1> HIDE DEF new, done
<1>4. Asking(done, f)
  BY <1>2, <1>3 DEF Asking, Underway, Booking, Booked
<1> QED
  BY <1>1, <1>4

LEMMA OffBooks ==
  ASSUME NEW m, NEW f, Asking(m, f), NEW x, x.refused = {}
  PROVE  Asking(recordOff(m, x), f) /\ Climbing(recordOff(m, x))
<1> DEFINE set == [m EXCEPT !.tc.offRecorded = TRUE]
           new == [m.row EXCEPT !.off = TRUE]
           done == [set EXCEPT !.row = new]
<1>1. recordOff(m, x) = IF phase(m) # "climb" \/ m.tc.offRecorded THEN m ELSE done
  BY DEF recordOff, Save, Asking, Underway, Booking
<1>2. Climbing(m) \/ ~(phase(m) # "climb" \/ m.tc.offRecorded)
  BY DEF Climbing, Asking, Underway, Booking
<1>3. /\ "status" \in DOMAIN new /\ new.status = m.row.status /\ new.arr = m.row.arr
      /\ RowBooked(new) /\ new.touched = m.row.touched /\ new.off = TRUE
  BY DEF Asking, Underway, Booking, RowBooked, RowFields
<1>4. /\ {"row", "tc", "pending", "thrown"} \subseteq DOMAIN done
      /\ done.row = new /\ done.pending = m.pending /\ done.thrown = m.thrown
      /\ Fields(done.tc) /\ done.tc.landingSeq = m.tc.landingSeq
      /\ done.tc.touchdown = m.tc.touchdown
  BY DEF Asking, Underway, Booking, Fields
<1> HIDE DEF new, done
<1>5. Asking(done, f) /\ Climbing(done)
  BY <1>3, <1>4 DEF Asking, Underway, Booking, Booked, Climbing
<1> QED
  BY <1>1, <1>2, <1>5

\* The touchdown rule was asked with a touchdown to spare.
LEMMA TouchdownBooks ==
  ASSUME NEW m, NEW f, Underway(m, f), Climbing(m), NEW x, x.refused = {},
         m.row.touched < MaxTouchdowns
  PROVE  Underway(Touchdown(m, x, f), f) /\ Climbing(Touchdown(m, x, f))
<1> DEFINE n    == m.row.touched + 1
           seen == [m EXCEPT !.row.touched = n]
           won  == [seen.row EXCEPT !.on = TRUE]
           on   == Save(seen, "on", x.refused, won)
           next == [on EXCEPT !.tc.landingSeq = @ + 1]
           seq  == next.tc.landingSeq
           land == addLanding(next.row, seq, n)
           far  == [land EXCEPT !.arr = n]
           new  == IF m.tc.isFreeFlight /\ x.near THEN far ELSE land
           q    == [flight |-> f, seq |-> seq, touchdown |-> n]
           ask  == IF x.runway THEN next.pending ELSE next.pending \cup {q}
           told == [next EXCEPT !.row = land, !.pending = ask]
           done == IF m.tc.isFreeFlight /\ x.near THEN [told EXCEPT !.row = far] ELSE told
<1>1. Touchdown(m, x, f) = done
  <2>1. on.thrown = FALSE
    BY DEF Underway, Booking, Save
  <2>2. "landing" \notin x.refused
    OBVIOUS
  <2>3. Touchdown(m, x, f) = IF on.thrown THEN on
                             ELSE IF "landing" \in x.refused THEN [next EXCEPT !.thrown = TRUE]
                             ELSE IF m.tc.isFreeFlight /\ x.near
                               THEN Save(told, "arr", x.refused, far)
                             ELSE told
    BY DEF Touchdown
  <2> HIDE DEF on, told, far
  <2>4. Save(told, "arr", x.refused, far) = [told EXCEPT !.row = far]
    BY DEF Save
  <2> QED
    BY <2>1, <2>2, <2>3, <2>4
<1>2. /\ n \in 1..MaxTouchdowns /\ m.row.touched \in Nat /\ n = m.row.touched + 1
      /\ m.row.arr \in Nat /\ m.row.arr <= m.row.touched
  BY TrackingAssumption DEF Underway, Booking, RowBooked
<1>3. /\ {"status"} \cup RowFields \subseteq DOMAIN won
      /\ won.touched = n /\ won.landings = m.row.landings /\ won.off = m.row.off
      /\ won.status = m.row.status /\ won.arr = m.row.arr
      /\ won.lastPoint = m.row.lastPoint
  BY DEF Underway, Booking, RowBooked, RowFields
<1>4. /\ {"row", "tc", "pending", "thrown"} \subseteq DOMAIN next
      /\ next.row = won /\ next.pending = m.pending /\ next.thrown = FALSE
      /\ Fields(next.tc) /\ seq = m.tc.landingSeq + 1
      /\ next.tc.offRecorded = m.tc.offRecorded /\ next.tc.state = m.tc.state
  <2>1. on = [seen EXCEPT !.row = won]
    BY DEF Save
  <2> QED
    BY <2>1 DEF Underway, Booking, Fields
<1> HIDE DEF won, next
<1>5. seq = n
  BY <1>4 DEF Underway, Booking
<1> HIDE DEF seq
<1>6. /\ {"status"} \cup RowFields \subseteq DOMAIN land
      /\ land.touched = n /\ land.off = m.row.off
      /\ land.landings = [m.row.landings EXCEPT ![seq] = n]
      /\ land.status = m.row.status /\ land.arr = m.row.arr
      /\ land.lastPoint = m.row.lastPoint
  BY <1>3, <1>4 DEF addLanding, RowFields
<1> HIDE DEF land
<1>7. /\ {"status"} \cup RowFields \subseteq DOMAIN new
      /\ new.touched = n /\ new.off = m.row.off /\ new.landings = land.landings
      /\ new.status = m.row.status /\ new.arr \in {m.row.arr, n}
      /\ new.lastPoint = m.row.lastPoint
  BY <1>6 DEF RowFields
<1>8. land.landings = InOrder(n)
  BY <1>2, <1>5, <1>6, NextInOrder DEF Underway, Booking, RowBooked
<1>9. RowBooked(new) /\ db[f].arr \in 0..new.arr
  <2> HIDE DEF new, n
  <2>1. db[f].arr \in 0..m.row.arr
    BY DEF Underway, Booking
  <2> QED
    BY <1>2, <1>7, <1>8, <2>1 DEF Underway, Booking, RowBooked
<1>10. \A p \in ask : /\ p.flight = f => Booked(p, new)
                      /\ p.flight # f => p \in pending
  <2> SUFFICES ASSUME NEW p \in ask
               PROVE  /\ p.flight = f => Booked(p, new)
                      /\ p.flight # f => p \in pending
    OBVIOUS
  <2>1. CASE p = q
    BY <1>2, <1>5, <1>7, <2>1 DEF Booked
  <2>2. CASE p \in m.pending
    BY <1>2, <1>7, <2>2 DEF Underway, Booking, Booked
  <2> QED
    BY <1>4, <2>1, <2>2
<1> HIDE DEF far, ask
<1>11. /\ {"row", "tc", "pending", "thrown"} \subseteq DOMAIN done
       /\ done.row = new /\ done.pending = ask /\ done.thrown = FALSE /\ done.tc = next.tc
  BY <1>4
<1> HIDE DEF done, new
<1>12. Underway(done, f)
  BY <1>4, <1>5, <1>7, <1>9, <1>10, <1>11 DEF Underway, Booking, seq
<1>13. Climbing(done)
  BY <1>4, <1>7, <1>11 DEF Climbing, phase
<1> QED
  BY <1>1, <1>12, <1>13

LEMMA DetectBooks ==
  ASSUME NEW m, NEW f, Asking(m, f), Climbing(m), NEW x, x.refused = {},
         isTouchdown(tc.touchdown, x.t) => db[f].touched < MaxTouchdowns
  PROVE  Underway(detectTouchdown(m, x, f), f) /\ Climbing(detectTouchdown(m, x, f))
<1> DEFINE stepped == [m EXCEPT !.tc.touchdown = touchdownStep(@, x.t)]
<1>1. detectTouchdown(m, x, f) =
        IF m.thrown \/ ignored(x.t, m.tc.paused) THEN m
        ELSE IF isTouchdown(m.tc.touchdown, x.t) THEN Touchdown(stepped, x, f)
        ELSE stepped
  BY DEF detectTouchdown
<1>2. /\ Underway(stepped, f) /\ Climbing(stepped)
      /\ stepped.row.touched = m.row.touched
  BY DEF Asking, Underway, Booking, Fields, Climbing, phase
<1> HIDE DEF stepped
<1>3. isTouchdown(m.tc.touchdown, x.t) => stepped.row.touched < MaxTouchdowns
  BY <1>2 DEF Asking
<1>4. Underway(m, f)
  BY DEF Asking
<1> QED
  BY <1>1, <1>2, <1>3, <1>4, TouchdownBooks

LEMMA PointBooks ==
  ASSUME NEW m, NEW f, Underway(m, f), Climbing(m), NEW x
  PROVE  Underway(recordPoint(m, x), f) /\ Climbing(recordPoint(m, x))
<1> DEFINE new == [m.row EXCEPT !.lastPoint = phase(m)]
           done == [m EXCEPT !.row.lastPoint = phase(m)]
<1>1. recordPoint(m, x) \in {m, done}
  BY DEF recordPoint
<1>2. /\ "status" \in DOMAIN new /\ new.status = m.row.status /\ new.arr = m.row.arr
      /\ RowBooked(new) /\ new.touched = m.row.touched /\ new.off = m.row.off
  BY DEF Underway, Booking, RowBooked, RowFields, Climbing
<1>3. /\ {"row", "tc", "pending", "thrown"} \subseteq DOMAIN done
      /\ done.row = new /\ done.pending = m.pending /\ done.thrown = m.thrown /\ done.tc = m.tc
  BY DEF Underway, Booking
<1> HIDE DEF new, done
<1>4. Underway(done, f) /\ Climbing(done)
  BY <1>2, <1>3 DEF Underway, Booking, Booked, Climbing, phase
<1> QED
  BY <1>1, <1>4

LEMMA CompleteBooks ==
  ASSUME NEW m, NEW f, Underway(m, f), Climbing(m), NEW x, x.refused = {}
  PROVE  Booking(complete(m, x), f) /\ Climbing(complete(m, x))
<1> DEFINE resolved == Resolved(m, x)
           new  == [resolved.row EXCEPT !.status = "completed"]
           done == [resolved EXCEPT !.row = new]
           let  == [done EXCEPT !.tc.recorder = NoFlight]
<1>1. /\ {"row", "tc", "pending", "thrown"} \subseteq DOMAIN resolved
      /\ {"status"} \cup RowFields \subseteq DOMAIN resolved.row
      /\ resolved.pending = m.pending /\ resolved.thrown = FALSE /\ resolved.tc = m.tc
      /\ resolved.row.touched = m.row.touched /\ resolved.row.off = m.row.off
      /\ resolved.row.landings = m.row.landings /\ resolved.row.lastPoint = m.row.lastPoint
      /\ resolved.row.arr \in {m.row.arr, AtCompletion}
  <2> DEFINE far == [m.row EXCEPT !.arr = AtCompletion]
  <2>1. resolved \in {m, [m EXCEPT !.row = far]}
    BY DEF Resolved, Save
  <2>2. /\ {"status"} \cup RowFields \subseteq DOMAIN far
        /\ far.touched = m.row.touched /\ far.off = m.row.off
        /\ far.landings = m.row.landings /\ far.lastPoint = m.row.lastPoint
        /\ far.arr = AtCompletion
    BY DEF Underway, Booking, RowBooked, RowFields
  <2> HIDE DEF far, resolved
  <2> QED
    BY <2>1, <2>2 DEF Underway, Booking, RowBooked
<1> HIDE DEF resolved
<1>2. /\ "status" \in DOMAIN new /\ new.status = "completed" /\ RowFields \subseteq DOMAIN new
      /\ new.touched = m.row.touched /\ new.off = m.row.off
      /\ new.landings = m.row.landings /\ new.lastPoint = m.row.lastPoint
      /\ new.arr \in {m.row.arr, AtCompletion}
  BY <1>1 DEF RowFields
<1> HIDE DEF new
<1>3. RowBooked(new) /\ db[f].arr \in 0..new.arr
  <2>1. /\ db[f].arr \in Nat /\ m.row.arr \in Nat /\ db[f].arr <= m.row.arr
        /\ m.row.touched \in 0..MaxTouchdowns /\ m.row.arr <= m.row.touched
    BY TrackingAssumption DEF Underway, Booking, RowBooked
  <2>2. AtCompletion \in Nat /\ db[f].arr <= AtCompletion
    BY <2>1, TrackingAssumption DEF AtCompletion
  <2> QED
    BY <1>2, <2>1, <2>2 DEF Underway, Booking, RowBooked
<1>4. /\ {"row", "tc", "pending", "thrown"} \subseteq DOMAIN let
      /\ let.row = new /\ let.pending = m.pending /\ let.thrown = FALSE
      /\ Fields(let.tc) /\ let.tc.landingSeq = m.tc.landingSeq
      /\ let.tc.offRecorded = m.tc.offRecorded /\ let.tc.state = m.tc.state
  BY <1>1 DEF Underway, Booking, Fields
<1>5. complete(m, x) = let
  <2>1. Save(resolved, "complete", x.refused, new) = done
    BY DEF Save
  <2>2. done.thrown = FALSE
    BY <1>1
  <2> QED
    BY <1>1, <2>1, <2>2 DEF complete, resolved, new
<1> HIDE DEF let
<1>6. Booking(let, f) /\ Climbing(let)
  BY <1>2, <1>3, <1>4 DEF Underway, Booking, Booked, Climbing, phase
<1> QED
  BY <1>5, <1>6

LEMMA SampleBooks ==
  ASSUME IInv, BInv, MaxRefusals = 0, NEW f \in Flights, f = tc.recorder, f # NoFlight,
         NEW x, x.refused = {},
         isTouchdown(tc.touchdown, x.t) => db[f].touched < MaxTouchdowns
  PROVE  Booking(Handled(x, f), f) /\ Climbing(Handled(x, f))
<1> DEFINE before == [row |-> db[f], tc |-> tc, pending |-> pending, thrown |-> FALSE]
           m1 == Ingest(before, x)
           m2 == finalizeFuelOut(m1, x)
           m3 == recordOff(m2, x)
           m4 == detectTouchdown(m3, x, f)
           m5 == recordPoint(m4, x)
<1>1. Asking(before, f)
  BY DEF Asking, Underway, Booking, IInv, Shapes, RowOK, RecordedHasBegun, BInv, RowsBooked,
         RowBooked, RecorderBooked, Counts, QuestionsBooked
<1> HIDE DEF before
<1>2. Asking(m1, f)
  BY <1>1, IngestBooks
<1> HIDE DEF m1
<1>3. Asking(m2, f)
  BY <1>2, FuelBooks
<1> HIDE DEF m2
<1>4. Asking(m3, f) /\ Climbing(m3)
  BY <1>3, OffBooks
<1> HIDE DEF m3
<1>5. Underway(m4, f) /\ Climbing(m4)
  BY <1>4, DetectBooks
<1> HIDE DEF m4
<1>6. Underway(m5, f) /\ Climbing(m5)
  BY <1>5, PointBooks
<1>7. Handled(x, f) = completeAtShutdown(m5, x)
  BY DEF Handled, before, m1, m2, m3, m4
<1> HIDE DEF m5
<1>8. completeAtShutdown(m5, x) \in {m5, complete(m5, x)}
  BY DEF completeAtShutdown
<1> QED
  BY <1>6, <1>7, <1>8, CompleteBooks DEF Underway

-----------------------------------------------------------------------------
(* What keeps the books: rows whose touchdowns stay, a recorder's fields.  *)

RowSame(new, old) == RowBooked(new) /\ new.touched = old.touched
RowKeeps(new, old) == RowSame(new, old) /\ new.arr >= old.arr

LEMMA RowsKept ==
  ASSUME BInv, \A f \in Flights : RowSame(db'[f], db[f]), pending' \subseteq pending
  PROVE  RowsBooked' /\ QuestionsBooked'
<1>1. RowsBooked'
  BY DEF RowsBooked, RowSame
<1>2. ASSUME NEW p \in pending'
      PROVE  p.flight \in Flights /\ Booked(p, db'[p.flight])
  BY <1>2 DEF BInv, QuestionsBooked, RowSame, Booked
<1> QED
  BY <1>1, <1>2 DEF QuestionsBooked

LEMMA RowsOnward ==
  ASSUME \A f \in Flights : RowKeeps(db'[f], db[f])
  PROVE  /\ Onward /\ \A f \in Flights : RowSame(db'[f], db[f])
BY DEF RowKeeps, Onward

\* A row that is left alone.
LEMMA AloneKeeps ==
  ASSUME BInv, NEW f \in Flights
  PROVE  RowKeeps(db[f], db[f])
BY DEF BInv, RowsBooked, RowBooked, RowKeeps, RowSame

\* The recorder is kept or let go, and its flight keeps its liftoff.
LEMMA RecorderKept ==
  ASSUME BInv, Fields(tc'), tc'.recorder \in {tc.recorder, NoFlight},
         tc'.landingSeq = tc.landingSeq, tc'.offRecorded = tc.offRecorded, tc'.state = tc.state,
         tc.recorder # NoFlight =>
           RowSame(db'[tc.recorder], db[tc.recorder])
             /\ (db[tc.recorder].off => db'[tc.recorder].off)
  PROVE  RecorderBooked'
BY DEF BInv, RecorderBooked, Counts, RowSame

LEMMA LetGo ==
  ASSUME BInv, tc' = tc \/ tc' = [tc EXCEPT !.recorder = NoFlight]
  PROVE  /\ Fields(tc') /\ tc'.recorder \in {tc.recorder, NoFlight}
         /\ tc'.landingSeq = tc.landingSeq /\ tc'.offRecorded = tc.offRecorded
         /\ tc'.state = tc.state
BY DEF BInv, RecorderBooked, Fields

\* A step that leaves every row alone, and no more than lets the recorder go.
LEMMA RowsAlone ==
  ASSUME IInv, BInv, UNCHANGED db, tc' = tc \/ tc' = [tc EXCEPT !.recorder = NoFlight],
         pending' \subseteq pending
  PROVE  BInv' /\ Onward
<1>1. \A f \in Flights : RowKeeps(db'[f], db[f])
  BY AloneKeeps
<1>2. RecorderBooked'
  BY <1>1, LetGo, RecorderKept, RowsOnward DEF IInv, Shapes
<1> QED
  BY <1>1, <1>2, RowsKept, RowsOnward DEF BInv

\* deleteFlight(), by whoever calls it.
LEMMA DeletedKeeps ==
  ASSUME IInv, BInv, NEW f \in Flights, NEW g \in Flights
  PROVE  /\ RowKeeps(Deleted(db, f)[g], db[g])
         /\ Deleted(db, f)[g].status = db[g].status /\ Deleted(db, f)[g].off = db[g].off
<1>1. DOMAIN db = Flights /\ RowOK(db[g]) /\ RowBooked(db[g])
  BY DEF IInv, Shapes, BInv, RowsBooked
<1>2. CASE g # f
  BY <1>1, <1>2, AloneKeeps DEF Deleted
<1>3. CASE g = f
  <2>1. Deleted(db, f)[f] = [db[f] EXCEPT !.deleted = TRUE, !.lastPoint = "none"]
    BY <1>1, <1>3 DEF Deleted
  <2>2. /\ Deleted(db, f)[f].lastPoint = "none" /\ Deleted(db, f)[f].status = db[f].status
        /\ Deleted(db, f)[f].off = db[f].off /\ Deleted(db, f)[f].touched = db[f].touched
        /\ Deleted(db, f)[f].landings = db[f].landings /\ Deleted(db, f)[f].arr = db[f].arr
        /\ RowFields \subseteq DOMAIN Deleted(db, f)[f]
    BY <1>1, <1>3, <2>1 DEF RowOK, RowBooked, RowFields
  <2> QED
    BY <1>1, <1>3, <2>2 DEF RowKeeps, RowSame, RowBooked
<1> QED
  BY <1>2, <1>3

LEMMA StoppedKeeps ==
  ASSUME IInv, BInv, NEW g \in Flights
  PROVE  /\ RowKeeps(Stopped(db)[g], db[g])
         /\ Stopped(db)[g].status = db[g].status /\ Stopped(db)[g].off = db[g].off
<1>1. CASE tc.recorder = NoFlight
  BY <1>1, AloneKeeps DEF Stopped
<1>2. CASE tc.recorder # NoFlight
  BY <1>2, DeletedKeeps DEF Stopped, IInv, Shapes
<1> QED
  BY <1>1, <1>2

LEMMA NoneRefused ==
  ASSUME IInv, MaxRefusals = 0, NEW refused, Refusing(refused)
  PROVE  refused = {} /\ UNCHANGED spent
BY DEF IInv, Shapes, Refusing

LEMMA NotRefused ==
  ASSUME IInv, MaxRefusals = 0, NEW write
  PROVE  ~Refused(write) /\ ~Refusing({write})
BY NoneRefused DEF Refused

-----------------------------------------------------------------------------
(* Samples, and "Finish & save".                                           *)

LEMMA LeavesBooks ==
  ASSUME IInv, BInv, NEW f \in Flights, f = tc.recorder, NEW m, Booking(m, f), Climbing(m),
         m.tc.recorder \in {f, NoFlight}, Leaves(m, f)
  PROVE  BInv' /\ Onward
<1>1. /\ db'[f] = m.row /\ \A g \in Flights : g # f => db'[g] = db[g]
      /\ tc' = m.tc /\ pending' = m.pending
  BY DEF Leaves, IInv, Shapes
<1>2. RowsBooked'
  BY <1>1 DEF BInv, RowsBooked, Booking
<1>3. RecorderBooked'
  BY <1>1 DEF RecorderBooked, Counts, Booking, Climbing, phase
<1>4. QuestionsBooked'
  BY <1>1 DEF BInv, QuestionsBooked, Booking
<1>5. Onward
  BY <1>1 DEF Onward, Booking, RowBooked, BInv, RowsBooked
<1> QED
  BY <1>2, <1>3, <1>4, <1>5 DEF BInv

LEMMA IngestKeeps ==
  ASSUME IInv, BInv, MaxRefusals = 0, NEW t \in Samples, NEW refused, ingest(t, refused)
  PROVE  BInv' /\ Onward
<1>1. CASE tc.recorder = NoFlight
  BY <1>1, RowsAlone DEF ingest
<1>2. CASE tc.recorder # NoFlight
  <2>1. PICK due, autoFinish, near, runway :
          Leaves(Handled([t |-> t, refused |-> refused, due |-> due,
                          autoFinish |-> autoFinish, near |-> near,
                          runway |-> runway], tc.recorder), tc.recorder)
    BY <1>2, OneOutcome DEF ingest
  <2> DEFINE f == tc.recorder
             x == [t |-> t, refused |-> refused, due |-> due, autoFinish |-> autoFinish,
                   near |-> near, runway |-> runway]
             m == Handled(x, f)
  <2>2. f \in Flights /\ x.refused = {} /\ x.t = t
        /\ (isTouchdown(tc.touchdown, t) => db[f].touched < MaxTouchdowns)
    BY <1>2, NoneRefused DEF ingest, IInv, Shapes
  <2>3. Completed(m, db[f], f, x.refused)
    BY <1>2, <2>2, SampleCompletes DEF IInv, Shapes, RowOK
  <2>4. Leaves(m, f)
    BY <2>1
  <2> HIDE DEF x
  <2>5. Booking(m, f) /\ Climbing(m)
    BY <1>2, <2>2, SampleBooks
  <2> HIDE DEF m
  <2> QED
    BY <2>2, <2>3, <2>4, <2>5, LeavesBooks DEF Completed
<1> QED
  BY <1>1, <1>2

LEMMA FinishKeeps ==
  ASSUME IInv, BInv, MaxRefusals = 0, NEW near, NEW refused, finish(near, refused)
  PROVE  BInv' /\ Onward
<1> DEFINE f == tc.recorder
           before == [row |-> db[f], tc |-> tc, pending |-> pending, thrown |-> FALSE]
           x == [near |-> near /\ telemetry # NoSample, refused |-> refused]
           m == complete(before, x)
<1>1. f \in Flights /\ f # NoFlight /\ x.refused = {}
  BY NoneRefused DEF finish, IInv, Shapes
<1>2. Underway(before, f) /\ Climbing(before)
  BY <1>1 DEF Underway, Booking, Climbing, phase, IInv, Shapes, RowOK, RecordedHasBegun, BInv,
              RowsBooked, RowBooked, RecorderBooked, Counts, QuestionsBooked
<1>3. Carried(before, db[f], f) /\ ~before.thrown
  BY <1>1 DEF Carried, IInv, Shapes, RowOK
<1>4. Leaves(m, f)
  BY DEF finish
<1> HIDE DEF before, x
<1>5. Booking(m, f) /\ Climbing(m)
  BY <1>1, <1>2, CompleteBooks
<1>6. Completed(m, db[f], f, x.refused)
  BY <1>3, CompleteCompletes
<1> HIDE DEF m
<1> QED
  BY <1>1, <1>4, <1>5, <1>6, LeavesBooks DEF Completed

-----------------------------------------------------------------------------
(* The calls.                                                              *)

\* A flight begins, and is in the recorder unless it was let go.
LEMMA BeginBooks ==
  ASSUME IInv, BInv, NEW f \in Flights, RowKeeps(db'[f], db[f]),
         \A g \in Flights : g # f => db'[g] = Stopped(db)[g], UNCHANGED pending,
         Fields(tc'), tc'.recorder \in {f, NoFlight}, Counts(tc', db'[f])
  PROVE  BInv' /\ Onward
<1>1. \A g \in Flights : RowKeeps(db'[g], db[g])
  BY StoppedKeeps
<1>2. RecorderBooked'
  BY DEF RecorderBooked, Counts
<1> QED
  BY <1>1, <1>2, RowsKept, RowsOnward DEF BInv

\* The flight recorded goes, and no other begins.
LEMMA StopBooks ==
  ASSUME IInv, BInv, db' = Stopped(db), tc' = [tc EXCEPT !.recorder = NoFlight],
         UNCHANGED pending
  PROVE  BInv' /\ Onward
<1>1. \A g \in Flights : RowKeeps(db'[g], db[g])
  BY StoppedKeeps
<1>2. RecorderBooked'
  BY DEF BInv, RecorderBooked, Fields
<1> QED
  BY <1>1, <1>2, RowsKept, RowsOnward DEF BInv

LEMMA StartKeeps ==
  ASSUME IInv, BInv, MaxRefusals = 0, NEW f \in Flights, db[f].status = "planned",
         NEW refused, start(f, refused)
  PROVE  BInv' /\ Onward
<1>1. f # tc.recorder /\ UNCHANGED pending /\ RowOK(db[f]) /\ RowBooked(db[f])
  BY TrackingAssumption DEF IInv, Shapes, RecordedHasBegun, start, BInv, RowsBooked
<1> DEFINE begins ==
             /\ db' = [Stopped(db) EXCEPT ![f].status = "active"]
             /\ tc' = Reset(Recording(f, NewPhaseState("preflight", FALSE), FALSE), 0, FALSE, FALSE)
<1>5. \/ UNCHANGED <<db, tc>>
      \/ db' = Stopped(db) /\ tc' = [tc EXCEPT !.recorder = NoFlight]
      \/ begins
  BY DEF start, Refused
<1>2. CASE UNCHANGED <<db, tc>>
  BY <1>1, <1>2, RowsAlone
<1>3. CASE db' = Stopped(db) /\ tc' = [tc EXCEPT !.recorder = NoFlight]
  BY <1>1, <1>3, StopBooks
<1>4. CASE begins
  <2>1. /\ db' = [Stopped(db) EXCEPT ![f].status = "active"]
        /\ tc' = Reset(Recording(f, NewPhaseState("preflight", FALSE), FALSE), 0, FALSE, FALSE)
    BY <1>4
  <2>2. /\ Fields(tc') /\ tc'.recorder = f /\ tc'.landingSeq = 0 /\ tc'.offRecorded = FALSE
        /\ tc'.state = NewPhaseState("preflight", FALSE)
    BY <2>1 DEF Reset, Recording, BInv, RecorderBooked, Fields
  <2>3. tc'.state.phase = "preflight"
    BY <2>2 DEF NewPhaseState
  <2>4. /\ db'[f] = [db[f] EXCEPT !.status = "active"]
        /\ \A g \in Flights : g # f => db'[g] = Stopped(db)[g]
    BY <1>1, <2>1, StoppedRows
  <2>5. RowKeeps(db'[f], db[f]) /\ db'[f].touched = 0
    BY <1>1, <2>4 DEF RowKeeps, RowSame, RowBooked, RowFields, RowOK
  <2>6. Counts(tc', db'[f])
    BY <2>2, <2>3, <2>5 DEF Counts
  <2> QED
    BY <1>1, <2>2, <2>4, <2>5, <2>6, BeginBooks
<1> QED
  BY <1>5, <1>2, <1>3, <1>4

\* A row just made has no touchdown.
LEMMA NewRowBooked ==
  ASSUME IInv, BInv, NEW f \in Flights, db[f].status = "none", NEW new,
         RowFields \subseteq DOMAIN new, new.touched = 0, new.arr = 0,
         new.landings = [n \in Seqs |-> 0], new.lastPoint = "none"
  PROVE  RowKeeps(new, db[f])
<1>1. new.landings = InOrder(0)
  BY DEF InOrder, Seqs
<1>2. db[f].touched = 0 /\ db[f].arr = 0
  BY DEF BInv, RowsBooked, RowBooked
<1> QED
  BY <1>1, <1>2, TrackingAssumption DEF RowKeeps, RowSame, RowBooked

LEMMA StartFreeKeeps ==
  ASSUME IInv, BInv, MaxRefusals = 0, NEW f \in Flights, NEW refused, startFree(f, refused)
  PROVE  BInv' /\ Onward
<1> DEFINE phaseNow == seedPhaseFromTelemetry(telemetry)
           airborne == phaseNow \notin {"preflight", "taxi"}
           new == [NoRow EXCEPT !.status = "active", !.free = TRUE]
           created == [Stopped(db) EXCEPT ![f] = new]
           begun == [new EXCEPT !.off = airborne]
<1>1. db[f].status = "none" /\ UNCHANGED pending
  BY DEF startFree
<1>5. \/ UNCHANGED <<db, tc>>
      \/ db' = Stopped(db) /\ tc' = [tc EXCEPT !.recorder = NoFlight]
      \/ /\ db' = [created EXCEPT ![f].off = airborne]
         /\ tc' = Reset(Recording(f, NewPhaseState(phaseNow, FALSE), airborne), 0, FALSE, TRUE)
  <2>1. ~Refused("delete")
        /\ (Refusing(refused) => "remember" \notin refused /\ "off" \notin refused)
    BY NoneRefused, NotRefused
  <2>2. CASE telemetry = NoSample \/ "start" \in refused
    BY <2>1, <2>2 DEF startFree
  <2>3. CASE ~(telemetry = NoSample \/ "start" \in refused)
    BY <2>1, <2>3 DEF startFree
  <2> QED
    BY <2>2, <2>3
<1>2. CASE UNCHANGED <<db, tc>>
  BY <1>1, <1>2, RowsAlone
<1>3. CASE db' = Stopped(db) /\ tc' = [tc EXCEPT !.recorder = NoFlight]
  BY <1>1, <1>3, StopBooks
<1>4. CASE /\ db' = [created EXCEPT ![f].off = airborne]
           /\ tc' = Reset(Recording(f, NewPhaseState(phaseNow, FALSE), airborne), 0, FALSE, TRUE)
  <2>1. /\ db' = [created EXCEPT ![f].off = airborne]
        /\ tc' = Reset(Recording(f, NewPhaseState(phaseNow, FALSE), airborne), 0, FALSE, TRUE)
    BY <1>4
  <2>2. /\ Fields(tc') /\ tc'.recorder = f /\ tc'.landingSeq = 0 /\ tc'.offRecorded = airborne
        /\ tc'.state = NewPhaseState(phaseNow, FALSE)
    BY <2>1 DEF Reset, Recording, BInv, RecorderBooked, Fields
  <2>3. tc'.state.phase = phaseNow
    BY <2>2 DEF NewPhaseState
  <2>4. DOMAIN created = Flights /\ created[f] = new
        /\ \A g \in Flights : g # f => created[g] = Stopped(db)[g]
    BY StoppedRows
  <2> HIDE DEF created, new
  <2>5. db'[f] = begun /\ \A g \in Flights : g # f => db'[g] = Stopped(db)[g]
    BY <2>1, <2>4
  <2>6. /\ RowFields \subseteq DOMAIN begun
        /\ begun.touched = 0 /\ begun.off = airborne /\ begun.lastPoint = "none"
        /\ begun.landings = [n \in Seqs |-> 0] /\ begun.arr = 0
    BY DEF new, NoRow, RowFields
  <2> HIDE DEF begun
  <2>7. RowKeeps(db'[f], db[f])
    BY <1>1, <2>5, <2>6, NewRowBooked
  <2>8. Counts(tc', db'[f])
    BY <2>2, <2>3, <2>5, <2>6 DEF Counts
  <2> QED
    BY <1>1, <2>2, <2>5, <2>7, <2>8, BeginBooks
<1> QED
  BY <1>5, <1>2, <1>3, <1>4

LEMMA CreateKeeps ==
  ASSUME IInv, BInv, MaxRefusals = 0, NEW f \in Flights, flightCreate(f)
  PROVE  BInv' /\ Onward
<1> DEFINE new == [NoRow EXCEPT !.status = "planned"]
<1>6. /\ db[f].status = "none" /\ UNCHANGED pending
      /\ db' = [Abandoned(Stopped(db)) EXCEPT ![f] = new]
      /\ tc' = [tc EXCEPT !.recorder = NoFlight]
  BY NotRefused DEF flightCreate
<1>1. /\ db[f].status = "none" /\ UNCHANGED pending
      /\ db'[f] = new
      /\ \A g \in Flights : g # f => db'[g] = Abandoned(Stopped(db))[g]
      /\ tc' = [tc EXCEPT !.recorder = NoFlight]
  <2>1. DOMAIN Abandoned(Stopped(db)) = Flights
    BY DEF Abandoned
  <2> HIDE DEF new
  <2> QED
    BY <1>6, <2>1
<1>2. /\ RowFields \subseteq DOMAIN new /\ new.arr = 0
      /\ new.touched = 0 /\ new.lastPoint = "none" /\ new.landings = [n \in Seqs |-> 0]
  BY DEF NoRow, RowFields
<1> HIDE DEF new
<1>3. RowKeeps(db'[f], db[f])
  BY <1>1, <1>2, NewRowBooked
<1>4. ASSUME NEW g \in Flights, g # f
      PROVE  RowKeeps(db'[g], db[g])
  <2>1. RowKeeps(Stopped(db)[g], db[g]) /\ RowOK(Stopped(db)[g])
        /\ Stopped(db)[g].status = db[g].status
    BY StoppedKeeps, StoppedRows
  <2>2. CASE db[g].status # "planned"
    BY <1>1, <1>4, <2>1, <2>2 DEF Abandoned
  <2>3. CASE db[g].status = "planned"
    <3>1. db'[g] = [Stopped(db)[g] EXCEPT !.status = "abandoned"]
      BY <1>1, <1>4, <2>1, <2>3 DEF Abandoned
    <3>2. db[g].touched = 0 /\ db[g].arr = 0
      BY <2>3 DEF BInv, RowsBooked, RowBooked
    <3> DEFINE old == Stopped(db)[g]
               gone == [old EXCEPT !.status = "abandoned"]
    <3>3. RowBooked(old) /\ old.touched = 0 /\ old.arr = 0
      BY <2>1, <2>3, <3>2 DEF RowKeeps, RowSame, RowBooked
    <3>4. /\ RowFields \subseteq DOMAIN gone /\ gone.status = "abandoned" /\ gone.touched = 0
          /\ gone.arr = 0 /\ gone.landings = old.landings /\ gone.off = old.off
          /\ gone.lastPoint = old.lastPoint
      BY <2>1, <3>3 DEF RowBooked, RowFields, RowOK
    <3> HIDE DEF gone, old
    <3> QED
      BY <3>1, <3>2, <3>3, <3>4 DEF RowKeeps, RowSame, RowBooked, gone, old
  <2> QED
    BY <2>2, <2>3
<1>5. RecorderBooked'
  BY <1>1 DEF BInv, RecorderBooked, Fields
<1> QED
  BY <1>1, <1>3, <1>4, <1>5, RowsKept, RowsOnward DEF BInv

LEMMA DeleteKeeps ==
  ASSUME IInv, BInv, NEW f \in Flights, db' = Deleted(db, f), UNCHANGED pending,
         tc' = tc \/ tc' = [tc EXCEPT !.recorder = NoFlight]
  PROVE  BInv' /\ Onward
<1>1. \A g \in Flights : RowKeeps(db'[g], db[g]) /\ db'[g].off = db[g].off
  BY DeletedKeeps
<1>2. RecorderBooked'
  BY <1>1, LetGo, RecorderKept, RowsOnward DEF IInv, Shapes
<1> QED
  BY <1>1, <1>2, RowsKept, RowsOnward DEF BInv

LEMMA ResumeKeeps ==
  ASSUME IInv, BInv, PromptIsOfItsFlight, IsFiniteSet(Flights), trackingResumeOrphaned
  PROVE  BInv' /\ Onward
<1> DEFINE f == app.orphaned
           row == db[f]
           lastPhase == IF row.lastPoint = "none" THEN "preflight" ELSE row.lastPoint
<1>1. f \in Flights /\ UNCHANGED <<db, pending>> /\ resume(f)
      /\ RowBooked(row) /\ RowOK(row) /\ ~row.deleted
  BY DEF trackingResumeOrphaned, IInv, Shapes, BInv, RowsBooked, PromptIsOfItsFlight
<1>2. CASE row.status # "active"
  BY <1>1, <1>2, RowsAlone DEF resume
<1>3. CASE row.status = "active"
  <2>1. tc' = Reset(Recording(f, NewPhaseState(lastPhase, row.on), row.off),
                    countLandings(row), row.off, row.free)
    BY <1>1, <1>3 DEF resume
  <2>2. /\ Fields(tc') /\ tc'.recorder = f /\ tc'.landingSeq = countLandings(row)
        /\ tc'.offRecorded = row.off /\ tc'.state = NewPhaseState(lastPhase, row.on)
    BY <2>1 DEF Reset, Recording, BInv, RecorderBooked, Fields
  <2>3. tc'.state.phase = lastPhase
    BY <2>2 DEF NewPhaseState
  <2>4. countLandings(row) = row.touched
    BY <1>1, LandingsCounted DEF RowBooked
  <2>5. Counts(tc', row)
    BY <1>1, <2>2, <2>3, <2>4 DEF Counts, RowBooked
  <2>6. RecorderBooked'
    BY <1>1, <2>2, <2>5 DEF RecorderBooked
  <2>7. \A g \in Flights : RowKeeps(db'[g], db[g])
    BY <1>1, AloneKeeps
  <2> QED
    BY <1>1, <2>6, <2>7, RowsKept, RowsOnward DEF BInv
<1> QED
  BY <1>2, <1>3

LEMMA PausedKeeps ==
  ASSUME IInv, BInv, NEW isPaused, paused(isPaused)
  PROVE  BInv' /\ Onward
<1>1. UNCHANGED <<db, pending>>
  BY DEF paused
<1>2. /\ Fields(tc') /\ tc'.recorder = tc.recorder /\ tc'.landingSeq = tc.landingSeq
      /\ tc'.offRecorded = tc.offRecorded /\ tc'.state = tc.state
  BY DEF paused, BInv, RecorderBooked, Fields
<1>3. \A g \in Flights : RowKeeps(db'[g], db[g])
  BY <1>1, AloneKeeps
<1>4. RecorderBooked'
  BY <1>1, <1>2, <1>3, RecorderKept, RowsOnward DEF IInv, Shapes
<1> QED
  BY <1>1, <1>3, <1>4, RowsKept, RowsOnward DEF BInv

\* Only the pilot takes an arrival back, of the flight being recorded.
LEMMA DestinationKeeps ==
  ASSUME IInv, BInv, MaxRefusals = 0, trackingSetDestination
  PROVE  BInv' /\ \A f \in Flights : db'[f].arr < db[f].arr => db'[f].arr = 0 /\ Tracked(f)
<1> DEFINE f == tc.recorder
<1>1. f \in Flights /\ db' = [db EXCEPT ![f].arr = 0] /\ UNCHANGED <<tc, pending>>
  BY NotRefused DEF trackingSetDestination, IInv, Shapes
<1>2. ASSUME NEW g \in Flights
      PROVE  /\ RowSame(db'[g], db[g]) /\ db'[g].off = db[g].off
             /\ db'[g].arr < db[g].arr => db'[g].arr = 0 /\ Tracked(g)
  <2>1. RowBooked(db[g]) /\ DOMAIN db = Flights
    BY DEF BInv, RowsBooked, IInv, Shapes
  <2>2. CASE g # f
    BY <1>1, <2>1, <2>2 DEF RowSame, RowBooked
  <2>3. CASE g = f
    <3> DEFINE new == [db[g] EXCEPT !.arr = 0]
    <3>1. db'[g] = new
      BY <1>1, <2>1, <2>3
    <3>2. /\ RowFields \subseteq DOMAIN new /\ new.touched = db[g].touched
          /\ new.status = db[g].status /\ new.landings = db[g].landings
          /\ new.lastPoint = db[g].lastPoint /\ new.off = db[g].off /\ new.arr = 0
      BY <2>1 DEF RowBooked, RowFields
    <3> HIDE DEF new
    <3>3. RowSame(new, db[g])
      BY <2>1, <3>2 DEF RowSame, RowBooked
    <3> QED
      BY <2>3, <3>1, <3>2, <3>3 DEF Tracked
  <2> QED
    BY <2>2, <2>3
<1>3. RecorderBooked'
  BY <1>1, <1>2, LetGo, RecorderKept
<1> QED
  BY <1>1, <1>2, <1>3, RowsKept DEF BInv

\* The sim's late answer stores the touchdown under the seq it has.
LEMMA LateAnswerKeeps ==
  ASSUME IInv, BInv, MaxRefusals = 0, NEW p \in pending, upgradeLandingFromSim(p)
  PROVE  BInv' /\ Onward
<1> DEFINE f == p.flight
           row == addLanding(db[f], p.seq, p.touchdown)
           latest == tc.isFreeFlight /\ Tracked(f) /\ tc.landingSeq = p.seq
           new == IF latest THEN [row EXCEPT !.arr = p.touchdown] ELSE row
<1>1. /\ UNCHANGED tc /\ pending' \subseteq pending
      /\ f \in Flights /\ Booked(p, db[f]) /\ RowBooked(db[f]) /\ RowOK(db[f])
  BY DEF upgradeLandingFromSim, BInv, QuestionsBooked, RowsBooked, IInv, Shapes
<1>2. CASE UNCHANGED db
  BY <1>1, <1>2, RowsAlone
<1>3. CASE ~UNCHANGED db
  <2>1. db' = [db EXCEPT ![f] = new]
    <3>1. PICK refused : /\ Refusing(refused)
                         /\ db' = [db EXCEPT ![f] = IF latest /\ refused = {}
                                                    THEN [row EXCEPT !.arr = p.touchdown]
                                                    ELSE row]
      BY <1>3 DEF upgradeLandingFromSim
    <3> HIDE DEF row, latest
    <3> QED
      BY <3>1, NoneRefused
  <2>2. [db[f].landings EXCEPT ![p.seq] = p.touchdown] = db[f].landings
    BY <1>1, AgainInOrder, TrackingAssumption DEF Booked, RowBooked
  <2>3. /\ RowFields \subseteq DOMAIN row /\ row.arr = db[f].arr
        /\ row.status = db[f].status /\ row.off = db[f].off
        /\ row.touched = db[f].touched /\ row.lastPoint = db[f].lastPoint
        /\ row.landings = db[f].landings
    BY <1>1, <2>2 DEF addLanding, RowBooked, RowOK, RowFields
  <2> HIDE DEF row
  <2>4. latest => db[f].arr <= db[f].touched /\ p.touchdown = db[f].touched
    <3>1. latest => db[f].status = "active" /\ Counts(tc, db[f])
      BY <1>1, TrackingAssumption DEF Tracked, IInv, RecordedHasBegun, BInv, RecorderBooked
    <3> QED
      BY <1>1, <3>1 DEF Counts, Booked, RowBooked
  <2>5. /\ RowFields \subseteq DOMAIN new
        /\ new.status = db[f].status /\ new.off = db[f].off
        /\ new.touched = db[f].touched /\ new.lastPoint = db[f].lastPoint
        /\ new.landings = db[f].landings
        /\ new.arr = IF latest THEN p.touchdown ELSE db[f].arr
    BY <2>3 DEF RowFields
  <2> HIDE DEF new, latest
  <2>6. RowKeeps(new, db[f])
    BY <1>1, <2>4, <2>5 DEF RowKeeps, RowSame, RowBooked
  <2>7. \A g \in Flights : RowKeeps(db'[g], db[g]) /\ db'[g].off = db[g].off
    BY <1>1, <2>1, <2>5, <2>6, AloneKeeps DEF IInv, Shapes
  <2>8. RecorderBooked'
    BY <1>1, <2>7, LetGo, RecorderKept, RowsOnward DEF IInv, Shapes
  <2> QED
    BY <1>1, <2>7, <2>8, RowsKept, RowsOnward DEF BInv
<1> QED
  BY <1>2, <1>3

LEMMA RestartKeeps ==
  ASSUME IInv, BInv, restart
  PROVE  BInv' /\ Onward
<1>1. UNCHANGED db /\ tc' = NewController /\ pending' = {}
  BY DEF restart
<1>2. RecorderBooked'
  BY <1>1 DEF RecorderBooked, Fields, NewController
<1>3. \A g \in Flights : RowKeeps(db'[g], db[g])
  BY <1>1, AloneKeeps
<1> QED
  BY <1>1, <1>2, <1>3, RowsKept, RowsOnward DEF BInv

-----------------------------------------------------------------------------
(* The theorems.                                                           *)

LEMMA InitBooks ==
  ASSUME Init
  PROVE  BInv
<1>1. db = [f \in Flights |-> NoRow] /\ tc = NewController /\ pending = {}
  BY DEF Init
<1>2. RowBooked(NoRow)
  BY TrackingAssumption DEF RowBooked, RowFields, NoRow, InOrder, Seqs
<1>3. RecorderBooked
  BY <1>1 DEF RecorderBooked, Fields, NewController
<1> QED
  BY <1>1, <1>2, <1>3 DEF BInv, RowsBooked, QuestionsBooked

LEMMA FlightCallKeeps ==
  ASSUME IInv, BInv, MaxRefusals = 0, NEW f \in Flights,
         \/ trackingStart(f) \/ trackingStartFree(f) \/ flightCreate(f)
         \/ askCancel(f) \/ flightDelete(f)
  PROVE  BInv' /\ Onward
<1>1. CASE trackingStart(f)
  BY <1>1, StartKeeps DEF trackingStart
<1>2. CASE trackingStartFree(f)
  BY <1>2, StartFreeKeeps DEF trackingStartFree
<1>3. CASE flightCreate(f)
  BY <1>3, CreateKeeps
<1>4. CASE askCancel(f)
  BY <1>4, RowsAlone DEF askCancel
<1>5. CASE flightDelete(f)
  BY <1>5, NotRefused, DeleteKeeps DEF flightDelete
<1> QED
  BY <1>1, <1>2, <1>3, <1>4, <1>5

LEMMA OtherCallKeeps ==
  ASSUME IInv, BInv, PromptIsOfItsFlight, MaxRefusals = 0, IsFiniteSet(Flights),
         \/ trackingStop \/ dismissCancel \/ flightCancel
         \/ trackingResumeOrphaned \/ trackingDiscardOrphaned \/ closeOrphanedPrompt \/ autoStart
  PROVE  BInv' /\ Onward
<1>1. CASE trackingStop
  BY <1>1, NotRefused, StopBooks DEF trackingStop, stop
<1>2. CASE dismissCancel \/ closeOrphanedPrompt
  BY <1>2, RowsAlone DEF dismissCancel, closeOrphanedPrompt
<1>3. CASE flightCancel
  BY <1>3, NotRefused, DeleteKeeps DEF flightCancel, IInv, Shapes
<1>4. CASE trackingResumeOrphaned
  BY <1>4, ResumeKeeps
<1>5. CASE trackingDiscardOrphaned
  BY <1>5, NotRefused, DeleteKeeps DEF trackingDiscardOrphaned, IInv, Shapes
<1>6. CASE autoStart
  <2>1. ASSUME NEW refused, start(app.armed, refused)
        PROVE  BInv' /\ Onward
    <3>1. app.armed \in Flights /\ db[app.armed].status = "planned"
      BY <1>6 DEF autoStart, IInv, Shapes, ArmedIsPlanned
    <3> QED
      BY <2>1, <3>1, StartKeeps
  <2>2. CASE UNCHANGED <<db, tc, pending, telemetry, spent>>
    BY <2>2, RowsAlone
  <2> QED
    BY <1>6, <2>1, <2>2 DEF autoStart
<1> QED
  BY <1>1, <1>2, <1>3, <1>4, <1>5, <1>6

\* A late answer of the sim deletes nothing.
LEMMA LateAnswerLeaves ==
  ASSUME IInv, NEW p, upgradeLandingFromSim(p), NEW g \in Flights
  PROVE  db'[g].deleted = db[g].deleted /\ UNCHANGED <<tc, app>>
<1> DEFINE f == p.flight
           row == addLanding(db[f], p.seq, p.touchdown)
           new == [row EXCEPT !.arr = p.touchdown]
<1>1. UNCHANGED db \/ db' = [db EXCEPT ![f] = row] \/ db' = [db EXCEPT ![f] = new]
  BY DEF upgradeLandingFromSim
<1>2. f \in Flights => row.deleted = db[f].deleted /\ new.deleted = db[f].deleted
  <2>1. f \in Flights => "deleted" \in DOMAIN row /\ row.deleted = db[f].deleted
    BY DEF addLanding, RowOK, IInv, Shapes
  <2> HIDE DEF row
  <2> QED
    BY <2>1
<1> HIDE DEF new, row
<1> QED
  BY <1>1, <1>2 DEF IInv, Shapes, upgradeLandingFromSim

LEMMA NextKeeps ==
  ASSUME IInv, BInv, PromptIsOfItsFlight, MaxRefusals = 0, IsFiniteSet(Flights), [Next]_vars
  PROVE  BInv' /\ (Onward \/ trackingSetDestination)
<1>1. CASE UNCHANGED vars
  BY <1>1, RowsAlone DEF vars
<1>2. CASE \E t \in Samples : sample(t)
  BY <1>2, IngestKeeps DEF sample
<1>3. CASE \E isPaused \in BOOLEAN : paused(isPaused)
  BY <1>3, PausedKeeps
<1>4. CASE \E p \in pending : upgradeLandingFromSim(p)
  BY <1>4, LateAnswerKeeps
<1>5. CASE \E f \in Flights : \/ trackingStart(f) \/ trackingStartFree(f) \/ flightCreate(f)
                              \/ askCancel(f) \/ flightDelete(f)
  BY <1>5, FlightCallKeeps
<1>6. CASE trackingFinish
  BY <1>6, FinishKeeps DEF trackingFinish
<1>7. CASE trackingSetDestination
  BY <1>7, DestinationKeeps
<1>8. CASE restart
  BY <1>8, RestartKeeps
<1>9. CASE \/ trackingStop \/ dismissCancel \/ flightCancel
           \/ trackingResumeOrphaned \/ trackingDiscardOrphaned \/ closeOrphanedPrompt
           \/ autoStart
  BY <1>9, OtherCallKeeps
<1> QED
  BY <1>1, <1>2, <1>3, <1>4, <1>5, <1>6, <1>7, <1>8, <1>9 DEF Next

\* What can come while the prompt for an orphaned flight is open: it keeps the flight there,
\* or closes the prompt.
LEMMA PromptStays ==
  ASSUME IInv, PromptIsOfItsFlight, [Next]_vars
  PROVE  PromptIsOfItsFlight'
<1>1. SUFFICES ASSUME app'.orphaned # NoFlight
               PROVE  /\ tc'.recorder = NoFlight /\ app'.cancelling = NoFlight
                      /\ db'[app'.orphaned].deleted = FALSE
  BY DEF PromptIsOfItsFlight
<1>2. CASE restart
  BY <1>1, <1>2 DEF restart, NewController, inProgress, IInv, Shapes, RowOK
<1>3. CASE app.orphaned = NoFlight /\ ~restart
  <2>1. \/ UNCHANGED app
        \/ \E f \in Flights \cup {NoFlight} : app' = [app EXCEPT !.armed = f]
        \/ \E f \in Flights \cup {NoFlight} : app' = [app EXCEPT !.cancelling = f]
        \/ app' = [app EXCEPT !.cancelling = NoFlight, !.armed = NoFlight]
    <3>1. CASE \E f \in Flights : flightCreate(f)
      BY <3>1 DEF flightCreate
    <3>2. CASE flightCancel
      BY <3>2 DEF flightCancel
    <3>3. CASE \/ trackingResumeOrphaned \/ trackingDiscardOrphaned \/ closeOrphanedPrompt
      BY <1>3, <3>3 DEF trackingResumeOrphaned, trackingDiscardOrphaned, closeOrphanedPrompt
    <3>4. CASE \E f \in Flights : \/ trackingStart(f) \/ trackingStartFree(f)
                                   \/ askCancel(f) \/ flightDelete(f)
      BY <3>4 DEF trackingStart, trackingStartFree, askCancel, flightDelete
    <3>5. CASE \/ trackingStop \/ trackingFinish \/ trackingSetDestination
               \/ dismissCancel \/ autoStart
      BY <3>5 DEF trackingStop, stop, trackingFinish, finish, trackingSetDestination,
                  dismissCancel, autoStart
    <3>6. CASE \/ \E t \in Samples : sample(t)
               \/ \E isPaused \in BOOLEAN : paused(isPaused)
               \/ \E p \in pending : upgradeLandingFromSim(p)
               \/ UNCHANGED vars
      BY <3>6 DEF sample, ingest, paused, upgradeLandingFromSim, vars
    <3> QED
      BY <1>3, <3>1, <3>2, <3>3, <3>4, <3>5, <3>6 DEF Next
  <2> QED
    BY <1>1, <1>3, <2>1 DEF IInv, Shapes
<1>4. CASE app.orphaned # NoFlight /\ ~restart
  <2>1. /\ tc.recorder = NoFlight /\ app.cancelling = NoFlight /\ app.armed = NoFlight
        /\ app.orphaned \in Flights /\ db[app.orphaned].deleted = FALSE /\ ~NoDialog
    BY <1>4 DEF PromptIsOfItsFlight, IInv, Shapes, RowOK, ArmedIsPlanned, NoDialog
  <2>2. \/ UNCHANGED <<db, tc, app>>
        \/ \E isPaused \in BOOLEAN : paused(isPaused)
        \/ \E p \in pending : upgradeLandingFromSim(p)
        \/ app' = [app EXCEPT !.orphaned = NoFlight]
    <3>1. CASE trackingDiscardOrphaned
      BY <3>1 DEF trackingDiscardOrphaned, Refused
    <3>2. CASE trackingResumeOrphaned \/ closeOrphanedPrompt
      BY <3>2 DEF trackingResumeOrphaned, closeOrphanedPrompt
    <3>3. CASE \E f \in Flights : \/ trackingStart(f) \/ trackingStartFree(f) \/ flightCreate(f)
                                   \/ askCancel(f) \/ flightDelete(f)
      BY <2>1, <3>3 DEF trackingStart, trackingStartFree, flightCreate, askCancel, flightDelete
    <3>4. CASE \/ trackingStop \/ trackingFinish \/ trackingSetDestination
               \/ dismissCancel \/ flightCancel \/ autoStart
      BY <2>1, <3>4 DEF trackingStop, trackingFinish, trackingSetDestination, dismissCancel,
                        flightCancel, autoStart
    <3>5. CASE (\E t \in Samples : sample(t)) \/ UNCHANGED vars
      BY <2>1, <3>5 DEF sample, ingest, vars
    <3> QED
      BY <1>4, <3>1, <3>2, <3>3, <3>4, <3>5 DEF Next
  <2>3. CASE UNCHANGED <<db, tc, app>>
    BY <2>1, <2>3
  <2>4. CASE \E isPaused \in BOOLEAN : paused(isPaused)
    BY <2>1, <2>4 DEF paused, IInv, Shapes
  <2>5. CASE \E p \in pending : upgradeLandingFromSim(p)
    BY <2>1, <2>5, LateAnswerLeaves
  <2>6. CASE app' = [app EXCEPT !.orphaned = NoFlight]
    BY <1>1, <2>6 DEF IInv, Shapes
  <2> QED
    BY <2>2, <2>3, <2>4, <2>5, <2>6
<1> QED
  BY <1>2, <1>3, <1>4

\* While the prompt for an orphaned flight is open, nothing is recorded and the flight is
\* still there to be resumed, whatever is refused.
THEOREM PromptIsRight == Spec => []PromptIsOfItsFlight
<1>1. Init => PromptIsOfItsFlight
  BY DEF Init, PromptIsOfItsFlight
<1>2. IInv /\ PromptIsOfItsFlight /\ [Next]_vars => PromptIsOfItsFlight'
  BY PromptStays
<1> QED
  BY <1>1, <1>2, TrackingInvariant, PTL DEF Spec

\* While no write is refused, a row, the controller's count and the questions still open agree
\* on the touchdowns.
LEMMA BooksAgree ==
  ASSUME IsFiniteSet(Flights), MaxRefusals = 0
  PROVE  Spec => []BInv
<1>1. Init => BInv
  BY InitBooks
<1>2. IInv /\ BInv /\ PromptIsOfItsFlight /\ [Next]_vars => BInv'
  BY NextKeeps
<1> QED
  BY <1>1, <1>2, TrackingInvariant, PromptIsRight, PTL DEF Spec

\* While no write is refused, every touchdown of every flight has its own landing row, under
\* the seq it happened in: however many flights, touchdowns, resumes and late answers of the
\* sim there are.
THEOREM LandingsAreRight ==
  IsFiniteSet(Flights) /\ MaxRefusals = 0 => (Spec => []EveryTouchdownHasItsLanding)
<1> SUFFICES ASSUME IsFiniteSet(Flights), MaxRefusals = 0
             PROVE  Spec => []EveryTouchdownHasItsLanding
  OBVIOUS
<1>1. BInv => EveryTouchdownHasItsLanding
  BY DEF BInv, RowsBooked, RowBooked, InOrder, EveryTouchdownHasItsLanding
<1> QED
  BY <1>1, BooksAgree, PTL

\* While no write is refused, a climb is a liftoff the row knows of, also when the process
\* ended in the middle of it and the flight was resumed.
THEOREM LiftoffsAreRight ==
  IsFiniteSet(Flights) /\ MaxRefusals = 0 => (Spec => []ClimbIsRecorded)
<1> SUFFICES ASSUME IsFiniteSet(Flights), MaxRefusals = 0
             PROVE  Spec => []ClimbIsRecorded
  OBVIOUS
<1>1. BInv => ClimbIsRecorded
  BY DEF BInv, RecorderBooked, Counts, ClimbIsRecorded
<1> QED
  BY <1>1, BooksAgree, PTL

\* While no write is refused, a flight's arrival only moves on to a later touchdown, or to
\* where it completed: neither a late answer of the sim, a resume nor a completion takes it
\* back, only the pilot does, and only of the flight being recorded.
THEOREM ArrivalsMoveOn ==
  IsFiniteSet(Flights) /\ MaxRefusals = 0 => (Spec => ArrivalNeverGoesBack)
<1> SUFFICES ASSUME IsFiniteSet(Flights), MaxRefusals = 0
             PROVE  Spec => ArrivalNeverGoesBack
  OBVIOUS
<1> DEFINE GoesBackByThePilot ==
             \A f \in Flights : db'[f].arr < db[f].arr => db'[f].arr = 0 /\ Tracked(f)
<1>1. ASSUME IInv, BInv, BInv', PromptIsOfItsFlight, [Next]_vars
      PROVE  GoesBackByThePilot
  <2>1. \A f \in Flights : db[f].arr \in Nat /\ db'[f].arr \in Nat
    BY <1>1 DEF BInv, RowsBooked, RowBooked
  <2>2. CASE Onward
    BY <2>1, <2>2 DEF Onward
  <2>3. CASE trackingSetDestination
    BY <1>1, <2>3, DestinationKeeps
  <2> QED
    BY <1>1, <2>2, <2>3, NextKeeps
<1>2. IInv /\ BInv /\ BInv' /\ PromptIsOfItsFlight /\ [Next]_vars
      => [NothingRefused' => GoesBackByThePilot]_vars
  BY <1>1
<1> QED
  BY <1>2, BooksAgree, TrackingInvariant, PromptIsRight, PTL DEF Spec, ArrivalNeverGoesBack

-----------------------------------------------------------------------------
(* The types, for any finite set of flights, with any writes refused: what *)
(* the phase machine and the touchdown rule return, and numbers.           *)

\* The phase machine of FlightPhase, whose lemmas hold for the recorder's state too.
Machine == INSTANCE FlightPhaseProofs
             WITH state <- tc.state, settings <- [paused |-> tc.paused, autoShutdown |-> TRUE],
                  last <- "other", run <- [level |-> 0, descent |-> 0, airborne |-> 0],
                  tick <- FALSE

\* Both know the same machine.
LEMMA SameStates ==
  /\ Machine!PhaseState = PhaseState /\ Machine!Telemetry = Telemetry
  /\ \A s, t, autoFinish : Machine!advancePhase(s, t, autoFinish) = advancePhase(s, t, autoFinish)
<1>1. Machine!PhaseState = PhaseState
  BY DEF PhaseState, Machine!PhaseState, Phases, Machine!Phases, Longest, Machine!Longest
<1>2. Machine!Telemetry = Telemetry
  BY DEF Telemetry, Machine!Telemetry
<1>3. ASSUME NEW s, NEW t
      PROVE  Machine!ownTransition(s, t) = ownTransition(s, t)
  BY DEF ownTransition, Machine!ownTransition,
         fromPreflight, Machine!fromPreflight, fromPushback, Machine!fromPushback,
         fromTaxi, Machine!fromTaxi, fromTakeoff, Machine!fromTakeoff,
         fromClimb, Machine!fromClimb, fromCruise, Machine!fromCruise,
         fromDescent, Machine!fromDescent, fromLanding, Machine!fromLanding,
         LevelOff, Machine!LevelOff, goneAround, Machine!goneAround,
         MissedLanding, Machine!MissedLanding, backOnGround, Machine!backOnGround,
         OnGroundSamples, Machine!OnGroundSamples
<1>4. ASSUME NEW s, NEW t, NEW autoFinish
      PROVE  Machine!shutDownIfParked(s, t, autoFinish) = shutDownIfParked(s, t, autoFinish)
  BY DEF shutDownIfParked, Machine!shutDownIfParked, Parked, Machine!Parked
<1> QED
  BY <1>1, <1>2, <1>3, <1>4 DEF advancePhase, Machine!advancePhase

LEMMA MachineTyped ==
  ASSUME NEW s \in PhaseState, NEW t \in Telemetry, NEW autoFinish \in BOOLEAN
  PROVE  advancePhase(s, t, autoFinish) \in PhaseState
<1>1. s \in Machine!PhaseState /\ t \in Machine!Telemetry
  BY SameStates
<1>2. Samples \subseteq Machine!Telemetry
  BY SameStates, TrackingAssumption
<1>3. Machine!advancePhase(s, t, autoFinish) \in Machine!PhaseState
  BY <1>1, <1>2, Machine!AdvanceTyped, ThresholdsAssumption
<1> QED
  BY <1>3, SameStates

LEMMA NewStateTyped ==
  ASSUME NEW p \in Phases, NEW hasLanded \in BOOLEAN
  PROVE  NewPhaseState(p, hasLanded) \in PhaseState
BY ThresholdsAssumption DEF NewPhaseState, PhaseState, Longest

LEMMA RuleTyped ==
  ASSUME NEW d \in TouchdownState, NEW t \in Telemetry
  PROVE  touchdownStep(d, t) \in TouchdownState
<1>1. /\ (IF t.onGround THEN "ground" ELSE "air") \in {"unknown", "ground", "air"}
      /\ (~t.onGround /\ (d.airborneMoved \/ t.gs > 0)) \in BOOLEAN
  OBVIOUS
<1>2. (IF t.onGround THEN 0
       ELSE IF d.airborneStreak < MIN_AIRBORNE_SAMPLES_FOR_NEW_TOUCHDOWN
       THEN d.airborneStreak + 1 ELSE d.airborneStreak)
        \in 0..MIN_AIRBORNE_SAMPLES_FOR_NEW_TOUCHDOWN
  BY ThresholdsAssumption DEF TouchdownState, MIN_AIRBORNE_SAMPLES_FOR_NEW_TOUCHDOWN
<1> QED
  BY <1>1, <1>2, Zenon DEF touchdownStep, TouchdownState

\* What the touchdown rule starts from, and what it starts with.
LEMMA RuleStarts == initialTouchdownState \in TouchdownState
BY ThresholdsAssumption
   DEF initialTouchdownState, TouchdownState, MIN_AIRBORNE_SAMPLES_FOR_NEW_TOUCHDOWN

-----------------------------------------------------------------------------
\* Every touchdown there has been, of every flight.
Touchdowns(rows) ==
  {p \in Flights \X (1..MaxTouchdowns) : p[2] <= rows[p[1]].touched}

\* The landings a row holds.
Held(row) == {n \in Seqs : row.landings[n] # 0}

\* A row that is not there is empty, and none holds more landings than its flight has touched.
Numbered(row) ==
  /\ row \in Row
  /\ row.status = "none" => row = NoRow
  /\ Cardinality(Held(row)) <= row.touched

\* A row moves on: no touchdown is taken back and no landing is dropped.
MovesOn(new, old) ==
  /\ Numbered(new) /\ old.touched <= new.touched
  /\ Held(old) \subseteq Held(new)

Questions == [flight : Flights, seq : Seqs, touchdown : 1..MaxTouchdowns]

\* A question is about a landing that is stored.
AboutHeld(q, rows) == q.seq \in Held(rows[q.flight])

TInv == /\ TypeOK
        /\ \A f \in Flights : Numbered(db[f])
        /\ \A q \in pending : AboutHeld(q, db)
        /\ tc.landingSeq <= Cardinality(Touchdowns(db))

LEMMA TouchdownsFit ==
  ASSUME IsFiniteSet(Flights), NEW rows
  PROVE  /\ MaxSeq \in Nat /\ IsFiniteSet(Touchdowns(rows))
         /\ Cardinality(Touchdowns(rows)) \in 0..MaxSeq
<1>1. Cardinality(Flights) \in Nat /\ MaxTouchdowns \in Nat
  BY FS_CardinalityType, TrackingAssumption
<1>2. IsFiniteSet(1..MaxTouchdowns) /\ Cardinality(1..MaxTouchdowns) = MaxTouchdowns
  <2>1. 1 \in Int /\ MaxTouchdowns \in Int
    BY <1>1
  <2>2. /\ IsFiniteSet(1..MaxTouchdowns)
        /\ Cardinality(1..MaxTouchdowns) = IF 1 > MaxTouchdowns THEN 0 ELSE MaxTouchdowns - 1 + 1
    BY ONLY <2>1, FS_Interval
  <2> QED
    BY <1>1, <2>2
<1> DEFINE T == 1..MaxTouchdowns
           all == Flights \X T
<1>3. IsFiniteSet(all) /\ Cardinality(all) = Cardinality(Flights) * MaxTouchdowns
  <2>1. IsFiniteSet(T) /\ Cardinality(T) = MaxTouchdowns
    BY <1>2
  <2> HIDE DEF T
  <2> QED
    BY <2>1, FS_Product
<1>4. MaxSeq \in Nat /\ Cardinality(all) = MaxSeq
  <2> DEFINE c == Cardinality(Flights)
  <2>1. c * MaxTouchdowns \in Nat
    <3> HIDE DEF c
    <3> QED
      BY <1>1 DEF c
  <2> QED
    BY <1>3, <2>1 DEF MaxSeq
<1>5. Touchdowns(rows) \in SUBSET all
  BY DEF Touchdowns
<1> HIDE DEF all
<1>6. IsFiniteSet(Touchdowns(rows)) /\ Cardinality(Touchdowns(rows)) <= Cardinality(all)
  BY <1>3, <1>5, FS_Subset
<1>7. Cardinality(Touchdowns(rows)) \in Nat
  BY <1>6, FS_CardinalityType
<1> QED
  BY <1>4, <1>6, <1>7

\* Rows that move on have had no fewer touchdowns.
LEMMA TouchdownsGrow ==
  ASSUME IsFiniteSet(Flights), NEW old, NEW new,
         \A f \in Flights : /\ new[f].touched \in Nat /\ old[f].touched \in Nat
                            /\ old[f].touched <= new[f].touched
  PROVE  Cardinality(Touchdowns(old)) <= Cardinality(Touchdowns(new))
<1>1. Touchdowns(old) \in SUBSET Touchdowns(new)
  BY TrackingAssumption DEF Touchdowns
<1> QED
  BY <1>1, TouchdownsFit, FS_Subset

\* One more touchdown of one flight is one more of all.
LEMMA OneMoreTouchdown ==
  ASSUME IsFiniteSet(Flights), NEW old, NEW new, NEW f \in Flights,
         old[f].touched \in Nat, old[f].touched < MaxTouchdowns,
         new[f].touched = old[f].touched + 1,
         \A g \in Flights \ {f} : new[g] = old[g]
  PROVE  Cardinality(Touchdowns(new)) = Cardinality(Touchdowns(old)) + 1
<1> DEFINE n == old[f].touched + 1
<1>1. n \in 1..MaxTouchdowns
  BY TrackingAssumption
<1>2. <<f, n>> \notin Touchdowns(old)
  BY DEF Touchdowns
<1>3. Touchdowns(new) = Touchdowns(old) \cup {<<f, n>>}
  <2>1. ASSUME NEW g \in Flights, NEW k \in 1..MaxTouchdowns
        PROVE  k <= new[g].touched <=> k <= old[g].touched \/ (g = f /\ k = n)
    <3>1. CASE g = f
      BY <3>1, TrackingAssumption
    <3>2. CASE g # f
      BY <3>2
    <3> QED
      BY <3>1, <3>2
  <2>2. <<f, n>> \in Flights \X (1..MaxTouchdowns)
    BY <1>1
  <2> HIDE DEF n
  <2>3. ASSUME NEW p \in Flights \X (1..MaxTouchdowns)
        PROVE  p \in Touchdowns(new) <=> p \in Touchdowns(old) \cup {<<f, n>>}
    <3>1. PICK g \in Flights, k \in 1..MaxTouchdowns : p = <<g, k>>
      OBVIOUS
    <3>2. p = <<f, n>> <=> g = f /\ k = n
      BY <3>1
    <3>3. /\ p \in Touchdowns(new) <=> k <= new[g].touched
          /\ p \in Touchdowns(old) <=> k <= old[g].touched
      BY <3>1 DEF Touchdowns
    <3> QED
      BY <2>1, <3>2, <3>3
  <2>4. /\ Touchdowns(new) \subseteq Flights \X (1..MaxTouchdowns)
        /\ Touchdowns(old) \subseteq Flights \X (1..MaxTouchdowns)
    BY DEF Touchdowns
  <2>5. \A p : p \in Touchdowns(new) <=> p \in Touchdowns(old) \cup {<<f, n>>}
    BY <2>2, <2>3, <2>4, Zenon
  <2> QED
    BY <2>5
<1>4. IsFiniteSet(Touchdowns(old))
  BY TouchdownsFit
<1> HIDE DEF n
<1>5. Cardinality(Touchdowns(old) \cup {<<f, n>>}) = Cardinality(Touchdowns(old)) + 1
  BY <1>2, <1>4, FS_AddElement
<1> QED
  BY <1>3, <1>5

-----------------------------------------------------------------------------
(* What happens to a row.                                                  *)

\* A row whose touchdowns and landings stay.
LEMMA SameLandings ==
  ASSUME NEW old, Numbered(old), NEW new \in Row, new.status = "none" => new = NoRow,
         new.landings = old.landings, new.touched = old.touched
  PROVE  MovesOn(new, old)
<1>1. Held(new) = Held(old)
  BY DEF Held
<1>2. old.touched \in Nat
  BY DEF Numbered, Row
<1> QED
  BY <1>1, <1>2 DEF MovesOn, Numbered

LEMMA HeldIsFinite ==
  ASSUME IsFiniteSet(Flights), NEW row
  PROVE  IsFiniteSet(Held(row)) /\ Cardinality(Held(row)) \in 0..MaxSeq
<1>1. MaxSeq \in Nat
  BY TouchdownsFit
<1>2. IsFiniteSet(Seqs) /\ Cardinality(Seqs) = MaxSeq
  BY <1>1, FS_Interval DEF Seqs
<1>3. Held(row) \in SUBSET Seqs
  BY DEF Held
<1>4. IsFiniteSet(Held(row)) /\ Cardinality(Held(row)) <= MaxSeq
  BY <1>2, <1>3, FS_Subset
<1> QED
  BY <1>1, <1>4, FS_CardinalityType

\* A landing stored under a seq, the seq of an earlier one or a new one.
LEMMA LandingHeld ==
  ASSUME IsFiniteSet(Flights), NEW row \in Row, NEW seq \in Seqs, NEW n \in 1..MaxTouchdowns
  PROVE  /\ addLanding(row, seq, n) \in Row
         /\ addLanding(row, seq, n).touched = row.touched
         /\ addLanding(row, seq, n).status = row.status
         /\ Held(addLanding(row, seq, n)) = Held(row) \cup {seq}
         /\ Cardinality(Held(row) \cup {seq}) =
              IF seq \in Held(row) THEN Cardinality(Held(row)) ELSE Cardinality(Held(row)) + 1
<1> DEFINE new == [row.landings EXCEPT ![seq] = n]
<1>1. row.landings \in [Seqs -> 0..MaxTouchdowns]
  BY DEF Row
<1>2. new \in [Seqs -> 0..MaxTouchdowns]
  BY <1>1, TrackingAssumption
<1>3. addLanding(row, seq, n) = [row EXCEPT !.landings = new]
  BY DEF addLanding
<1>4. /\ addLanding(row, seq, n) \in Row /\ addLanding(row, seq, n).landings = new
      /\ addLanding(row, seq, n).touched = row.touched
      /\ addLanding(row, seq, n).status = row.status
  <2> HIDE DEF new
  <2> QED
    BY <1>2, <1>3 DEF Row
<1>5. \A k \in Seqs : new[k] # 0 <=> row.landings[k] # 0 \/ k = seq
  BY <1>1, TrackingAssumption
<1>6. Held(addLanding(row, seq, n)) = Held(row) \cup {seq}
  <2> HIDE DEF new
  <2> QED
    BY <1>4, <1>5 DEF Held
<1>7. IsFiniteSet(Held(row))
  BY HeldIsFinite
<1> QED
  BY <1>4, <1>6, <1>7, FS_AddElement

\* The columns that a statement of the handler writes.
LEMMA ColumnsTyped ==
  ASSUME NEW row \in Row
  PROVE  /\ [row EXCEPT !.fuel = TRUE] \in Row /\ [row EXCEPT !.off = TRUE] \in Row
         /\ [row EXCEPT !.on = TRUE] \in Row /\ [row EXCEPT !.status = "completed"] \in Row
         /\ \A a \in 0..AtCompletion : [row EXCEPT !.arr = a] \in Row
         /\ \A p \in Phases : [row EXCEPT !.lastPoint = p] \in Row
         /\ \A n \in 0..MaxTouchdowns : [row EXCEPT !.touched = n] \in Row
BY DEF Row

-----------------------------------------------------------------------------
(* One sample of the flight f, statement by statement.                     *)

Handler == [row : Row, tc : Controller, pending : SUBSET Questions, thrown : BOOLEAN]

\* What has been asked by now.
Asked(m, f) ==
  \A q \in m.pending : IF q.flight = f THEN q.seq \in Held(m.row) ELSE q \in pending

\* The sample has touched down or not, and has its seq unless a write was refused.
OnceAtMost(m, f) ==
  \/ m.row.touched = db[f].touched /\ m.tc.landingSeq = tc.landingSeq
  \/ /\ m.row.touched = db[f].touched + 1
     /\ m.tc.landingSeq \in {tc.landingSeq, tc.landingSeq + 1}

Sound(m, f) ==
  /\ m \in Handler /\ m.row.status # "none"
  /\ MovesOn(m.row, db[f]) /\ Asked(m, f) /\ OnceAtMost(m, f)

\* Before the touchdown rule is asked.
NotYet(m, f) ==
  /\ Sound(m, f) /\ m.tc.touchdown = tc.touchdown
  /\ m.row.touched = db[f].touched /\ m.tc.landingSeq = tc.landingSeq

\* A statement that has nothing to do with landings.
Beside(r, m) ==
  /\ r \in Handler /\ r.row.status # "none"
  /\ r.row.landings = m.row.landings /\ r.row.touched = m.row.touched
  /\ r.pending = m.pending /\ r.tc.landingSeq = m.tc.landingSeq

LEMMA BesideSound ==
  ASSUME NEW f \in Flights, NEW m, Sound(m, f), NEW r, Beside(r, m)
  PROVE  Sound(r, f)
<1>1. r.row \in Row /\ Numbered(m.row)
  BY DEF Beside, Handler, Sound, MovesOn
<1>2. MovesOn(r.row, m.row)
  BY <1>1, SameLandings DEF Beside
<1>3. Held(r.row) = Held(m.row)
  BY DEF Beside, Held
<1>4. MovesOn(r.row, db[f])
  BY <1>2, <1>3 DEF Beside, Sound, MovesOn
<1> QED
  BY <1>3, <1>4 DEF Beside, Sound, Asked, OnceAtMost

LEMMA BesideNotYet ==
  ASSUME NEW f \in Flights, NEW m, NotYet(m, f), NEW r, Beside(r, m),
         r.tc.touchdown = m.tc.touchdown
  PROVE  NotYet(r, f)
BY BesideSound DEF NotYet, Beside

LEMMA NothingBeside ==
  ASSUME NEW f \in Flights, NEW m, Sound(m, f)
  PROVE  Beside(m, m)
BY DEF Beside, Sound

\* A refused write throws; an accepted one replaces the row.
LEMMA SaveBeside ==
  ASSUME NEW f \in Flights, NEW m, Sound(m, f), NEW write, NEW refused, NEW new \in Row,
         new.status # "none", new.landings = m.row.landings, new.touched = m.row.touched
  PROVE  /\ Beside(Save(m, write, refused, new), m)
         /\ Save(m, write, refused, new).tc = m.tc
<1>1. Beside([m EXCEPT !.thrown = TRUE], m) /\ [m EXCEPT !.thrown = TRUE].tc = m.tc
  BY DEF Beside, Sound, Handler
<1>2. Beside([m EXCEPT !.row = new], m) /\ [m EXCEPT !.row = new].tc = m.tc
  BY DEF Beside, Sound, Handler
<1> QED
  BY <1>1, <1>2 DEF Save

\* A field of the controller.
LEMMA FieldBeside ==
  ASSUME NEW f \in Flights, NEW m, Sound(m, f), NEW c \in Controller,
         c.landingSeq = m.tc.landingSeq
  PROVE  Beside([m EXCEPT !.tc = c], m)
BY DEF Beside, Sound, Handler

LEMMA IngestNotYet ==
  ASSUME NEW f \in Flights, NEW m, NotYet(m, f), NEW x, x.t \in Telemetry,
         x.autoFinish \in BOOLEAN
  PROVE  NotYet(Ingest(m, x), f)
<1>1. CASE ignored(x.t, tc.recorderPaused)
  BY <1>1 DEF Ingest
<1>2. CASE ~ignored(x.t, tc.recorderPaused)
  <2> DEFINE c == [m.tc EXCEPT !.state = advancePhase(@, x.t, x.autoFinish)]
  <2>1. m.tc \in Controller /\ m.tc.state \in PhaseState
    BY DEF NotYet, Sound, Handler, Controller
  <2>2. advancePhase(m.tc.state, x.t, x.autoFinish) \in PhaseState
    BY <2>1, MachineTyped
  <2>3. /\ c \in Controller /\ c.landingSeq = m.tc.landingSeq
        /\ c.touchdown = m.tc.touchdown
    BY <2>1, <2>2 DEF Controller
  <2>4. Ingest(m, x) = [m EXCEPT !.tc = c]
    BY <1>2 DEF Ingest
  <2> HIDE DEF c
  <2>5. Beside([m EXCEPT !.tc = c], m)
    BY <2>3, FieldBeside DEF NotYet
  <2>6. [m EXCEPT !.tc = c].tc = c
    BY DEF NotYet, Sound, Handler
  <2> QED
    BY <2>3, <2>4, <2>5, <2>6, BesideNotYet
<1> QED
  BY <1>1, <1>2

\* A field of the controller is set, and then a write made, or refused.
LEMMA SetAndSave ==
  ASSUME NEW f \in Flights, NEW m, NotYet(m, f), NEW c \in Controller,
         c.landingSeq = m.tc.landingSeq, c.touchdown = m.tc.touchdown,
         NEW write, NEW refused, NEW new \in Row,
         new.status # "none", new.landings = m.row.landings, new.touched = m.row.touched
  PROVE  NotYet(Save([m EXCEPT !.tc = c], write, refused, new), f)
<1> DEFINE set == [m EXCEPT !.tc = c]
<1>1. set.tc = c /\ set.row = m.row
  BY DEF NotYet, Sound, Handler
<1>2. NotYet(set, f)
  BY <1>1, FieldBeside, BesideNotYet DEF NotYet
<1> HIDE DEF set
<1>3. Beside(Save(set, write, refused, new), set) /\ Save(set, write, refused, new).tc = set.tc
  BY <1>1, <1>2, SaveBeside DEF NotYet
<1>4. NotYet(Save(set, write, refused, new), f)
  BY <1>2, <1>3, BesideNotYet
<1> QED
  BY <1>4 DEF set

LEMMA FuelNotYet ==
  ASSUME NEW f \in Flights, NEW m, NotYet(m, f), NEW x
  PROVE  NotYet(finalizeFuelOut(m, x), f)
<1> DEFINE c   == [m.tc EXCEPT !.fuelOutFinalized = TRUE]
           new == [m.row EXCEPT !.fuel = TRUE]
<1>1. m.tc \in Controller /\ m.row \in Row /\ m.row.status # "none"
  BY DEF NotYet, Sound, Handler
<1>2. /\ c \in Controller /\ c.landingSeq = m.tc.landingSeq
      /\ c.touchdown = m.tc.touchdown
  BY <1>1 DEF Controller
<1>3. /\ new \in Row /\ new.status # "none"
      /\ new.landings = m.row.landings /\ new.touched = m.row.touched
  BY <1>1 DEF Row
<1>4. [m EXCEPT !.tc.fuelOutFinalized = TRUE] = [m EXCEPT !.tc = c]
  OBVIOUS
<1>5. \/ finalizeFuelOut(m, x) = m
      \/ finalizeFuelOut(m, x) = Save([m EXCEPT !.tc = c], "fuel", x.refused, new)
  BY <1>4 DEF finalizeFuelOut
<1> HIDE DEF c, new
<1> QED
  BY <1>2, <1>3, <1>5, SetAndSave

LEMMA OffNotYet ==
  ASSUME NEW f \in Flights, NEW m, NotYet(m, f), NEW x
  PROVE  NotYet(recordOff(m, x), f)
<1> DEFINE c   == [m.tc EXCEPT !.offRecorded = TRUE]
           new == [m.row EXCEPT !.off = TRUE]
<1>1. m.tc \in Controller /\ m.row \in Row /\ m.row.status # "none"
  BY DEF NotYet, Sound, Handler
<1>2. /\ c \in Controller /\ c.landingSeq = m.tc.landingSeq
      /\ c.touchdown = m.tc.touchdown
  BY <1>1 DEF Controller
<1>3. /\ new \in Row /\ new.status # "none"
      /\ new.landings = m.row.landings /\ new.touched = m.row.touched
  BY <1>1 DEF Row
<1>4. [m EXCEPT !.tc.offRecorded = TRUE] = [m EXCEPT !.tc = c]
  OBVIOUS
<1>5. \/ recordOff(m, x) = m
      \/ recordOff(m, x) = Save([m EXCEPT !.tc = c], "off", x.refused, new)
  BY <1>4 DEF recordOff
<1> HIDE DEF c, new
<1> QED
  BY <1>2, <1>3, <1>5, SetAndSave

\* A touchdown within the bound has a seq: there are fewer so far than seqs.
LEMMA SeqLeft ==
  ASSUME IsFiniteSet(Flights), TInv, NEW f \in Flights, db[f].touched < MaxTouchdowns
  PROVE  tc.landingSeq + 1 \in Seqs
<1>1. db[f] \in Row /\ db[f].touched \in Nat /\ tc.landingSeq \in Nat /\ db \in [Flights -> Row]
  BY DEF TInv, TypeOK, Row, Controller
<1> DEFINE new == [db EXCEPT ![f] = [db[f] EXCEPT !.touched = @ + 1]]
<1>2. new[f].touched = db[f].touched + 1 /\ \A g \in Flights \ {f} : new[g] = db[g]
  BY <1>1 DEF Row
<1> HIDE DEF new
<1>3. Cardinality(Touchdowns(new)) = Cardinality(Touchdowns(db)) + 1
  BY <1>1, <1>2, OneMoreTouchdown
<1>4. /\ MaxSeq \in Nat /\ Cardinality(Touchdowns(new)) \in 0..MaxSeq
      /\ Cardinality(Touchdowns(db)) \in 0..MaxSeq
  BY TouchdownsFit
<1>5. tc.landingSeq <= Cardinality(Touchdowns(db))
  BY DEF TInv
<1> QED
  BY <1>1, <1>3, <1>4, <1>5 DEF Seqs

LEMMA TouchdownSound ==
  ASSUME IsFiniteSet(Flights), TInv, NEW f \in Flights, NEW m, Sound(m, f),
         m.row.touched = db[f].touched, m.tc.landingSeq = tc.landingSeq,
         db[f].touched < MaxTouchdowns, NEW x
  PROVE  Sound(Touchdown(m, x, f), f)
<1> DEFINE n    == m.row.touched + 1
           seen == [m EXCEPT !.row.touched = n]
           won  == [seen.row EXCEPT !.on = TRUE]
           on   == Save(seen, "on", x.refused, won)
           next == [on EXCEPT !.tc.landingSeq = @ + 1]
           seq  == next.tc.landingSeq
           land == addLanding(next.row, seq, n)
           far  == [land EXCEPT !.arr = n]
           q    == [flight |-> f, seq |-> seq, touchdown |-> n]
           ask  == IF x.runway THEN next.pending ELSE next.pending \cup {q}
           done == [next EXCEPT !.row = land, !.pending = ask]
<1>1. Touchdown(m, x, f) = IF on.thrown THEN on
                           ELSE IF "landing" \in x.refused THEN [next EXCEPT !.thrown = TRUE]
                           ELSE IF m.tc.isFreeFlight /\ x.near
                             THEN Save(done, "arr", x.refused, far)
                           ELSE done
  BY Zenon DEF Touchdown
<1>2. /\ m \in Handler /\ m.row \in Row /\ m.tc \in Controller
      /\ m.row.touched \in Nat /\ n \in 1..MaxTouchdowns /\ n \in 0..AtCompletion
      /\ n = db[f].touched + 1 /\ db[f].touched \in Nat
  BY TrackingAssumption DEF Sound, Handler, Row, TInv, TypeOK, AtCompletion
<1>3. /\ Cardinality(Held(m.row)) \in Nat /\ Cardinality(Held(m.row)) <= m.row.touched
      /\ Held(db[f]) \subseteq Held(m.row)
  BY HeldIsFinite DEF Sound, MovesOn, Numbered
<1>4. tc.landingSeq + 1 \in Seqs /\ tc.landingSeq + 1 \in 0..MaxSeq
  BY SeqLeft, TouchdownsFit DEF Seqs
<1> HIDE DEF n
<1>5. /\ seen \in Handler /\ seen.row.touched = n /\ seen.row.landings = m.row.landings
      /\ seen.row.status = m.row.status /\ seen.row.status # "none"
      /\ seen.tc = m.tc /\ seen.pending = m.pending
  <2> DEFINE row == [m.row EXCEPT !.touched = n]
  <2>1. /\ row \in Row /\ row.touched = n /\ row.landings = m.row.landings
        /\ row.status = m.row.status
    BY <1>2 DEF Row
  <2>2. seen = [m EXCEPT !.row = row]
    OBVIOUS
  <2> HIDE DEF row
  <2> QED
    BY <2>1, <2>2 DEF Sound, Handler
<1> HIDE DEF seen
<1>6. Sound(seen, f)
  <2>1. Held(seen.row) = Held(m.row)
    BY <1>5 DEF Held
  <2>2. MovesOn(seen.row, db[f])
    BY <1>2, <1>3, <1>5, <2>1 DEF MovesOn, Numbered, Handler
  <2> QED
    BY <1>2, <1>5, <2>1, <2>2 DEF Sound, Asked, OnceAtMost
<1>7. /\ won \in Row /\ won.status # "none" /\ won.landings = seen.row.landings
      /\ won.touched = seen.row.touched
  <2>1. seen.row \in Row
    BY <1>5 DEF Handler
  <2> QED
    BY <1>5, <2>1 DEF Row
<1> HIDE DEF won
<1>8. Beside(on, seen) /\ on.tc = m.tc
  BY <1>5, <1>6, <1>7, SaveBeside
<1> HIDE DEF on
<1>9. Sound(on, f)
  BY <1>6, <1>8, BesideSound
<1>10. /\ next \in Handler /\ next.row = on.row /\ next.pending = on.pending
       /\ seq = tc.landingSeq + 1
  <2> DEFINE c == [on.tc EXCEPT !.landingSeq = @ + 1]
  <2>1. c \in Controller /\ c.landingSeq = tc.landingSeq + 1
    BY <1>2, <1>4, <1>8 DEF Controller
  <2>2. next = [on EXCEPT !.tc = c]
    OBVIOUS
  <2> HIDE DEF c
  <2> QED
    BY <2>1, <2>2, <1>8 DEF Beside, Handler
<1> HIDE DEF next, seq
<1>11. Sound(next, f)
  <2>1. /\ next.row.touched = db[f].touched + 1
        /\ next.tc.landingSeq = tc.landingSeq + 1
    BY <1>2, <1>5, <1>8, <1>10 DEF Beside, seq
  <2> QED
    BY <1>9, <1>10, <2>1 DEF Sound, Asked, OnceAtMost
<1>12. Beside([next EXCEPT !.thrown = TRUE], next)
  BY <1>11 DEF Beside, Sound, Handler
<1>13. Sound([next EXCEPT !.thrown = TRUE], f)
  BY <1>11, <1>12, BesideSound
<1>14. /\ next.row \in Row /\ next.row.touched = n /\ next.row.status # "none"
       /\ Held(next.row) = Held(m.row) /\ seq \in Seqs
  BY <1>4, <1>5, <1>8, <1>10, <1>11 DEF Beside, Held, Handler, Sound
<1>15. /\ land \in Row /\ Held(land) = Held(m.row) \cup {seq}
       /\ Cardinality(Held(land)) <= n
       /\ land.touched = n /\ land.status # "none"
  <2> HIDE DEF land
  <2>1. /\ land \in Row /\ land.touched = next.row.touched /\ land.status = next.row.status
        /\ Held(land) = Held(next.row) \cup {seq}
        /\ Cardinality(Held(next.row) \cup {seq}) =
             IF seq \in Held(next.row) THEN Cardinality(Held(next.row))
             ELSE Cardinality(Held(next.row)) + 1
    <3>1. next.row \in Row /\ seq \in Seqs /\ n \in 1..MaxTouchdowns
      BY <1>2, <1>14
    <3> DEFINE r == next.row
    <3> HIDE DEF r
    <3>2. /\ addLanding(r, seq, n) \in Row
          /\ addLanding(r, seq, n).touched = r.touched
          /\ addLanding(r, seq, n).status = r.status
          /\ Held(addLanding(r, seq, n)) = Held(r) \cup {seq}
          /\ Cardinality(Held(r) \cup {seq}) =
               IF seq \in Held(r) THEN Cardinality(Held(r)) ELSE Cardinality(Held(r)) + 1
      <4>1. r \in Row
        BY <3>1 DEF r
      <4> QED
        BY <3>1, <4>1, LandingHeld
    <3> QED
      BY <3>2 DEF land, r
  <2> QED
    BY <1>2, <1>3, <1>14, <2>1 DEF n
<1> HIDE DEF land
<1>16. /\ far \in Row /\ far.landings = land.landings /\ far.touched = n
       /\ far.status # "none"
  BY <1>2, <1>15 DEF Row
<1> HIDE DEF far
<1>17. MovesOn(land, db[f]) /\ seq \in Held(land) /\ Held(m.row) \subseteq Held(land)
  BY <1>2, <1>3, <1>15 DEF MovesOn, Numbered
<1>18. q \in Questions
  BY <1>2, <1>14 DEF Questions
<1>19. /\ ask \in SUBSET Questions
       /\ \A p \in ask : p \in m.pending \/ p = q
  <2>1. next.pending = m.pending /\ m.pending \in SUBSET Questions
    BY <1>5, <1>8, <1>10 DEF Beside, Sound, Handler
  <2> HIDE DEF q
  <2> QED
    BY <1>18, <2>1
<1>20. /\ done \in Handler /\ done.row = land /\ done.pending = ask /\ done.tc = next.tc
  <2> HIDE DEF ask
  <2> QED
    BY <1>10, <1>15, <1>19 DEF Handler
<1>21. Asked(done, f)
  <2> SUFFICES ASSUME NEW p \in ask
               PROVE  IF p.flight = f THEN p.seq \in Held(land) ELSE p \in pending
    BY <1>20 DEF Asked
  <2>1. CASE p \in m.pending
    BY <1>17, <2>1 DEF Sound, Asked
  <2>2. CASE p = q
    BY <1>17, <2>2
  <2> QED
    BY <1>19, <2>1, <2>2
<1> HIDE DEF ask, done
<1>22. Sound(done, f)
  <2>1. OnceAtMost(done, f)
    BY <1>2, <1>10, <1>15, <1>20 DEF OnceAtMost, seq
  <2> QED
    BY <1>15, <1>17, <1>20, <1>21, <2>1 DEF Sound
<1>23. Sound(Save(done, "arr", x.refused, far), f)
  BY <1>15, <1>16, <1>20, <1>22, SaveBeside, BesideSound
<1> QED
  BY <1>1, <1>9, <1>13, <1>22, <1>23

LEMMA DetectSound ==
  ASSUME IsFiniteSet(Flights), TInv, NEW f \in Flights, NEW m, NotYet(m, f), NEW x,
         x.t \in Telemetry,
         isTouchdown(tc.touchdown, x.t) => db[f].touched < MaxTouchdowns
  PROVE  Sound(detectTouchdown(m, x, f), f)
<1> DEFINE c == [m.tc EXCEPT !.touchdown = touchdownStep(@, x.t)]
           stepped == [m EXCEPT !.tc = c]
<1>1. detectTouchdown(m, x, f) =
        IF m.thrown \/ ignored(x.t, m.tc.paused) THEN m
        ELSE IF isTouchdown(m.tc.touchdown, x.t) THEN Touchdown(stepped, x, f)
        ELSE stepped
  BY DEF detectTouchdown
<1>2. m.tc \in Controller /\ m.tc.touchdown \in TouchdownState
  BY DEF NotYet, Sound, Handler, Controller
<1>3. touchdownStep(m.tc.touchdown, x.t) \in TouchdownState
  BY <1>2, RuleTyped
<1>4. c \in Controller /\ c.landingSeq = m.tc.landingSeq
  BY <1>2, <1>3 DEF Controller
<1> HIDE DEF c
<1>5. Beside(stepped, m) /\ stepped.row = m.row /\ stepped.tc.landingSeq = m.tc.landingSeq
  BY <1>4, FieldBeside DEF NotYet, Beside, Sound, Handler
<1> HIDE DEF stepped
<1>6. Sound(stepped, f)
  BY <1>5, BesideSound DEF NotYet
<1>7. isTouchdown(m.tc.touchdown, x.t) => Sound(Touchdown(stepped, x, f), f)
  BY <1>5, <1>6, TouchdownSound DEF NotYet
<1> QED
  BY <1>1, <1>6, <1>7 DEF NotYet

LEMMA PointSound ==
  ASSUME NEW f \in Flights, NEW m, Sound(m, f), NEW x
  PROVE  Sound(recordPoint(m, x), f)
<1> DEFINE row == [m.row EXCEPT !.lastPoint = phase(m)]
<1>1. m.row \in Row /\ phase(m) \in Phases
  BY DEF Sound, Handler, Controller, PhaseState, phase
<1>2. /\ row \in Row /\ row.status = m.row.status /\ row.landings = m.row.landings
      /\ row.touched = m.row.touched
  BY <1>1 DEF Row
<1>3. [m EXCEPT !.row.lastPoint = phase(m)] = [m EXCEPT !.row = row]
  OBVIOUS
<1> HIDE DEF row
<1>4. Beside([m EXCEPT !.row = row], m)
  BY <1>2 DEF Beside, Sound, Handler
<1>5. Sound([m EXCEPT !.row = row], f)
  BY <1>4, BesideSound
<1> QED
  BY <1>3, <1>5 DEF recordPoint

LEMMA CompleteSound ==
  ASSUME NEW f \in Flights, NEW m, Sound(m, f), NEW x
  PROVE  Sound(complete(m, x), f)
<1> DEFINE here     == [m.row EXCEPT !.arr = AtCompletion]
           resolved == Resolved(m, x)
           new  == [resolved.row EXCEPT !.status = "completed"]
           done == Save(resolved, "complete", x.refused, new)
           free == [done.tc EXCEPT !.recorder = NoFlight]
<1>1. complete(m, x) = IF resolved.thrown THEN resolved
                       ELSE IF done.thrown THEN done
                       ELSE IF "after" \in x.refused THEN [done EXCEPT !.thrown = TRUE]
                       ELSE [done EXCEPT !.tc = free]
  BY DEF complete
<1>2. Beside(resolved, m)
  <2>1. m.row \in Row /\ AtCompletion \in 0..AtCompletion
    BY TrackingAssumption DEF Sound, Handler, AtCompletion
  <2>2. /\ here \in Row /\ here.status = m.row.status /\ here.landings = m.row.landings
        /\ here.touched = m.row.touched
    BY <2>1 DEF Row
  <2>3. resolved = IF m.tc.isFreeFlight /\ x.near THEN Save(m, "arr", x.refused, here) ELSE m
    BY DEF Resolved
  <2> HIDE DEF here, resolved
  <2>4. here.status # "none"
    BY <2>2 DEF Sound
  <2>5. Beside(Save(m, "arr", x.refused, here), m)
    BY <2>2, <2>4, SaveBeside
  <2> QED
    BY <2>3, <2>5, NothingBeside
<1>3. Sound(resolved, f)
  BY <1>2, BesideSound
<1> HIDE DEF resolved
<1>4. /\ new \in Row /\ new.status # "none" /\ new.landings = resolved.row.landings
      /\ new.touched = resolved.row.touched
  <2>1. resolved.row \in Row
    BY <1>3 DEF Sound, Handler
  <2> QED
    BY <2>1 DEF Row
<1> HIDE DEF new
<1>5. Beside(done, resolved) /\ done.tc = resolved.tc
  BY <1>3, <1>4, SaveBeside
<1> HIDE DEF done
<1>6. Sound(done, f)
  BY <1>3, <1>5, BesideSound
<1>7. Beside([done EXCEPT !.thrown = TRUE], done)
  BY <1>6 DEF Beside, Sound, Handler
<1>8. free \in Controller /\ free.landingSeq = done.tc.landingSeq
  <2>1. done.tc \in Controller
    BY <1>6 DEF Sound, Handler
  <2> QED
    BY <2>1 DEF Controller
<1> HIDE DEF free
<1>9. Beside([done EXCEPT !.tc = free], done)
  BY <1>6, <1>8, FieldBeside
<1> QED
  BY <1>1, <1>3, <1>6, <1>7, <1>9, BesideSound

LEMMA SampleSound ==
  ASSUME IsFiniteSet(Flights), TInv, NEW f \in Flights, db[f].status # "none", NEW x,
         x.t \in Telemetry, x.autoFinish \in BOOLEAN,
         isTouchdown(tc.touchdown, x.t) => db[f].touched < MaxTouchdowns
  PROVE  Sound(Handled(x, f), f)
<1> DEFINE before == [row |-> db[f], tc |-> tc, pending |-> pending, thrown |-> FALSE]
           m1 == Ingest(before, x)
           m2 == finalizeFuelOut(m1, x)
           m3 == recordOff(m2, x)
           m4 == detectTouchdown(m3, x, f)
           m5 == recordPoint(m4, x)
<1>1. NotYet(before, f)
  <2>1. /\ before \in Handler /\ before.row = db[f] /\ before.pending = pending
        /\ before.tc = tc
    BY DEF TInv, TypeOK, Handler, Questions
  <2> HIDE DEF before
  <2>2. Numbered(db[f]) /\ db[f].touched \in Nat
    BY DEF TInv, TypeOK, Row
  <2>3. Asked(before, f)
    BY <2>1 DEF Asked, TInv, AboutHeld
  <2> QED
    BY <2>1, <2>2, <2>3 DEF NotYet, Sound, MovesOn, OnceAtMost
<1> HIDE DEF before
<1>2. NotYet(m1, f)
  BY <1>1, IngestNotYet
<1> HIDE DEF m1
<1>3. NotYet(m2, f)
  BY <1>2, FuelNotYet
<1> HIDE DEF m2
<1>4. NotYet(m3, f)
  BY <1>3, OffNotYet
<1> HIDE DEF m3
<1>5. Sound(m4, f)
  BY <1>4, DetectSound
<1> HIDE DEF m4
<1>6. Sound(m5, f)
  BY <1>5, PointSound
<1>7. Handled(x, f) = completeAtShutdown(m5, x)
  BY DEF Handled, before, m1, m2, m3, m4
<1> HIDE DEF m5
<1>8. Sound(complete(m5, x), f)
  BY <1>6, CompleteSound
<1> QED
  BY <1>6, <1>7, <1>8 DEF completeAtShutdown

-----------------------------------------------------------------------------
(* The actions, each of which keeps TInv beside IInv.                      *)

AppTyped == app \in [armed : Flights \cup {NoFlight}, orphaned : Flights \cup {NoFlight},
                     cancelling : Flights \cup {NoFlight}]

Spending == [refusals : 0..MaxRefusals, pauses : 0..MaxPauses, restarts : 0..MaxRestarts]

LEMMA RefusingTyped ==
  ASSUME TInv, NEW refused, Refusing(refused)
  PROVE  spent' \in Spending
<1>1. spent \in Spending
  BY DEF TInv, TypeOK, Spending
<1>2. spent.refusals < MaxRefusals => [spent EXCEPT !.refusals = @ + 1] \in Spending
  BY <1>1, TrackingAssumption DEF Spending
<1> QED
  BY <1>1, <1>2 DEF Refusing

\* A call that only lets rows move on, and whose controller is behind the touchdowns.
LEMMA RowsMoveOn ==
  ASSUME IsFiniteSet(Flights), TInv, IInv',
         db' \in [Flights -> Row], \A f \in Flights : MovesOn(db'[f], db[f]),
         pending' \subseteq pending,
         tc' \in Controller, tc'.landingSeq <= Cardinality(Touchdowns(db)),
         telemetry' \in Samples \cup {NoSample}, spent' \in Spending
  PROVE  TInv'
<1>1. TypeOK'
  BY DEF TInv, TypeOK, IInv, Shapes, Spending
<1>2. \A f \in Flights : Numbered(db'[f])
  BY DEF MovesOn
<1>3. ASSUME NEW q \in pending'
      PROVE  AboutHeld(q, db')
  <2>1. q \in pending /\ q.flight \in Flights /\ AboutHeld(q, db)
    BY DEF TInv, TypeOK
  <2> QED
    BY <2>1 DEF AboutHeld, MovesOn
<1>4. tc'.landingSeq <= Cardinality(Touchdowns(db'))
  <2>1. \A f \in Flights : /\ db'[f].touched \in Nat /\ db[f].touched \in Nat
                           /\ db[f].touched <= db'[f].touched
    BY DEF MovesOn, Numbered, Row, TInv
  <2>2. Cardinality(Touchdowns(db)) <= Cardinality(Touchdowns(db'))
    BY <2>1, TouchdownsGrow
  <2>3. tc'.landingSeq \in Nat
    BY TouchdownsFit DEF Controller
  <2>4. Cardinality(Touchdowns(db)) \in Nat /\ Cardinality(Touchdowns(db')) \in Nat
    BY TouchdownsFit
  <2> QED
    BY <2>2, <2>3, <2>4
<1> QED
  BY <1>1, <1>2, <1>3, <1>4 DEF TInv

\* Rows that stay move on.
LEMMA RowsRest ==
  ASSUME TInv, NEW f \in Flights
  PROVE  MovesOn(db[f], db[f])
<1>1. Numbered(db[f]) /\ db[f].touched \in Nat
  BY DEF TInv, TypeOK, Row
<1> QED
  BY <1>1 DEF MovesOn

\* A call that changes neither rows nor seqs.
LEMMA OnlyFields ==
  ASSUME IsFiniteSet(Flights), TInv, IInv', UNCHANGED db, pending' \subseteq pending,
         tc' \in Controller, tc'.landingSeq \in {0, tc.landingSeq},
         telemetry' \in Samples \cup {NoSample}, spent' \in Spending
  PROVE  TInv'
<1>1. db' \in [Flights -> Row] /\ \A f \in Flights : MovesOn(db'[f], db[f])
  BY RowsRest DEF TInv, TypeOK
<1>2. tc'.landingSeq <= Cardinality(Touchdowns(db))
  BY TouchdownsFit DEF TInv
<1> QED
  BY <1>1, <1>2, RowsMoveOn

LEMMA MovesOnAgain ==
  ASSUME NEW old, old.touched \in Nat, NEW mid, MovesOn(mid, old), NEW new \in Row,
         new.status = "none" => new = NoRow,
         new.landings = mid.landings, new.touched = mid.touched
  PROVE  MovesOn(new, old)
<1>1. MovesOn(new, mid) /\ Held(new) = Held(mid)
  BY SameLandings DEF MovesOn, Held
<1> QED
  BY <1>1 DEF MovesOn

\* deleteFlight().
LEMMA DeletedMovesOn ==
  ASSUME TInv, NEW f \in Flights, db[f].status # "none"
  PROVE  /\ Deleted(db, f) \in [Flights -> Row]
         /\ \A g \in Flights : /\ MovesOn(Deleted(db, f)[g], db[g])
                               /\ Deleted(db, f)[g].status = db[g].status
<1> DEFINE row == [db[f] EXCEPT !.deleted = TRUE, !.lastPoint = "none"]
<1>1. db \in [Flights -> Row] /\ Numbered(db[f]) /\ db[f] \in Row
  BY DEF TInv, TypeOK
<1>2. Deleted(db, f) = [db EXCEPT ![f] = row]
  BY <1>1 DEF Deleted
<1>3. /\ row \in Row /\ row.status = db[f].status /\ row.landings = db[f].landings
      /\ row.touched = db[f].touched
  BY <1>1 DEF Row
<1> HIDE DEF row
<1>4. MovesOn(row, db[f])
  BY <1>1, <1>3, SameLandings
<1> QED
  BY <1>1, <1>2, <1>3, <1>4, RowsRest

\* stop() inside another call.
LEMMA StoppedMovesOn ==
  ASSUME TInv, IInv
  PROVE  /\ Stopped(db) \in [Flights -> Row]
         /\ \A g \in Flights : /\ MovesOn(Stopped(db)[g], db[g])
                               /\ Stopped(db)[g].status = db[g].status
<1>1. CASE tc.recorder = NoFlight
  BY <1>1, RowsRest DEF Stopped, TInv, TypeOK
<1>2. CASE tc.recorder # NoFlight
  <2>1. tc.recorder \in Flights /\ db[tc.recorder].status # "none"
    BY <1>2 DEF IInv, Shapes, RecordedHasBegun
  <2> QED
    BY <1>2, <2>1, DeletedMovesOn DEF Stopped
<1> QED
  BY <1>1, <1>2

LEMMA LetGoTyped ==
  ASSUME TInv
  PROVE  /\ [tc EXCEPT !.recorder = NoFlight] \in Controller
         /\ [tc EXCEPT !.recorder = NoFlight].landingSeq = tc.landingSeq
BY DEF TInv, TypeOK, Controller

LEMMA StopTyped ==
  ASSUME IsFiniteSet(Flights), TInv, IInv, IInv',
         db' = Stopped(db), tc' = [tc EXCEPT !.recorder = NoFlight],
         pending' \subseteq pending, UNCHANGED telemetry, spent' \in Spending
  PROVE  TInv'
<1>1. tc'.landingSeq <= Cardinality(Touchdowns(db)) /\ tc' \in Controller
  BY LetGoTyped DEF TInv
<1>2. telemetry' \in Samples \cup {NoSample}
  BY DEF TInv, TypeOK
<1> QED
  BY <1>1, <1>2, StoppedMovesOn, RowsMoveOn

\* A call whose write is refused before it has done anything.
LEMMA RefusedTyped ==
  ASSUME IsFiniteSet(Flights), TInv, IInv', NEW refused, Refusing(refused),
         UNCHANGED <<db, tc, pending, telemetry>>
  PROVE  TInv'
BY RefusingTyped, OnlyFields DEF TInv, TypeOK

\* What a new or resumed recorder leaves of the controller.
LEMMA RecordingTyped ==
  ASSUME TInv, NEW f \in Flights, NEW state \in PhaseState, NEW off \in BOOLEAN
  PROVE  /\ Recording(f, state, off) \in Controller
         /\ Recording(f, state, off).landingSeq = tc.landingSeq
BY DEF Recording, Controller, TInv, TypeOK

LEMMA ResetTyped ==
  ASSUME NEW c \in Controller, NEW seq \in 0..MaxSeq, NEW fuel \in BOOLEAN, NEW free \in BOOLEAN
  PROVE  Reset(c, seq, fuel, free) \in Controller /\ Reset(c, seq, fuel, free).landingSeq = seq
BY RuleStarts DEF Reset, Controller

LEMMA StartTyped ==
  ASSUME IsFiniteSet(Flights), TInv, IInv, IInv', NEW f \in Flights, NEW refused,
         start(f, refused)
  PROVE  TInv'
<1> DEFINE begins ==
             /\ db' = [Stopped(db) EXCEPT ![f].status = "active"]
             /\ tc' = Reset(Recording(f, NewPhaseState("preflight", FALSE), FALSE), 0, FALSE, FALSE)
<1>5. /\ UNCHANGED <<pending, telemetry>>
      /\ \/ (\E w \in {{}, {"delete"}} : Refusing(w)) /\ UNCHANGED <<db, tc>>
         \/ Refusing(refused) /\ db' = Stopped(db) /\ tc' = [tc EXCEPT !.recorder = NoFlight]
         \/ Refusing(refused) /\ begins
  BY DEF start, Refused
<1>1. /\ spent' \in Spending /\ telemetry' \in Samples \cup {NoSample}
      /\ pending' \subseteq pending
  BY <1>5, RefusingTyped DEF TInv, TypeOK
<1>2. CASE (\E w \in {{}, {"delete"}} : Refusing(w)) /\ UNCHANGED <<db, tc>>
  BY <1>2, <1>5, RefusedTyped
<1>3. CASE db' = Stopped(db) /\ tc' = [tc EXCEPT !.recorder = NoFlight]
  BY <1>1, <1>3, <1>5, StopTyped
<1>4. CASE begins
  <2> DEFINE row == [Stopped(db)[f] EXCEPT !.status = "active"]
             c == Recording(f, NewPhaseState("preflight", FALSE), FALSE)
  <2>1. db' = [Stopped(db) EXCEPT ![f].status = "active"]
        /\ tc' = Reset(c, 0, FALSE, FALSE)
    BY <1>4
  <2>2. Stopped(db) \in [Flights -> Row] /\ MovesOn(Stopped(db)[f], db[f])
    BY StoppedMovesOn
  <2>3. /\ row \in Row /\ row.status # "none" /\ row.landings = Stopped(db)[f].landings
        /\ row.touched = Stopped(db)[f].touched
    <3> DEFINE old == Stopped(db)[f]
    <3>1. old \in Row /\ row = [old EXCEPT !.status = "active"]
      BY <2>2
    <3> HIDE DEF old, row
    <3>2. /\ row \in Row /\ row.status = "active" /\ row.landings = old.landings
          /\ row.touched = old.touched
      BY <3>1 DEF Row
    <3> QED
      BY <3>2 DEF old
  <2>4. db' = [Stopped(db) EXCEPT ![f] = row]
    BY <2>1
  <2> HIDE DEF row
  <2>5. MovesOn(row, db[f])
    <3>1. db[f].touched \in Nat
      BY DEF TInv, TypeOK, Row
    <3> QED
      BY <2>2, <2>3, <3>1, MovesOnAgain
  <2>6. db' \in [Flights -> Row] /\ \A g \in Flights : MovesOn(db'[g], db[g])
    BY <2>2, <2>3, <2>4, <2>5, StoppedMovesOn
  <2>7. NewPhaseState("preflight", FALSE) \in PhaseState
    BY NewStateTyped DEF Phases
  <2>8. c \in Controller
    BY <2>7, RecordingTyped
  <2> HIDE DEF c
  <2>9. 0 \in 0..MaxSeq
    BY TouchdownsFit
  <2>10. tc' \in Controller /\ tc'.landingSeq = 0
    BY <2>1, <2>8, <2>9, ResetTyped
  <2>11. tc'.landingSeq <= Cardinality(Touchdowns(db))
    BY <2>10, TouchdownsFit
  <2> QED
    BY <1>1, <2>6, <2>10, <2>11, RowsMoveOn
<1> QED
  BY <1>2, <1>3, <1>4, <1>5

LEMMA NoRowTyped ==
  ASSUME IsFiniteSet(Flights)
  PROVE  NoRow \in Row /\ Numbered(NoRow) /\ Held(NoRow) = {}
<1>1. MaxTouchdowns \in Nat /\ 0 \in 0..MaxTouchdowns /\ 0 \in 0..AtCompletion
  BY TrackingAssumption DEF AtCompletion
<1>2. [n \in Seqs |-> 0] \in [Seqs -> 0..MaxTouchdowns]
  BY <1>1
<1>3. NoRow \in Row
  BY <1>1, <1>2 DEF NoRow, Row
<1>4. Held(NoRow) = {} /\ NoRow.touched = 0
  BY DEF Held, NoRow
<1> QED
  BY <1>3, <1>4, FS_EmptySet DEF Numbered

\* A row that begins, planned or straight into the air.
LEMMA NewRowMovesOn ==
  ASSUME IsFiniteSet(Flights), TInv, NEW f \in Flights, db[f].status = "none",
         NEW new \in Row, new.status # "none",
         new.landings = NoRow.landings, new.touched = NoRow.touched
  PROVE  MovesOn(new, db[f])
<1>1. Numbered(db[f]) /\ db[f] = NoRow
  BY DEF TInv, Numbered
<1> QED
  BY <1>1, SameLandings

LEMMA SeedIsPhase ==
  ASSUME NEW t
  PROVE  seedPhaseFromTelemetry(t) \in Phases
BY DEF seedPhaseFromTelemetry, Phases

LEMMA StartFreeTyped ==
  ASSUME IsFiniteSet(Flights), TInv, IInv, IInv', NEW f \in Flights, NEW refused,
         startFree(f, refused)
  PROVE  TInv'
<1> DEFINE phaseNow == seedPhaseFromTelemetry(telemetry)
           airborne == phaseNow \notin {"preflight", "taxi"}
           new      == [NoRow EXCEPT !.status = "active", !.free = TRUE]
           created  == [Stopped(db) EXCEPT ![f] = new]
           recorder == Recording(f, NewPhaseState(phaseNow, FALSE), airborne)
           fails    == telemetry = NoSample \/ "start" \in refused
           begins   ==
             \/ db' = created /\ tc' = [tc EXCEPT !.recorder = NoFlight]
             \/ db' = created /\ tc' = recorder
             \/ db' = [created EXCEPT ![f].off = airborne] /\ tc' = Reset(recorder, 0, FALSE, TRUE)
<1>5. /\ UNCHANGED <<pending, telemetry>> /\ db[f].status = "none"
      /\ \/ (\E w \in {{}, {"delete"}} : Refusing(w)) /\ UNCHANGED <<db, tc>>
         \/ Refusing(refused) /\ db' = Stopped(db) /\ tc' = [tc EXCEPT !.recorder = NoFlight]
         \/ Refusing(refused) /\ begins
  <2> DEFINE tail ==
        CASE fails -> db' = Stopped(db) /\ tc' = [tc EXCEPT !.recorder = NoFlight]
          [] ~fails /\ "remember" \in refused ->
               db' = created /\ tc' = [tc EXCEPT !.recorder = NoFlight]
          [] ~fails /\ "off" \in refused /\ airborne -> db' = created /\ tc' = recorder
          [] OTHER ->
               db' = [created EXCEPT ![f].off = airborne] /\ tc' = Reset(recorder, 0, FALSE, TRUE)
  <2>1. /\ UNCHANGED <<pending, telemetry>> /\ db[f].status = "none"
        /\ \/ AlreadyTracking(f) /\ Refusing({}) /\ UNCHANGED <<db, tc>>
           \/ ~AlreadyTracking(f) /\ tc.recorder # NoFlight /\ Refused("delete")
           \/ ~AlreadyTracking(f) /\ Refusing(refused) /\ tail
    BY DEF startFree
  <2>2. tail => (db' = Stopped(db) /\ tc' = [tc EXCEPT !.recorder = NoFlight]) \/ begins
    <3> HIDE DEF fails, airborne, created, recorder
    <3> QED
      OBVIOUS
  <2> HIDE DEF tail, begins
  <2> QED
    BY <2>1, <2>2 DEF Refused
<1>1. /\ spent' \in Spending /\ telemetry' \in Samples \cup {NoSample}
      /\ pending' \subseteq pending /\ db[f].status = "none"
  BY <1>5, RefusingTyped DEF TInv, TypeOK
<1>2. CASE (\E w \in {{}, {"delete"}} : Refusing(w)) /\ UNCHANGED <<db, tc>>
  BY <1>2, <1>5, RefusedTyped
<1>3. CASE db' = Stopped(db) /\ tc' = [tc EXCEPT !.recorder = NoFlight]
  BY <1>1, <1>3, <1>5, StopTyped
<1>4. CASE begins
  <2>1. \/ db' = created /\ tc' = [tc EXCEPT !.recorder = NoFlight]
        \/ db' = created /\ tc' = recorder
        \/ db' = [created EXCEPT ![f].off = airborne] /\ tc' = Reset(recorder, 0, FALSE, TRUE)
    BY <1>4
  <2>2. phaseNow \in Phases /\ airborne \in BOOLEAN
    BY SeedIsPhase
  <2> HIDE DEF phaseNow, airborne
  <2>3. recorder \in Controller /\ recorder.landingSeq = tc.landingSeq
    BY <2>2, NewStateTyped, RecordingTyped
  <2> HIDE DEF recorder
  <2>4. 0 \in 0..MaxSeq
    BY TouchdownsFit
  <2>5. /\ Reset(recorder, 0, FALSE, TRUE) \in Controller
        /\ Reset(recorder, 0, FALSE, TRUE).landingSeq = 0
    BY <2>3, <2>4, ResetTyped
  <2>6. tc' \in Controller /\ tc'.landingSeq \in {0, tc.landingSeq}
    BY <2>1, <2>3, <2>5, LetGoTyped
  <2>7. tc'.landingSeq <= Cardinality(Touchdowns(db))
    BY <2>6, TouchdownsFit DEF TInv
  <2>8. /\ new \in Row /\ new.status # "none" /\ new.landings = NoRow.landings
        /\ new.touched = NoRow.touched
    BY NoRowTyped DEF Row
  <2> DEFINE off == [new EXCEPT !.off = airborne]
  <2>9. /\ off \in Row /\ off.status # "none" /\ off.landings = NoRow.landings
        /\ off.touched = NoRow.touched
    <3> HIDE DEF new
    <3> QED
      BY <2>2, <2>8 DEF Row
  <2>10. Stopped(db) \in [Flights -> Row]
    BY StoppedMovesOn
  <2>11. db' = created \/ db' = [Stopped(db) EXCEPT ![f] = off]
    <3> HIDE DEF new
    <3>1. [created EXCEPT ![f].off = airborne] = [Stopped(db) EXCEPT ![f] = off]
      BY <2>10
    <3> QED
      BY <2>1, <3>1
  <2> HIDE DEF new, off
  <2>12. MovesOn(new, db[f]) /\ MovesOn(off, db[f])
    BY <1>1, <2>8, <2>9, NewRowMovesOn
  <2>13. db' \in [Flights -> Row] /\ \A g \in Flights : MovesOn(db'[g], db[g])
    BY <2>8, <2>9, <2>10, <2>11, <2>12, StoppedMovesOn
  <2> QED
    BY <1>1, <2>6, <2>7, <2>13, RowsMoveOn
<1> QED
  BY <1>2, <1>3, <1>4, <1>5

LEMMA CreateTyped ==
  ASSUME IsFiniteSet(Flights), TInv, IInv, IInv', NEW f \in Flights, flightCreate(f)
  PROVE  TInv'
<1> DEFINE new == [NoRow EXCEPT !.status = "planned"]
           gone == Abandoned(Stopped(db))
           letGo == tc' = [tc EXCEPT !.recorder = NoFlight]
<1>1. /\ db[f].status = "none" /\ UNCHANGED <<pending, telemetry>>
      /\ \/ Refusing({"delete"}) /\ UNCHANGED <<db, tc>>
         \/ Refusing({"plans"}) /\ db' = Stopped(db) /\ letGo
         \/ Refusing({"create"}) /\ db' = gone /\ letGo
         \/ Refusing({}) /\ db' = [gone EXCEPT ![f] = new] /\ letGo
  BY DEF flightCreate, Refused
<1>2. /\ new \in Row /\ new.status # "none" /\ new.landings = NoRow.landings
      /\ new.touched = NoRow.touched
  BY NoRowTyped DEF Row
<1>3. ASSUME NEW g \in Flights
      PROVE  gone[g] \in Row /\ MovesOn(gone[g], db[g])
  <2> DEFINE left == [Stopped(db)[g] EXCEPT !.status = "abandoned"]
  <2>1. Stopped(db)[g] \in Row /\ MovesOn(Stopped(db)[g], db[g]) /\ db[g].touched \in Nat
    BY StoppedMovesOn DEF TInv, TypeOK, Row
  <2>2. /\ left \in Row /\ left.status # "none" /\ left.landings = Stopped(db)[g].landings
        /\ left.touched = Stopped(db)[g].touched
    BY <2>1 DEF Row
  <2>3. gone[g] \in {left, Stopped(db)[g]}
    BY DEF Abandoned
  <2> HIDE DEF left, gone
  <2>4. MovesOn(left, db[g])
    BY <2>1, <2>2, MovesOnAgain
  <2> QED
    BY <2>1, <2>2, <2>3, <2>4
<1>4. gone \in [Flights -> Row]
  <2>1. gone = [g \in Flights |-> gone[g]]
    BY DEF Abandoned
  <2> HIDE DEF gone
  <2> QED
    BY <1>3, <2>1
<1>5. MovesOn(new, db[f])
  BY <1>1, <1>2, NewRowMovesOn
<1>6. /\ pending' \subseteq pending /\ telemetry' \in Samples \cup {NoSample}
      /\ spent' \in Spending
  BY <1>1, RefusingTyped DEF TInv, TypeOK
<1> HIDE DEF new, gone
<1>7. ASSUME letGo, db' = gone \/ db' = [gone EXCEPT ![f] = new]
      PROVE  TInv'
  <2>1. tc' \in Controller /\ tc'.landingSeq <= Cardinality(Touchdowns(db))
    BY <1>7, LetGoTyped DEF TInv
  <2>2. db' \in [Flights -> Row] /\ \A g \in Flights : MovesOn(db'[g], db[g])
    BY <1>2, <1>3, <1>4, <1>5, <1>7
  <2> QED
    BY <1>6, <2>1, <2>2, RowsMoveOn
<1>8. CASE Refusing({"delete"}) /\ UNCHANGED <<db, tc>>
  BY <1>1, <1>8, RefusedTyped
<1>9. CASE db' = Stopped(db) /\ letGo
  BY <1>1, <1>6, <1>9, StopTyped
<1> QED
  BY <1>1, <1>7, <1>8, <1>9

\* deleteFlight() of a flight that was written, with the controller as it is or let go.
LEMMA DeleteTyped ==
  ASSUME IsFiniteSet(Flights), TInv, IInv', NEW f \in Flights, db[f].status # "none",
         db' = Deleted(db, f), tc' \in {tc, [tc EXCEPT !.recorder = NoFlight]},
         UNCHANGED <<pending, telemetry>>, Refusing({})
  PROVE  TInv'
<1>1. tc' \in Controller /\ tc'.landingSeq <= Cardinality(Touchdowns(db))
  BY LetGoTyped DEF TInv, TypeOK
<1>2. /\ pending' \subseteq pending /\ telemetry' \in Samples \cup {NoSample}
      /\ spent' \in Spending
  BY RefusingTyped DEF TInv, TypeOK
<1> QED
  BY <1>1, <1>2, DeletedMovesOn, RowsMoveOn

\* What a handler leaves of one flight.
LEMMA LeavesTyped ==
  ASSUME IsFiniteSet(Flights), TInv, IInv', NEW f \in Flights, NEW m, Sound(m, f), Leaves(m, f),
         telemetry' \in Samples \cup {NoSample}, spent' \in Spending
  PROVE  TInv'
<1>1. /\ m.row \in Row /\ tc' \in Controller /\ pending' \subseteq Questions
      /\ MovesOn(m.row, db[f]) /\ db \in [Flights -> Row]
  BY DEF Sound, Handler, Leaves, TInv, TypeOK
<1>2. /\ db' \in [Flights -> Row] /\ db'[f] = m.row
      /\ \A g \in Flights \ {f} : db'[g] = db[g]
  BY <1>1 DEF Leaves
<1>3. TypeOK'
  BY <1>1, <1>2 DEF TypeOK, IInv, Shapes, Spending, Questions
<1>4. \A g \in Flights : Numbered(db'[g])
  BY <1>1, <1>2 DEF MovesOn, TInv
<1>5. ASSUME NEW q \in pending'
      PROVE  AboutHeld(q, db')
  <2>1. q.flight \in Flights /\ IF q.flight = f THEN q.seq \in Held(m.row) ELSE q \in pending
    BY <1>1 DEF Leaves, Sound, Asked, Questions
  <2>2. q \in pending => AboutHeld(q, db)
    BY DEF TInv
  <2> QED
    BY <1>2, <2>1, <2>2 DEF AboutHeld
<1>6. tc'.landingSeq <= Cardinality(Touchdowns(db'))
  <2>1. tc' = m.tc /\ OnceAtMost(m, f)
    BY DEF Leaves, Sound
  <2>2. /\ tc.landingSeq \in Nat /\ tc.landingSeq <= Cardinality(Touchdowns(db))
        /\ Cardinality(Touchdowns(db)) \in Nat /\ Cardinality(Touchdowns(db')) \in Nat
    BY TouchdownsFit DEF TInv, TypeOK, Controller
  <2>3. db[f].touched \in Nat /\ m.row.touched \in 0..MaxTouchdowns
    BY <1>1 DEF Row
  <2>4. CASE m.row.touched = db[f].touched /\ m.tc.landingSeq = tc.landingSeq
    <3>1. \A g \in Flights : /\ db'[g].touched \in Nat /\ db[g].touched \in Nat
                             /\ db[g].touched <= db'[g].touched
      BY <1>1, <1>2, <2>4 DEF Row
    <3>2. Cardinality(Touchdowns(db)) <= Cardinality(Touchdowns(db'))
      BY <3>1, TouchdownsGrow
    <3> QED
      BY <2>1, <2>2, <2>4, <3>2
  <2>5. CASE /\ m.row.touched = db[f].touched + 1
             /\ m.tc.landingSeq \in {tc.landingSeq, tc.landingSeq + 1}
    <3>1. db[f].touched < MaxTouchdowns
      BY <2>3, <2>5, TrackingAssumption
    <3>2. Cardinality(Touchdowns(db')) = Cardinality(Touchdowns(db)) + 1
      BY <1>2, <2>3, <2>5, <3>1, OneMoreTouchdown
    <3> QED
      BY <2>1, <2>2, <2>5, <3>2
  <2> QED
    BY <2>1, <2>4, <2>5 DEF OnceAtMost
<1> QED
  BY <1>3, <1>4, <1>5, <1>6 DEF TInv

LEMMA IngestTyped ==
  ASSUME IsFiniteSet(Flights), TInv, IInv, IInv', NEW t \in Samples, NEW refused,
         ingest(t, refused)
  PROVE  TInv'
<1>1. telemetry' \in Samples \cup {NoSample} /\ t \in Telemetry
  BY TrackingAssumption DEF ingest
<1>2. CASE tc.recorder = NoFlight
  BY <1>1, <1>2, OnlyFields DEF ingest, TInv, TypeOK, Spending
<1>3. CASE tc.recorder # NoFlight
  <2>1. PICK due, autoFinish, near, runway :
          /\ autoFinish \in AutoFinish
          /\ Leaves(Handled([t |-> t, refused |-> refused, due |-> due,
                             autoFinish |-> autoFinish, near |-> near,
                             runway |-> runway], tc.recorder), tc.recorder)
    BY <1>3, OneOutcome DEF ingest
  <2> DEFINE x == [t |-> t, refused |-> refused, due |-> due, autoFinish |-> autoFinish,
                   near |-> near, runway |-> runway]
  <2>6. x.autoFinish \in BOOLEAN
    BY <2>1, TrackingAssumption
  <2>2. tc.recorder \in Flights /\ db[tc.recorder].status # "none"
    BY <1>3 DEF IInv, Shapes, RecordedHasBegun
  <2>3. x.t = t /\ (isTouchdown(tc.touchdown, t) => db[tc.recorder].touched < MaxTouchdowns)
    BY <1>3 DEF ingest
  <2> HIDE DEF x
  <2>4. Sound(Handled(x, tc.recorder), tc.recorder)
    BY <1>1, <2>2, <2>3, <2>6, SampleSound
  <2>5. spent' \in Spending
    BY <1>3, RefusingTyped DEF ingest
  <2> QED
    BY <1>1, <2>1, <2>2, <2>4, <2>5, LeavesTyped DEF x
<1> QED
  BY <1>2, <1>3

LEMMA FinishTyped ==
  ASSUME IsFiniteSet(Flights), TInv, IInv, IInv', NEW near, NEW refused, finish(near, refused)
  PROVE  TInv'
<1> DEFINE f == tc.recorder
           m == [row |-> db[f], tc |-> tc, pending |-> pending, thrown |-> FALSE]
           x == [near |-> near /\ telemetry # NoSample, refused |-> refused]
<1>1. /\ f # NoFlight /\ Refusing(refused) /\ UNCHANGED telemetry
      /\ Leaves(complete(m, x), f)
  BY DEF finish
<1>2. f \in Flights /\ db[f].status # "none"
  BY <1>1 DEF IInv, Shapes, RecordedHasBegun
<1> HIDE DEF f
<1>3. Sound(m, f)
  <2>1. m \in Handler /\ m.row = db[f] /\ m.pending = pending /\ m.tc = tc
    BY <1>2 DEF TInv, TypeOK, Handler, Questions
  <2> HIDE DEF m
  <2>2. Asked(m, f)
    BY <2>1 DEF Asked, TInv, AboutHeld
  <2>3. MovesOn(m.row, db[f])
    BY <1>2, <2>1, RowsRest
  <2> QED
    BY <1>2, <2>1, <2>2, <2>3 DEF Sound, OnceAtMost
<1> HIDE DEF m, x
<1>4. Sound(complete(m, x), f)
  BY <1>2, <1>3, CompleteSound
<1>5. telemetry' \in Samples \cup {NoSample} /\ spent' \in Spending
  BY <1>1, RefusingTyped DEF TInv, TypeOK
<1> QED
  BY <1>1, <1>2, <1>4, <1>5, LeavesTyped

LEMMA DestinationTyped ==
  ASSUME IsFiniteSet(Flights), TInv, IInv, IInv', trackingSetDestination
  PROVE  TInv'
<1> DEFINE f   == tc.recorder
           row == [db[f] EXCEPT !.arr = 0]
<1>1. /\ f # NoFlight /\ UNCHANGED <<tc, pending, telemetry>>
      /\ db' \in {db, [db EXCEPT ![f] = row]}
      /\ \E w \in {{}, {"arr"}} : Refusing(w)
  BY DEF trackingSetDestination, Refused
<1>2. f \in Flights /\ db[f].status # "none" /\ Numbered(db[f]) /\ db[f] \in Row
      /\ db \in [Flights -> Row]
  BY <1>1 DEF IInv, Shapes, RecordedHasBegun, TInv, TypeOK
<1> HIDE DEF f
<1>3. 0 \in 0..AtCompletion
  BY TrackingAssumption DEF AtCompletion
<1>4. /\ row \in Row /\ row.status = db[f].status /\ row.landings = db[f].landings
      /\ row.touched = db[f].touched
  BY <1>2, <1>3 DEF Row
<1> HIDE DEF row
<1>5. MovesOn(row, db[f])
  BY <1>2, <1>4, SameLandings
<1>6. db' \in [Flights -> Row] /\ \A g \in Flights : MovesOn(db'[g], db[g])
  BY <1>1, <1>2, <1>4, <1>5, RowsRest
<1>7. /\ tc' \in Controller /\ tc'.landingSeq <= Cardinality(Touchdowns(db))
      /\ pending' \subseteq pending /\ telemetry' \in Samples \cup {NoSample}
      /\ spent' \in Spending
  BY <1>1, RefusingTyped DEF TInv, TypeOK
<1> QED
  BY <1>6, <1>7, RowsMoveOn

\* The answer stores the landing that is there, perhaps as another touchdown's.
LEMMA LateAnswerTyped ==
  ASSUME IsFiniteSet(Flights), TInv, IInv', NEW q \in pending, upgradeLandingFromSim(q)
  PROVE  TInv'
<1>1. q \in Questions /\ AboutHeld(q, db) /\ db \in [Flights -> Row]
  BY DEF TInv, TypeOK, Questions
<1>2. q.flight \in Flights /\ q.seq \in Seqs /\ q.touchdown \in 1..MaxTouchdowns
      /\ q.touchdown \in 0..AtCompletion
  BY <1>1, TrackingAssumption DEF Questions, AtCompletion
<1> DEFINE f    == q.flight
           land == addLanding(db[f], q.seq, q.touchdown)
           both == [land EXCEPT !.arr = q.touchdown]
<1>3. Numbered(db[f]) /\ db[f] \in Row /\ db[f].touched \in Nat /\ q.seq \in Held(db[f])
  BY <1>1, <1>2 DEF TInv, AboutHeld, Row
<1>4. db[f].status # "none"
  BY <1>3, NoRowTyped DEF Numbered
<1>5. \/ UNCHANGED db
      \/ db' = [db EXCEPT ![f] = land]
      \/ db' = [db EXCEPT ![f] = both]
  BY DEF upgradeLandingFromSim
<1> HIDE DEF f
<1>6. /\ land \in Row /\ land.touched = db[f].touched /\ land.status # "none"
      /\ Held(land) = Held(db[f])
  <2>1. Held(db[f]) \cup {q.seq} = Held(db[f])
    BY <1>3
  <2> QED
    BY <1>2, <1>3, <1>4, <2>1, LandingHeld
<1> HIDE DEF land
<1>7. MovesOn(land, db[f])
  BY <1>3, <1>6 DEF MovesOn, Numbered
<1>8. /\ both \in Row /\ both.touched = land.touched /\ both.status # "none"
      /\ both.landings = land.landings
  BY <1>2, <1>6 DEF Row
<1> HIDE DEF both
<1>9. MovesOn(both, db[f])
  BY <1>3, <1>7, <1>8, MovesOnAgain
<1>10. db' \in [Flights -> Row] /\ \A g \in Flights : MovesOn(db'[g], db[g])
  BY <1>1, <1>2, <1>5, <1>6, <1>7, <1>8, <1>9, RowsRest DEF f
<1>12. UNCHANGED spent \/ \E refused : Refusing(refused)
  BY DEF upgradeLandingFromSim
<1>11. /\ tc' \in Controller /\ tc'.landingSeq <= Cardinality(Touchdowns(db))
       /\ pending' \subseteq pending /\ telemetry' \in Samples \cup {NoSample}
       /\ spent' \in Spending
  BY <1>12, RefusingTyped DEF upgradeLandingFromSim, TInv, TypeOK, Spending
<1> QED
  BY <1>10, <1>11, RowsMoveOn

\* A resume counts the rows there are, which are no more than the touchdowns.
LEMMA CountFits ==
  ASSUME IsFiniteSet(Flights), TInv, NEW f \in Flights
  PROVE  /\ countLandings(db[f]) \in 0..MaxSeq
         /\ countLandings(db[f]) <= Cardinality(Touchdowns(db))
<1>1. /\ db[f].touched \in 0..MaxTouchdowns /\ Cardinality(Held(db[f])) <= db[f].touched
      /\ Cardinality(Held(db[f])) \in 0..MaxSeq
  BY HeldIsFinite DEF TInv, Numbered, Row
<1> DEFINE own == {f} \X (1..db[f].touched)
<1>2. IsFiniteSet(own) /\ Cardinality(own) = db[f].touched
  <2>1. IsFiniteSet({f}) /\ Cardinality({f}) = 1
    BY FS_Singleton
  <2>2. db[f].touched \in Nat
    BY <1>1
  <2>3. IsFiniteSet(1..db[f].touched) /\ Cardinality(1..db[f].touched) = db[f].touched
    <3> DEFINE k == db[f].touched
    <3>1. k \in Nat /\ 1 \in Int /\ k \in Int
      BY <2>2
    <3> HIDE DEF k
    <3>2. IsFiniteSet(1..k) /\ Cardinality(1..k) = k
      BY <3>1, FS_Interval
    <3> QED
      BY <3>2 DEF k
  <2> DEFINE one == {f}
             all == 1..db[f].touched
  <2> HIDE DEF one, all
  <2>4. IsFiniteSet(one \X all) /\ Cardinality(one \X all) = Cardinality(one) * Cardinality(all)
    BY <2>1, <2>3, FS_Product DEF one, all
  <2>5. Cardinality(one) = 1 /\ Cardinality(all) = db[f].touched
    BY <2>1, <2>3 DEF one, all
  <2>6. 1 * db[f].touched = db[f].touched
    BY <2>2
  <2> QED
    BY <2>4, <2>5, <2>6 DEF one, all
<1>3. own \in SUBSET Touchdowns(db)
  BY <1>1, TrackingAssumption DEF Touchdowns
<1> HIDE DEF own
<1>4. Cardinality(own) <= Cardinality(Touchdowns(db))
  BY <1>3, TouchdownsFit, FS_Subset
<1>5. Cardinality(Touchdowns(db)) \in Nat /\ MaxSeq \in Nat
  BY TouchdownsFit
<1>6. countLandings(db[f]) \in {0, Cardinality(Held(db[f]))}
  BY DEF countLandings, Held
<1> QED
  BY <1>1, <1>2, <1>4, <1>5, <1>6

LEMMA ResumeTyped ==
  ASSUME IsFiniteSet(Flights), TInv, IInv', NEW f \in Flights, resume(f),
         UNCHANGED <<db, pending, telemetry, spent>>
  PROVE  TInv'
<1>1. /\ db' \in [Flights -> Row] /\ \A g \in Flights : MovesOn(db'[g], db[g])
      /\ pending' \subseteq pending /\ telemetry' \in Samples \cup {NoSample}
      /\ spent' \in Spending
  BY RowsRest DEF TInv, TypeOK, Spending
<1>2. CASE db[f].status # "active"
  <2>1. tc' \in Controller /\ tc'.landingSeq <= Cardinality(Touchdowns(db))
    BY <1>2 DEF resume, TInv, TypeOK
  <2> QED
    BY <1>1, <2>1, RowsMoveOn
<1>3. CASE db[f].status = "active"
  <2> DEFINE row == db[f]
             lastPhase == IF row.lastPoint = "none" THEN "preflight" ELSE row.lastPoint
             c == Recording(f, NewPhaseState(lastPhase, row.on), row.off)
  <2>1. tc' = Reset(c, countLandings(row), row.off, row.free)
    BY <1>3 DEF resume
  <2>2. row \in Row
    BY DEF TInv, TypeOK
  <2>3. /\ row.on \in BOOLEAN /\ row.off \in BOOLEAN /\ row.free \in BOOLEAN
        /\ lastPhase \in Phases
    BY <2>2 DEF Row, Phases
  <2> HIDE DEF lastPhase
  <2>4. c \in Controller
    BY <2>3, NewStateTyped, RecordingTyped
  <2> HIDE DEF c
  <2>5. tc' \in Controller /\ tc'.landingSeq = countLandings(row)
    BY <2>1, <2>3, <2>4, CountFits, ResetTyped
  <2>6. tc'.landingSeq <= Cardinality(Touchdowns(db))
    BY <2>5, CountFits
  <2> QED
    BY <1>1, <2>5, <2>6, RowsMoveOn
<1> QED
  BY <1>2, <1>3

LEMMA PausedTyped ==
  ASSUME IsFiniteSet(Flights), TInv, IInv', NEW isPaused \in BOOLEAN, paused(isPaused)
  PROVE  TInv'
<1>1. tc' \in Controller /\ tc'.landingSeq = tc.landingSeq
  BY DEF paused, TInv, TypeOK, Controller
<1>2. spent' \in Spending
  <2>1. spent \in Spending
    BY DEF TInv, TypeOK, Spending
  <2>2. spent.pauses < MaxPauses => [spent EXCEPT !.pauses = @ + 1] \in Spending
    BY <2>1, TrackingAssumption DEF Spending
  <2> QED
    BY <2>1, <2>2 DEF paused
<1>3. UNCHANGED db /\ pending' \subseteq pending /\ telemetry' \in Samples \cup {NoSample}
  BY DEF paused, TInv, TypeOK
<1> QED
  BY <1>1, <1>2, <1>3, OnlyFields

LEMMA NewControllerTyped ==
  ASSUME IsFiniteSet(Flights)
  PROVE  NewController \in Controller /\ NewController.landingSeq = 0
<1>1. NewPhaseState("preflight", FALSE) \in PhaseState
  BY NewStateTyped DEF Phases
<1>2. 0 \in 0..MaxSeq
  BY TouchdownsFit
<1> QED
  BY <1>1, <1>2, RuleStarts DEF NewController, Controller

LEMMA RestartTyped ==
  ASSUME IsFiniteSet(Flights), TInv, IInv', restart
  PROVE  TInv'
<1>1. NewController \in Controller /\ NewController.landingSeq = 0
  BY NewControllerTyped
<1>2. spent' \in Spending
  BY TrackingAssumption DEF restart, TInv, TypeOK, Spending
<1>3. tc' = NewController /\ pending' \subseteq pending /\ telemetry' = NoSample /\ UNCHANGED db
  BY DEF restart
<1> QED
  BY <1>1, <1>2, <1>3, OnlyFields

LEMMA TypedAtFirst ==
  ASSUME IsFiniteSet(Flights), Init
  PROVE  TInv
<1>1. NewController \in Controller /\ NewController.landingSeq = 0
  BY NewControllerTyped
<1>2. TypeOK
  BY <1>1, NoRowTyped, TrackingAssumption DEF Init, TypeOK
<1>3. \A f \in Flights : Numbered(db[f])
  BY NoRowTyped DEF Init
<1>4. tc.landingSeq <= Cardinality(Touchdowns(db))
  BY <1>1, TouchdownsFit DEF Init
<1> QED
  BY <1>2, <1>3, <1>4 DEF Init, TInv

LEMMA NothingMovesTyped ==
  ASSUME IsFiniteSet(Flights), TInv, IInv', UNCHANGED <<db, tc, pending, telemetry, spent>>
  PROVE  TInv'
BY OnlyFields DEF TInv, TypeOK, Spending

LEMMA NextTyped ==
  ASSUME IsFiniteSet(Flights), TInv, IInv, IInv', [Next]_vars
  PROVE  TInv'
<1>1. ASSUME NEW t \in Samples, sample(t)
      PROVE  TInv'
  BY <1>1, IngestTyped DEF sample
<1>2. ASSUME NEW isPaused \in BOOLEAN, paused(isPaused)
      PROVE  TInv'
  BY <1>2, PausedTyped
<1>3. ASSUME NEW q \in pending, upgradeLandingFromSim(q)
      PROVE  TInv'
  BY <1>3, LateAnswerTyped
<1>4. ASSUME NEW f \in Flights, trackingStart(f)
      PROVE  TInv'
  BY <1>4, StartTyped DEF trackingStart
<1>5. ASSUME NEW f \in Flights, trackingStartFree(f)
      PROVE  TInv'
  BY <1>5, StartFreeTyped DEF trackingStartFree
<1>6. ASSUME NEW f \in Flights, flightCreate(f)
      PROVE  TInv'
  BY <1>6, CreateTyped
<1>7. ASSUME NEW f \in Flights, askCancel(f)
      PROVE  TInv'
  BY <1>7, NothingMovesTyped DEF askCancel
<1>8. ASSUME NEW f \in Flights, flightDelete(f)
      PROVE  TInv'
  <2>1. /\ db[f].status # "none" /\ UNCHANGED <<pending, telemetry>>
        /\ \/ /\ Refusing({}) /\ db' = Deleted(db, f)
              /\ tc' \in {tc, [tc EXCEPT !.recorder = NoFlight]}
           \/ Refusing({"delete"}) /\ UNCHANGED <<db, tc>>
    BY <1>8 DEF flightDelete, Refused
  <2> QED
    BY <2>1, DeleteTyped, RefusedTyped
<1>9. ASSUME trackingStop
      PROVE  TInv'
  <2>1. /\ UNCHANGED <<pending, telemetry>>
        /\ \/ Refusing({}) /\ db' = Stopped(db) /\ tc' = [tc EXCEPT !.recorder = NoFlight]
           \/ Refusing({"delete"}) /\ UNCHANGED <<db, tc>>
    BY <1>9 DEF trackingStop, stop, Refused
  <2> QED
    BY <2>1, StopTyped, RefusingTyped, RefusedTyped
<1>10. ASSUME trackingFinish
       PROVE  TInv'
  BY <1>10, FinishTyped DEF trackingFinish
<1>11. ASSUME trackingSetDestination
       PROVE  TInv'
  BY <1>11, DestinationTyped
<1>12. ASSUME dismissCancel \/ closeOrphanedPrompt
       PROVE  TInv'
  BY <1>12, NothingMovesTyped DEF dismissCancel, closeOrphanedPrompt
<1>13. ASSUME flightCancel \/ trackingDiscardOrphaned
       PROVE  TInv'
  <2>1. PICK f \in Flights : /\ db[f].status # "none" /\ UNCHANGED <<tc, pending, telemetry>>
                             /\ \/ Refusing({}) /\ db' = Deleted(db, f)
                                \/ Refusing({"delete"}) /\ UNCHANGED db
    BY <1>13 DEF flightCancel, trackingDiscardOrphaned, Refused, IInv, Shapes, AskedAboutExists
  <2> QED
    BY <2>1, DeleteTyped, RefusedTyped
<1>14. ASSUME trackingResumeOrphaned
       PROVE  TInv'
  <2>1. /\ app.orphaned \in Flights /\ resume(app.orphaned)
        /\ UNCHANGED <<db, pending, telemetry, spent>>
    BY <1>14 DEF trackingResumeOrphaned, IInv, Shapes
  <2> QED
    BY <2>1, ResumeTyped
<1>15. ASSUME autoStart
       PROVE  TInv'
  <2>1. /\ app.armed \in Flights
        /\ \/ \E refused : start(app.armed, refused)
           \/ UNCHANGED <<db, tc, pending, telemetry, spent>>
    BY <1>15 DEF autoStart, IInv, Shapes
  <2> QED
    BY <2>1, StartTyped, NothingMovesTyped
<1>16. ASSUME restart
       PROVE  TInv'
  BY <1>16, RestartTyped
<1>17. ASSUME UNCHANGED vars
       PROVE  TInv'
  BY <1>17, NothingMovesTyped DEF vars
<1> QED
  BY <1>1, <1>2, <1>3, <1>4, <1>5, <1>6, <1>7, <1>8, <1>9, <1>10, <1>11, <1>12, <1>13, <1>14,
     <1>15, <1>16, <1>17 DEF Next

\* The types: a flight's landings have seqs to go under, whatever was refused and wherever a
\* restart came between, because the controller's seq never runs ahead of the touchdowns.
THEOREM TrackingTypesHold == IsFiniteSet(Flights) => (Spec => []TypeOK)
<1> SUFFICES ASSUME IsFiniteSet(Flights)
             PROVE  Spec => []TypeOK
  OBVIOUS
<1>1. Init => TInv
  BY TypedAtFirst
<1>2. IInv /\ IInv' /\ TInv /\ [Next]_vars => TInv'
  BY NextTyped
<1>3. TInv => TypeOK
  BY DEF TInv
<1> QED
  BY <1>1, <1>2, <1>3, TrackingInvariant, PTL DEF Spec
===============================================================================
