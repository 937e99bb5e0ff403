----------------------------- MODULE Tracking ------------------------------
(***************************************************************************)
(* Flight tracking: TrackingController (src/main/tracking), the flight and *)
(* landing rows it writes (src/main/db), the tracking and flight channels  *)
(* that the windows call (src/main/ipc/tracking-handlers.ts), the auto-    *)
(* start watch, and the process ending and starting again at any moment.   *)
(*                                                                         *)
(* Main is one thread: a handler or a sample runs to its end, so it is one *)
(* action.  What can come between are the confirm dialog of "Cancel", the  *)
(* prompt for an orphaned flight, the auto-start watch and the sim's late  *)
(* answer about a touchdown's airfield.  Any database write may be refused *)
(* (a full disk, a locked file), which throws out of the handler.          *)
(***************************************************************************)
EXTENDS PhaseStep, FiniteSets

CONSTANTS Samples,        \* the telemetry samples the sim can send
          Flights,        \* flight ids
          NoFlight,       \* undefined
          Due,            \* the answers to "is the recording interval over?": {TRUE} or BOOLEAN
          AutoFinish,     \* what "Finish flights automatically" is set to: {TRUE} or BOOLEAN
          Refusable,      \* the writes the database may refuse
          MaxTouchdowns,  \* bound on the touchdowns of one flight
          MaxRefusals,    \* bound on the samples and calls in which a write is refused
          MaxPauses,      \* bound on the times the sim is paused
          MaxRestarts     \* bound on the times the process ends

\* The writes, named for what is lost: those of a sample, then those of the calls (a stop or
\* any other deletion, the start's, the memory of an aircraft, and the two of "Fly").
SampleWrites == {"fuel", "off", "on", "landing", "arr", "point", "complete", "after"}
Writes == SampleWrites \cup {"delete", "start", "remember", "plans", "create"}

ASSUME TrackingAssumption ==
  /\ Samples \subseteq Telemetry
  /\ NoFlight \notin Flights
  /\ Due \subseteq BOOLEAN /\ AutoFinish \subseteq BOOLEAN
  /\ Refusable \subseteq Writes
  /\ MaxTouchdowns \in Nat /\ MaxRefusals \in Nat /\ MaxPauses \in Nat /\ MaxRestarts \in Nat

VARIABLES db,         \* the flight rows with their landings, by flight id
          tc,         \* TrackingController's fields
          pending,    \* resolveSimAirfield() calls not answered yet
          app,        \* the auto-start watch, the orphan captured at startup, the open dialog
          telemetry,  \* the sim's last sample, or NoSample before the first
          spent       \* how much of each bound is used up

vars == <<db, tc, pending, app, telemetry, spent>>

NoSample == [none |-> TRUE]

\* landingSeq can run on from one flight into the next (see startFree()).
MaxSeq == Cardinality(Flights) * MaxTouchdowns
Seqs == 1..MaxSeq

AtCompletion == MaxTouchdowns + 1

(* A flight row.  landings[n] is the touchdown stored under seq n (0: no row), *)
(* arr the touchdown the arrival was resolved from (0: filed or a placeholder, *)
(* AtCompletion: where the aircraft was when the flight completed), lastPoint   *)
(* the phase of the last stored track point.  touched counts the      *)
(* touchdowns that the rule found, which no column does.                        *)
Row == [status : {"none", "planned", "active", "completed", "abandoned"},
        deleted : BOOLEAN, free : BOOLEAN, fuel : BOOLEAN, off : BOOLEAN, on : BOOLEAN,
        landings : [Seqs -> 0..MaxTouchdowns], arr : 0..AtCompletion,
        lastPoint : Phases \cup {"none"}, touched : 0..MaxTouchdowns]

NoRow == [status |-> "none", deleted |-> FALSE, free |-> FALSE, fuel |-> FALSE,
          off |-> FALSE, on |-> FALSE, landings |-> [n \in Seqs |-> 0], arr |-> 0,
          lastPoint |-> "none", touched |-> 0]

Controller == [recorder : Flights \cup {NoFlight}, state : PhaseState, recorderPaused : BOOLEAN,
               paused : BOOLEAN, offRecorded : BOOLEAN, fuelOutFinalized : BOOLEAN,
               landingSeq : 0..MaxSeq, touchdown : TouchdownState,
               isFreeFlight : BOOLEAN]

NewController ==
  [recorder |-> NoFlight, state |-> NewPhaseState("preflight", FALSE), recorderPaused |-> FALSE,
   paused |-> FALSE, offRecorded |-> FALSE, fuelOutFinalized |-> FALSE, landingSeq |-> 0,
   touchdown |-> initialTouchdownState, isFreeFlight |-> FALSE]

TypeOK ==
  /\ db \in [Flights -> Row]
  /\ tc \in Controller
  /\ pending \subseteq [flight : Flights, seq : Seqs, touchdown : 1..MaxTouchdowns]
  /\ app \in [armed : Flights \cup {NoFlight}, orphaned : Flights \cup {NoFlight},
              cancelling : Flights \cup {NoFlight}]
  /\ telemetry \in Samples \cup {NoSample}
  /\ spent \in [refusals : 0..MaxRefusals, pauses : 0..MaxPauses, restarts : 0..MaxRestarts]

Live(f) == db[f].status # "none" /\ ~db[f].deleted
inProgress(f) == db[f].status \in {"planned", "active"} /\ ~db[f].deleted
Tracked(f) == tc.recorder = f
countLandings(row) == IF row.deleted THEN 0 ELSE Cardinality({n \in Seqs : row.landings[n] # 0})

Init ==
  /\ db = [f \in Flights |-> NoRow]
  /\ tc = NewController
  /\ pending = {}
  /\ app = [armed |-> NoFlight, orphaned |-> NoFlight, cancelling |-> NoFlight]
  /\ telemetry = NoSample
  /\ spent = [refusals |-> 0, pauses |-> 0, restarts |-> 0]

\* The writes refused during one handler: none, or some while the bound lasts.
Refusing(refused) ==
  /\ refused \subseteq Refusable
  /\ refused # {} => spent.refusals < MaxRefusals
  /\ spent' = IF refused = {} THEN spent ELSE [spent EXCEPT !.refusals = @ + 1]

\* A handler whose first write is refused leaves rows and recorder alone.
Refused(write) == Refusing({write}) /\ UNCHANGED <<db, tc>>

-----------------------------------------------------------------------------
(* handleTelemetry(): one stage per statement.  A stage takes what the     *)
(* handler has done so far, m = [row, tc, pending, thrown], and does       *)
(* nothing once a refused write has thrown.  x is the sample with what the *)
(* handler finds out about it: refused writes, the setting, whether the    *)
(* recorder's interval is over, whether an airport is near, whether a      *)
(* runway is known.                                                        *)

Save(m, write, refused, row) ==
  IF write \in refused THEN [m EXCEPT !.thrown = TRUE] ELSE [m EXCEPT !.row = row]

phase(m) == m.tc.state.phase

\* recorder.ingest().  FlightPhase models the recording interval; here it is x.due.
Ingest(m, x) ==
  IF ignored(x.t, tc.recorderPaused) THEN m
  ELSE [m EXCEPT !.tc.state = advancePhase(@, x.t, x.autoFinish)]

finalizeFuelOut(m, x) ==
  LET due == /\ (x.t.onGround /\ x.t.gs > 0 /\ ~x.t.slew) \/ ~x.t.onGround
             /\ phase(m) # "preflight" /\ ~m.tc.fuelOutFinalized
  IN  IF ~due THEN m
      ELSE Save([m EXCEPT !.tc.fuelOutFinalized = TRUE], "fuel", x.refused,
                [m.row EXCEPT !.fuel = TRUE])

\* Mutant: only a stored sample records the liftoff.
recordOff_StoredOnly(m, x) ==
  IF m.thrown \/ ~x.due \/ phase(m) # "climb" \/ m.tc.offRecorded THEN m
  ELSE Save([m EXCEPT !.tc.offRecorded = TRUE], "off", x.refused, [m.row EXCEPT !.off = TRUE])

recordOff(m, x) ==
  IF m.thrown \/ phase(m) # "climb" \/ m.tc.offRecorded THEN m
  ELSE Save([m EXCEPT !.tc.offRecorded = TRUE], "off", x.refused, [m.row EXCEPT !.off = TRUE])

\* Mutant: every touchdown replaces the first landing, as when one row per flight was kept.
addLanding_OnePerFlight(row, seq, touchdown) == [row EXCEPT !.landings[1] = touchdown]

addLanding(row, seq, touchdown) == [row EXCEPT !.landings[seq] = touchdown]

\* The touchdown itself: recordOn(), the next seq, the landing row, the question to the
\* sim when no runway is known, and a free flight's arrival.
Touchdown(m, x, f) ==
  LET n    == m.row.touched + 1
      seen == [m EXCEPT !.row.touched = n]
      on   == Save(seen, "on", x.refused, [seen.row EXCEPT !.on = TRUE])
      next == [on EXCEPT !.tc.landingSeq = @ + 1]
      seq  == next.tc.landingSeq
      row  == addLanding(next.row, seq, n)
      done == [next EXCEPT
                 !.row = row,
                 !.pending = IF x.runway THEN @
                             ELSE @ \cup {[flight |-> f, seq |-> seq, touchdown |-> n]}]
  IN  IF on.thrown THEN on
      ELSE IF "landing" \in x.refused THEN [next EXCEPT !.thrown = TRUE]
      ELSE IF m.tc.isFreeFlight /\ x.near THEN Save(done, "arr", x.refused, [row EXCEPT !.arr = n])
      ELSE done

detectTouchdown(m, x, f) ==
  LET stepped == [m EXCEPT !.tc.touchdown = touchdownStep(@, x.t)]
  IN  IF m.thrown \/ ignored(x.t, m.tc.paused) THEN m
      ELSE IF isTouchdown(m.tc.touchdown, x.t) THEN Touchdown(stepped, x, f)
      ELSE stepped

\* recordPoint(): a refused point throws nothing and waits in memory for the next one that is
\* accepted, which is then the last.
recordPoint(m, x) ==
  IF m.thrown \/ ~x.due \/ ignored(x.t, tc.recorderPaused) \/ "point" \in x.refused THEN m
  ELSE [m EXCEPT !.row.lastPoint = phase(m)]

\* resolveFreeFlightArrival().
Resolved(m, x) ==
  IF m.tc.isFreeFlight /\ x.near
  THEN Save(m, "arr", x.refused, [m.row EXCEPT !.arr = AtCompletion]) ELSE m

\* Mutant: the recorder is not let go.
complete_KeepsRecorder(m, x) ==
  LET resolved == Resolved(m, x)
  IN  IF resolved.thrown THEN resolved
      ELSE Save(resolved, "complete", x.refused, [resolved.row EXCEPT !.status = "completed"])

\* The arrival, completeFlight(), then what follows a completion (the track cleanup, the
\* flown route), and the recorder is let go.
complete(m, x) ==
  LET resolved == Resolved(m, x)
      ended    == [resolved.row EXCEPT !.status = "completed"]
      done     == Save(resolved, "complete", x.refused, ended)
  IN  IF resolved.thrown THEN resolved
      ELSE IF done.thrown THEN done
      ELSE IF "after" \in x.refused THEN [done EXCEPT !.thrown = TRUE]
      ELSE [done EXCEPT !.tc.recorder = NoFlight]

\* Mutant: completed only by the sample that reaches 'shutdown'.
completeAtShutdown_OnTheEdge(m, x) ==
  IF m.thrown \/ phase(m) # "shutdown" \/ tc.state.phase = "shutdown" THEN m ELSE complete(m, x)

completeAtShutdown(m, x) == IF m.thrown \/ phase(m) # "shutdown" THEN m ELSE complete(m, x)

\* The stages in their order.  There is one outcome; as a set, each stage is worked out once.
handleTelemetry(x, f) ==
  LET start == [row |-> db[f], tc |-> tc, pending |-> pending, thrown |-> FALSE]
  IN  {completeAtShutdown(m5, x) : m5 \in
        {recordPoint(m4, x) : m4 \in
          {detectTouchdown(m3, x, f) : m3 \in
            {recordOff(m2, x) : m2 \in
              {finalizeFuelOut(m1, x) : m1 \in {Ingest(start, x)}}}}}}

\* What a handler leaves behind, thrown or not (no statement is rolled back).
Leaves(m, f) ==
  /\ db' = [db EXCEPT ![f] = m.row]
  /\ tc' = m.tc
  /\ pending' = m.pending

\* What a sample can run into: nothing, one refused write, or a database that takes none.
Refusals == {{}, SampleWrites} \cup {{w} : w \in SampleWrites}

\* One sample, with nothing tracked or through handleTelemetrySafely().
ingest(t, refused) ==
  /\ telemetry' = t
  /\ UNCHANGED app
  /\ IF tc.recorder = NoFlight
     THEN refused = {} /\ UNCHANGED <<db, tc, pending, spent>>
     ELSE /\ isTouchdown(tc.touchdown, t) => db[tc.recorder].touched < MaxTouchdowns
          /\ Refusing(refused)
          /\ \E due \in Due, autoFinish \in AutoFinish,
                near \in IF tc.isFreeFlight THEN BOOLEAN ELSE {FALSE},
                runway \in IF isTouchdown(tc.touchdown, t) THEN BOOLEAN ELSE {TRUE} :
               \E m \in handleTelemetry([t |-> t, refused |-> refused, due |-> due,
                                          autoFinish |-> autoFinish, near |-> near,
                                          runway |-> runway], tc.recorder) :
                 Leaves(m, tc.recorder)

sample(t) == \E refused \in Refusals : ingest(t, refused)

\* The sim's 'paused' event: only a recorder that exists hears of it.
paused(isPaused) ==
  /\ isPaused # tc.paused
  /\ isPaused => spent.pauses < MaxPauses
  /\ spent' = IF isPaused THEN [spent EXCEPT !.pauses = @ + 1] ELSE spent
  /\ tc' = [tc EXCEPT !.paused = isPaused,
                      !.recorderPaused = IF tc.recorder = NoFlight THEN @ ELSE isPaused]
  /\ UNCHANGED <<db, pending, app, telemetry>>

\* Mutant: any late answer corrects the arrival.
upgradeLandingFromSim_AnyTouchdown(p) ==
  /\ p \in pending
  /\ pending' = pending \ {p}
  /\ LET row == addLanding(db[p.flight], p.seq, p.touchdown)
     IN  db' = [db EXCEPT ![p.flight] = IF tc.isFreeFlight /\ Tracked(p.flight)
                                        THEN [row EXCEPT !.arr = p.touchdown] ELSE row]
  /\ UNCHANGED <<tc, app, telemetry, spent>>

\* upgradeLandingFromSim() gets its answer: the landing row is stored again, and the
\* arrival of a free flight corrected while this is still the latest touchdown.
upgradeLandingFromSim(p) ==
  /\ p \in pending
  /\ pending' = pending \ {p}
  /\ \/ UNCHANGED <<db, spent>>      \* no match, or a failure
     \/ LET row == addLanding(db[p.flight], p.seq, p.touchdown)
            latest == tc.isFreeFlight /\ Tracked(p.flight) /\ tc.landingSeq = p.seq
        IN  \E refused \in {{}, {"arr"}} :
              /\ Refusing(refused)
              /\ db' = [db EXCEPT ![p.flight] = IF latest /\ refused = {}
                                                THEN [row EXCEPT !.arr = p.touchdown] ELSE row]
  /\ UNCHANGED <<tc, app, telemetry>>

-----------------------------------------------------------------------------
(* start(), startFree(), resume(), stop(), finish().                       *)

hasProgress(f) == db[f].off \/ db[f].lastPoint # "none"

\* deleteFlight(): a tombstone on the row (and its landings); its track points are erased.
Deleted(rows, f) == [rows EXCEPT ![f].deleted = TRUE, ![f].lastPoint = "none"]

\* stop() inside another call.
Stopped(rows) == IF tc.recorder = NoFlight THEN rows ELSE Deleted(rows, tc.recorder)

Recording(f, state, offRecorded) ==
  [tc EXCEPT !.recorder = f, !.state = state, !.recorderPaused = FALSE, !.offRecorded = offRecorded]

\* The fields that start(), startFree() and resume() set after the recorder.
Reset(c, landingSeq, fuelOutFinalized, isFreeFlight) ==
  [c EXCEPT !.landingSeq = landingSeq, !.touchdown = initialTouchdownState,
            !.fuelOutFinalized = fuelOutFinalized, !.isFreeFlight = isFreeFlight]

\* "Already tracking flight ...": thrown before anything has changed.
AlreadyTracking(f) == tc.recorder # NoFlight /\ (Tracked(f) \/ hasProgress(tc.recorder))

\* Retires a different flight with no progress, then starts f.  Without a sample, or with
\* the write refused, the call fails after that.
start(f, refused) ==
  LET fails == telemetry = NoSample \/ "start" \in refused
  IN  /\ db[f].status # "none"
      /\ \/ AlreadyTracking(f) /\ Refusing({}) /\ UNCHANGED <<db, tc>>
         \/ ~AlreadyTracking(f) /\ tc.recorder # NoFlight /\ Refused("delete")
         \/ /\ ~AlreadyTracking(f) /\ Refusing(refused)
            /\ \/ /\ fails
                  /\ db' = Stopped(db) /\ tc' = [tc EXCEPT !.recorder = NoFlight]
               \/ /\ ~fails
                  /\ db' = [Stopped(db) EXCEPT ![f].status = "active"]
                  /\ tc' = Reset(Recording(f, NewPhaseState("preflight", FALSE), FALSE),
                                 0, FALSE, FALSE)
      /\ UNCHANGED <<pending, telemetry>>

seedPhaseFromTelemetry(t) ==
  IF t.onGround THEN IF t.gs > 0 THEN "taxi" ELSE "preflight"
  ELSE CASE t.vs = "up" -> "climb" [] t.vs = "level" -> "cruise" [] OTHER -> "descent"

\* A new row straight into 'active'.  A refused write leaves whatever came before it.
startFree(f, refused) ==
  LET phaseNow == seedPhaseFromTelemetry(telemetry)
      airborne == phaseNow \notin {"preflight", "taxi"}
      created  == [Stopped(db) EXCEPT ![f] = [NoRow EXCEPT !.status = "active", !.free = TRUE]]
      recorder == Recording(f, NewPhaseState(phaseNow, FALSE), airborne)
      fails    == telemetry = NoSample \/ "start" \in refused
  IN  /\ db[f].status = "none"
      /\ \/ AlreadyTracking(f) /\ Refusing({}) /\ UNCHANGED <<db, tc>>
         \/ ~AlreadyTracking(f) /\ tc.recorder # NoFlight /\ Refused("delete")
         \/ /\ ~AlreadyTracking(f) /\ Refusing(refused)
            /\ CASE fails ->
                       db' = Stopped(db) /\ tc' = [tc EXCEPT !.recorder = NoFlight]
                 [] ~fails /\ "remember" \in refused ->
                       db' = created /\ tc' = [tc EXCEPT !.recorder = NoFlight]
                 [] ~fails /\ "off" \in refused /\ airborne ->
                       db' = created /\ tc' = recorder
                 [] OTHER ->
                       /\ db' = [created EXCEPT ![f].off = airborne]
                       /\ tc' = Reset(recorder, 0, FALSE, TRUE)
      /\ UNCHANGED <<pending, telemetry>>

\* Mutant: a flight that was only planned is recorded too.
resume_AnyStatus(f) ==
  tc' = Reset(Recording(f, NewPhaseState("preflight", FALSE), db[f].off),
              countLandings(db[f]), db[f].off, db[f].free)

\* Mutant: the seq to come instead of the seqs so far.
resume_NextSeq(f) ==
  LET row == db[f]
      lastPhase == IF row.lastPoint = "none" THEN "preflight" ELSE row.lastPoint
  IN  IF row.status # "active" THEN UNCHANGED tc
      ELSE tc' = Reset(Recording(f, NewPhaseState(lastPhase, row.on), row.off),
                       countLandings(row) + 1, row.off, row.free)

\* Picks up where the last stored point and the row leave off.
resume(f) ==
  LET row == db[f]
      lastPhase == IF row.lastPoint = "none" THEN "preflight" ELSE row.lastPoint
  IN  IF row.status # "active" THEN UNCHANGED tc
      ELSE tc' = Reset(Recording(f, NewPhaseState(lastPhase, row.on), row.off),
                       countLandings(row), row.off, row.free)

stop ==
  /\ tc.recorder # NoFlight
  /\ \/ Refusing({}) /\ db' = Stopped(db) /\ tc' = [tc EXCEPT !.recorder = NoFlight]
     \/ Refused("delete")
  /\ UNCHANGED <<pending, app, telemetry>>

\* "Finish & save".
finish(near, refused) ==
  /\ tc.recorder # NoFlight
  /\ Refusing(refused)
  /\ Leaves(complete([row |-> db[tc.recorder], tc |-> tc, pending |-> pending, thrown |-> FALSE],
                     [near |-> near /\ telemetry # NoSample, refused |-> refused]),
            tc.recorder)
  /\ UNCHANGED <<app, telemetry>>

-----------------------------------------------------------------------------
(* The channels, the auto-start watch and restarts.  A dialog is modal: the *)
(* windows call nothing else while one is open.                             *)

NoDialog == app.orphaned = NoFlight /\ app.cancelling = NoFlight

\* "Start tracking" on a planned flight.
trackingStart(f) ==
  /\ NoDialog
  /\ db[f].status = "planned" /\ ~db[f].deleted
  /\ \E refused \in {{}, {"start"}} : start(f, refused)
  /\ app' = [app EXCEPT !.armed = NoFlight]

trackingStartFree(f) ==
  /\ NoDialog
  /\ \E refused \in {{}, {"start"}, {"remember"}, {"off"}} : startFree(f, refused)
  /\ app' = [app EXCEPT !.armed = NoFlight]

\* The pilot's own word on where a free flight is going, until the next touchdown says.
trackingSetDestination ==
  /\ NoDialog
  /\ tc.recorder # NoFlight /\ tc.isFreeFlight
  /\ \/ Refusing({}) /\ db' = [db EXCEPT ![tc.recorder].arr = 0] /\ UNCHANGED tc
     \/ Refused("arr")
  /\ UNCHANGED <<pending, app, telemetry>>

trackingStop == NoDialog /\ stop
trackingFinish ==
  /\ NoDialog
  /\ \E near \in BOOLEAN, refused \in {{}, {"arr"}, {"complete"}, {"after"}} : finish(near, refused)

Abandoned(rows) ==
  [g \in Flights |-> IF rows[g].status = "planned" THEN [rows[g] EXCEPT !.status = "abandoned"]
                     ELSE rows[g]]

\* "Fly" on a new plan: stop(), abandonAllPlanned(), createFlight(), arm(); a refused write
\* leaves what came before it, and the watch armed for the plan before.
flightCreate(f) ==
  /\ NoDialog
  /\ db[f].status = "none"
  /\ \/ tc.recorder # NoFlight /\ Refused("delete") /\ UNCHANGED app
     \/ /\ \/ Refusing({"plans"}) /\ db' = Stopped(db) /\ UNCHANGED app
           \/ Refusing({"create"}) /\ db' = Abandoned(Stopped(db)) /\ UNCHANGED app
           \/ /\ Refusing({})
              /\ db' = [Abandoned(Stopped(db)) EXCEPT ![f] = [NoRow EXCEPT !.status = "planned"]]
              /\ app' = [app EXCEPT !.armed = f]
        /\ tc' = [tc EXCEPT !.recorder = NoFlight]
  /\ UNCHANGED <<pending, telemetry>>

\* "Cancel" on a planned flight: the confirm dialog opens, and its answer comes later.
askCancel(f) ==
  /\ NoDialog
  /\ db[f].status = "planned" /\ ~db[f].deleted
  /\ app' = [app EXCEPT !.cancelling = f]
  /\ UNCHANGED <<db, tc, pending, telemetry, spent>>

dismissCancel ==
  /\ app.cancelling # NoFlight
  /\ app' = [app EXCEPT !.cancelling = NoFlight]
  /\ UNCHANGED <<db, tc, pending, telemetry, spent>>

flightCancel ==
  /\ app.cancelling # NoFlight
  /\ \/ /\ Refusing({}) /\ db' = Deleted(db, app.cancelling) /\ UNCHANGED tc
        /\ app' = [app EXCEPT !.cancelling = NoFlight, !.armed = NoFlight]
     \/ Refused("delete") /\ app' = [app EXCEPT !.cancelling = NoFlight]
  /\ UNCHANGED <<pending, telemetry>>

\* "Delete" in the Logbook, which stops the flight first when it is the tracked one.
flightDelete(f) ==
  /\ NoDialog
  /\ db[f].status \in {"active", "completed"} /\ ~db[f].deleted
  /\ \/ /\ Refusing({}) /\ db' = Deleted(db, f)
        /\ tc' = IF Tracked(f) THEN [tc EXCEPT !.recorder = NoFlight] ELSE tc
     \/ Refused("delete")
  /\ UNCHANGED <<pending, app, telemetry>>

trackingResumeOrphaned ==
  /\ app.orphaned # NoFlight
  /\ resume(app.orphaned)
  /\ app' = [app EXCEPT !.orphaned = NoFlight]
  /\ UNCHANGED <<db, pending, telemetry, spent>>

trackingDiscardOrphaned ==
  /\ app.orphaned # NoFlight
  /\ \/ /\ Refusing({}) /\ db' = Deleted(db, app.orphaned) /\ UNCHANGED tc
        /\ app' = [app EXCEPT !.orphaned = NoFlight]
     \/ Refused("delete") /\ UNCHANGED app
  /\ UNCHANGED <<pending, telemetry>>

\* The prompt closed without an answer (Escape).
closeOrphanedPrompt ==
  /\ app.orphaned # NoFlight
  /\ app' = [app EXCEPT !.orphaned = NoFlight]
  /\ UNCHANGED <<db, tc, pending, telemetry, spent>>

\* The watch fires on a settled aircraft and is over; with the setting off, or when start()
\* throws, nothing else happens.
autoStart ==
  /\ app.armed # NoFlight
  /\ telemetry # NoSample
  /\ telemetry.onGround /\ telemetry.gs = 0
  /\ \/ \E refused \in {{}, {"start"}} : start(app.armed, refused)
     \/ UNCHANGED <<db, tc, pending, telemetry, spent>>
  /\ app' = [app EXCEPT !.armed = NoFlight]

\* The process ends, by choice or not, and starts again: only the database survives.
restart ==
  /\ spent.restarts < MaxRestarts
  /\ spent' = [spent EXCEPT !.restarts = @ + 1]
  /\ \E f \in Flights \cup {NoFlight} :
       /\ IF f = NoFlight THEN \A g \in Flights : ~inProgress(g) ELSE inProgress(f)
       /\ app' = [armed |-> NoFlight, orphaned |-> f, cancelling |-> NoFlight]
  /\ tc' = NewController
  /\ pending' = {}
  /\ telemetry' = NoSample
  /\ UNCHANGED db

Next ==
  \/ \E t \in Samples : sample(t)
  \/ \E isPaused \in BOOLEAN : paused(isPaused)
  \/ \E p \in pending : upgradeLandingFromSim(p)
  \/ \E f \in Flights : \/ trackingStart(f) \/ trackingStartFree(f) \/ flightCreate(f)
                        \/ askCancel(f) \/ flightDelete(f)
  \/ trackingStop \/ trackingFinish \/ trackingSetDestination
  \/ dismissCancel \/ flightCancel
  \/ trackingResumeOrphaned \/ trackingDiscardOrphaned \/ closeOrphanedPrompt
  \/ autoStart \/ restart

Spec == Init /\ [][Next]_vars

\* The sim keeps sending samples; nobody need ever press a button.
FairSpec == Spec /\ WF_vars(\E t \in Samples : ingest(t, {}))

-----------------------------------------------------------------------------
(* Safety that survives refused writes and restarts.                       *)

\* The life of a flight: every call and sample of the controller moves the rows the way
\* FlightLifecycle allows, so nothing revives a flight that is gone or completes one twice:
\* whatever write is refused, but for the new row of flightCreate: there the watch stays armed
\* for the plan that abandonAllPlanned() has just let go, and the code flies it.
stageOf(f) == CASE db[f].deleted \/ db[f].status = "abandoned" -> "gone"
                [] OTHER -> db[f].status
Lifecycle == INSTANCE FlightLifecycle WITH stage <- [f \in Flights |-> stageOf(f)]
LifecycleSpec == Lifecycle!Spec

-----------------------------------------------------------------------------
(* Safety until a write is refused.                                        *)

NothingRefused == spent.refusals = 0

\* Every touchdown of every flight has its own landing row, under the seq it happened in:
\* neither a resume in mid-circuit nor a late answer skips, repeats or replaces one.
EveryTouchdownHasItsLanding ==
  NothingRefused => \A f \in Flights : ~db[f].deleted =>
    db[f].landings = [n \in Seqs |-> IF n <= db[f].touched THEN n ELSE 0]

\* A free flight's arrival follows its latest touchdown: a late answer from the sim "never
\* overwrites a later landing's arrival" (upgradeLandingFromSim), nor a completion's; only
\* the pilot takes it back.
ArrivalNeverGoesBack ==
  [][NothingRefused' => \A f \in Flights :
       db'[f].arr < db[f].arr => db'[f].arr = 0 /\ Tracked(f)]_vars

\* The flight being recorded is the active one, whichever of the windows, the auto-start
\* watch or a restart got there first: no call starts, retires or completes it behind the
\* controller's back (the Cancel dialog deletes it and leaves it active).
TrackedIsActive == NothingRefused /\ tc.recorder # NoFlight => db[tc.recorder].status = "active"

\* A climb is a liftoff the row knows of, also after a restart in the middle of it, so the
\* air time can be worked out.
ClimbIsRecorded ==
  NothingRefused /\ tc.recorder # NoFlight /\ tc.state.phase = "climb" => db[tc.recorder].off

-----------------------------------------------------------------------------
(* Liveness.                                                               *)

\* An arrival that reached 'shutdown' is completed as long as samples come, even when the
\* database refused to write it at first.
ShutdownCompletes ==
  \A f \in Flights :
    (Tracked(f) /\ tc.state.phase = "shutdown")
      ~> (~Tracked(f) \/ db[f].status = "completed" \/ tc.state.phase # "shutdown")
=============================================================================
