------------------------------ MODULE TaxiRoute ------------------------------
(***************************************************************************)
(* The taxi line: TaxiRouteService of src/main/taxi/TaxiRouteService.ts,   *)
(* which traces ATC's clearance and follows the line, and the worker       *)
(* thread that does its searches (worker-trace-runner.ts, trace-worker.ts).*)
(*                                                                         *)
(* One action is one handler of the main process.  An answer counts only   *)
(* for the latest trace asked for (traceSeq): instead of numbers, a job    *)
(* the worker holds says whether it is still wanted.  Geometry is left     *)
(* out: a route is the clearance, airport and network it was traced with   *)
(* and whether the stand was known; whether the aircraft has left the line *)
(* or reached its end is anyone's choice.  A network is a version number,  *)
(* 0 for none, with so many segments.  The app's end is the end of the     *)
(* process.                                                                *)
(***************************************************************************)
EXTENDS Naturals, Sequences, SequencesExt, FiniteSets

CONSTANTS Flights, Airports, Dep, Arr,
          Clearances,      \* the taxi boxes ATC may show
          ForHolding,      \* those to a holding point
          ForStand,        \* those to a stand; the rest hold short of a runway
          NoWay,           \* those no line can be found for
          MaxFailures,     \* MAX_FAILURES
          KeptNetworks,    \* KEPT_NETWORKS
          MaxNetwork,      \* bound on the versions of a network
          LengthOf,        \* the segments each version has; only version 0 has none
          MaxEvents,       \* bound on what happens to flights, clearances and networks
          MaxTroubles,     \* bound on what befalls the worker
          None

ASSUME TaxiAssumption ==
  /\ Dep \in [Flights -> Airports] /\ Arr \in [Flights -> Airports]
  /\ ForHolding \subseteq Clearances /\ ForStand \subseteq Clearances \ ForHolding
  /\ MaxFailures \in Nat \ {0} /\ KeptNetworks \in Nat \ {0}
  /\ LengthOf \in [0..MaxNetwork -> Nat]
  /\ \A n \in 0..MaxNetwork : LengthOf[n] = 0 <=> n = 0
  /\ MaxNetwork \in Nat \ {0} /\ MaxEvents \in Nat /\ MaxTroubles \in Nat
  /\ None \notin Flights \cup Airports \cup Clearances

VARIABLES shownFlight,  \* the flight tracked, else the newest one planned
          phase,        \* of the flight tracked: on the ground, departed, or none is tracked
          cache,        \* each airport's taxi network in the database
          svc,          \* the fields of the service, and what it has published
          worker,       \* the worker thread, its failures and the networks it has been sent
          pending,      \* the jobs the worker holds, in its order
          events, troubles

world == <<shownFlight, phase, cache>>
vars == <<world, svc, worker, pending, events, troubles>>

Networks == 0..MaxNetwork
Routes == [clearance : Clearances, icao : Airports, network : Networks, stand : BOOLEAN]
Lines == [route : Routes, rerouted : BOOLEAN]

Services ==
  [boxes : Clearances \cup {None}, clearance : [of : Clearances, from : BOOLEAN] \cup {None},
   flightId : Flights \cup {None}, icao : Airports \cup {None}, segments : Networks,
   tracker : [line : Lines, done : BOOLEAN] \cup {None}, located : BOOLEAN, departed : BOOLEAN,
   networks : [Airports -> Networks], stands : SUBSET Airports, standsAsked : SUBSET Airports,
   rerouteOut : BOOLEAN,
   published : [flightId : Flights \cup {None}, icao : Airports \cup {None},
                clearance : Clearances, line : Lines \cup {None}] \cup {None}]
Jobs == [kind : {"trace", "rejoin"}, route : Routes, network : BOOLEAN, wanted : BOOLEAN]

TypeOK ==
  /\ shownFlight \in Flights \cup {None} /\ phase \in {"none", "ground", "departed"}
  /\ phase # "none" => shownFlight # None
  /\ cache \in [Airports -> Networks]
  /\ svc \in Services
  /\ worker \in [at : {"none", "starting", "ready"}, failures : 0..MaxFailures,
                 sent : SUBSET (Airports \X Networks), kept : Seq(Airports \X Networks)]
  /\ Len(worker.kept) <= KeptNetworks
  /\ pending \in Seq(Jobs)
  /\ events \in 0..MaxEvents /\ troubles \in 0..MaxTroubles

-----------------------------------------------------------------------------
(* What a handler does to the service's fields.                            *)

\* publish(): what is left of the line, under a clearance that still counts.
publish(s, line) ==
  [s EXCEPT !.published =
     IF s.clearance = None \/ s.departed THEN None
     ELSE [flightId |-> s.flightId, icao |-> s.icao, clearance |-> s.clearance.of,
           line |-> line]]

reset(s) ==
  publish([s EXCEPT !.tracker = None, !.segments = 0, !.icao = None, !.rerouteOut = FALSE], None)

\* network(): kept once read, unless it was empty.
Read(s, a, db) == [s EXCEPT !.networks[a] = IF @ = 0 THEN db[a] ELSE @]

\* clearanceAirport(): a crossing is at whichever known network is nearest the aircraft.
clearanceAirport(c, s) ==
  IF c.of \in ForHolding THEN {Dep[shownFlight]}
  ELSE LET near == {a \in {Dep[shownFlight], Arr[shownFlight]} : s.networks[a] # 0}
       IN  IF c.of \in ForStand \/ ~c.from \/ near = {} THEN {Arr[shownFlight]} ELSE near

\* startTracker() and the first step of follow().
Tracked(s, route, done) ==
  IF route.clearance \in NoWay THEN publish(s, None)
  ELSE LET line == [route |-> route, rerouted |-> FALSE]
       IN  publish([s EXCEPT !.tracker = [line |-> line, done |-> done]], line)

\* Mutant: an answer is taken whatever was asked since.
TakesAnswer_Any(job) == TRUE

\* seq === this.traceSeq
TakesAnswer(job) == job.wanted

\* finishTrace() or finishReroute(), from the worker or traced by this thread after all.
Answered(s, job, done, found) ==
  IF ~TakesAnswer(job) THEN s
  ELSE IF job.kind = "trace" THEN Tracked(s, job.route, done)
  ELSE LET back == [s EXCEPT !.rerouteOut = FALSE]
       IN  IF ~found \/ s.tracker = None \/ s.tracker.done THEN back
           ELSE publish([back EXCEPT !.tracker.line.rerouted = TRUE],
                        [s.tracker.line EXCEPT !.rerouted = TRUE])

-----------------------------------------------------------------------------
(* The worker.                                                             *)

NoWorker == [at |-> "none", failures |-> 0, sent |-> {}, kept |-> <<>>]
KeyOf(job) == <<job.route.icao, job.route.network>>

\* submit(): posted to the worker, started if need be, with its network if it has not had it.
Posted(job, jobs) ==
  /\ worker.failures < MaxFailures
  /\ LET sent == IF worker.at = "none" THEN {} ELSE worker.sent
     IN  /\ pending' = Append(jobs, [job EXCEPT !.network = KeyOf(job) \notin sent])
         /\ worker' = [worker EXCEPT !.sent = sent \cup {KeyOf(job)},
                                     !.at = IF @ = "none" THEN "starting" ELSE @]

\* Refused: this thread searches, before anything else is handled.
Refused(jobs) ==
  /\ worker.failures >= MaxFailures
  /\ UNCHANGED worker /\ pending' = jobs

\* The worker cannot be made: counted as a death.
StartFails(jobs) ==
  /\ worker.at = "none" /\ worker.failures < MaxFailures
  /\ worker' = [worker EXCEPT !.failures = @ + 1] /\ pending' = jobs

\* A job as the service asks for it, and what comes of it.
Submit(s, job, jobs) ==
  \/ Posted(job, jobs) /\ svc' = s
  \/ (Refused(jobs) \/ StartFails(jobs)) /\ \E done, found \in BOOLEAN : svc' = Answered(s, job, done, found)

\* Mutant: an earlier answer still counts.
Unwanted_Kept == pending

\* Every answer that is out is for an earlier state now (traceSeq += 1).
Unwanted == [i \in DOMAIN pending |-> [pending[i] EXCEPT !.wanted = FALSE]]

NoJob(s) == svc' = s /\ pending' = Unwanted /\ UNCHANGED worker

\* retrace(): a job for the clearance held, when there is all it takes; nothing is drawn
\* until it is answered.
retrace(s, db) ==
  LET clear == reset(s)
      read == Read(Read(clear, Dep[shownFlight], db), Arr[shownFlight], db)
  IN  IF s.clearance = None \/ shownFlight = None THEN NoJob(clear)
      ELSE \E a \in clearanceAirport(s.clearance, read) :
             LET n == read.networks[a]
                 at == publish([read EXCEPT !.icao = a, !.segments = n], None)
                 asked == IF a \in at.stands THEN at ELSE [at EXCEPT !.standsAsked = @ \cup {a}]
             IN  IF ~s.clearance.from \/ n = 0 THEN NoJob(at)
                 ELSE Submit(asked,
                             [kind |-> "trace", network |-> FALSE, wanted |-> TRUE,
                              route |-> [clearance |-> s.clearance.of, icao |-> a, network |-> n,
                                         stand |-> a \in at.stands]],
                             Unwanted)

-----------------------------------------------------------------------------
(* The handlers.                                                           *)

Init ==
  /\ shownFlight \in Flights \cup {None}
  /\ phase \in IF shownFlight = None THEN {"none"} ELSE {"none", "ground"}
  /\ \E a \in Airports : cache = [b \in Airports |-> IF b = a THEN 1 ELSE 0]
  /\ \E l \in BOOLEAN :
       svc = [boxes |-> None, clearance |-> None, flightId |-> None, icao |-> None,
              segments |-> 0, tracker |-> None, located |-> l, departed |-> FALSE,
              networks |-> [a \in Airports |-> 0], stands |-> {}, standsAsked |-> {},
              rerouteOut |-> FALSE, published |-> None]
  /\ worker = [NoWorker EXCEPT !.at = "starting"] /\ pending = <<>>   \* warm()
  /\ events = 0 /\ troubles = 0

\* New taxi boxes: the clearance they hold is taken once.
onState(c) ==
  /\ c # svc.boxes
  /\ retrace([svc EXCEPT !.boxes = c, !.clearance = [of |-> c, from |-> svc.located],
                         !.flightId = shownFlight], cache)
  /\ UNCHANGED world

\* Another flight's clearance is dropped, and at the takeoff roll the departure's.
Dropped(s) ==
  LET departed == phase = "departed"
      other == s.clearance # None /\ phase # "none" /\ s.flightId \notin {None, shownFlight}
      gone == other \/ (departed /\ ~s.departed)
      s1 == [s EXCEPT !.departed = departed]
  IN  IF gone THEN reset([s1 EXCEPT !.clearance = None]) ELSE s1

follow(s, jobs) ==
  IF s.clearance = None THEN svc' = s /\ pending' = jobs /\ UNCHANGED worker
  ELSE IF s.tracker = None
    THEN svc' = publish(s, None) /\ pending' = jobs /\ UNCHANGED worker
  ELSE \E done \in {s.tracker.done, TRUE} :
         LET step == publish([s EXCEPT !.tracker.done = done], s.tracker.line)
         IN  \/ svc' = step /\ pending' = jobs /\ UNCHANGED worker
             \/ /\ phase = "ground" /\ ~done /\ ~s.rerouteOut
                /\ Submit([step EXCEPT !.rerouteOut = TRUE],
                          [kind |-> "rejoin", network |-> FALSE, wanted |-> TRUE,
                           route |-> s.tracker.line.route],
                          jobs)

onTelemetry ==
  /\ LET s == [Dropped(svc) EXCEPT !.located = TRUE]
     IN  IF s.clearance # None /\ ~s.clearance.from
           THEN retrace([s EXCEPT !.clearance.from = TRUE], cache)
           ELSE follow(s, IF s.clearance = None /\ svc.clearance # None THEN Unwanted ELSE pending)
  /\ UNCHANGED world

\* before && network(icao).length === before.length
SameNetwork(before, now) == before # 0 /\ LengthOf[now] = LengthOf[before]

onRefreshed(a, db) ==
  LET s == [svc EXCEPT !.networks[a] = 0]
      read == IF svc.networks[a] = 0 THEN s ELSE Read(s, a, db)
      same == /\ SameNetwork(svc.networks[a], db[a])
              /\ (svc.clearance.of \in ForStand => a \in svc.stands)
      skip == svc.clearance = None \/ svc.icao \notin {None, a}
  IN  IF skip THEN svc' = s /\ UNCHANGED <<worker, pending>>
      ELSE IF same THEN svc' = read /\ UNCHANGED <<worker, pending>>
      ELSE retrace(read, db)

\* The taxi network changed in the sim, or only the runways were fetched again.
refreshed(a) ==
  /\ \E n \in {cache[a], cache[a] + 1} \cap Networks :
       /\ cache' = [cache EXCEPT ![a] = n]
       /\ onRefreshed(a, cache')
  /\ UNCHANGED <<shownFlight, phase>>

standsArrive(a) ==
  /\ a \in svc.standsAsked
  /\ LET s == [svc EXCEPT !.standsAsked = @ \ {a}, !.stands = @ \cup {a}]
     IN  IF s.clearance # None /\ s.clearance.of \in ForStand /\ s.icao = a
           THEN retrace(s, cache)
           ELSE svc' = s /\ UNCHANGED <<worker, pending>>
  /\ UNCHANGED world

standsFail(a) ==
  /\ a \in svc.standsAsked
  /\ svc' = [svc EXCEPT !.standsAsked = @ \ {a}]
  /\ UNCHANGED <<world, worker, pending>>

\* Flights are planned, tracked, take off, land and end; the service hears of it by telemetry.
flightChanges ==
  /\ \/ /\ phase = "none"
        /\ shownFlight' \in Flights \cup {None}
        /\ phase' \in IF shownFlight' = None THEN {"none"} ELSE {"none", "ground"}
     \/ phase = "ground" /\ phase' = "departed" /\ UNCHANGED shownFlight
     \/ phase = "departed" /\ phase' = "ground" /\ UNCHANGED shownFlight
     \/ phase # "none" /\ phase' = "none" /\ shownFlight' \in Flights \cup {None}
  /\ <<shownFlight, phase>>' # <<shownFlight, phase>>
  /\ UNCHANGED <<cache, svc, worker, pending>>

ready ==
  /\ worker.at = "starting"
  /\ worker' = [worker EXCEPT !.at = "ready", !.failures = 0]
  /\ UNCHANGED <<world, svc, pending>>

\* missingNetwork: the job goes again, with its network.
Resent(jobs) == Append(Tail(jobs), [Head(jobs) EXCEPT !.network = TRUE])

\* Mutant: one network more is kept.
Trimmed_Late(kept) == IF Len(kept) > KeptNetworks + 1 THEN Tail(kept) ELSE kept

Trimmed(kept) == IF Len(kept) > KeptNetworks THEN Tail(kept) ELSE kept

\* networks.set(): last, wherever the Map had the key, which it has at most once.
KeptLast(kept, key) ==
  LET had == {i \in DOMAIN kept : kept[i] = key}
  IN  Append(IF had = {} THEN kept ELSE RemoveAt(kept, CHOOSE i \in had : TRUE), key)

\* The worker takes the first job: it keeps the network that comes with it, and answers.
answer ==
  /\ worker.at = "ready" /\ pending # <<>>
  /\ LET job == Head(pending)
         key == KeyOf(job)
         kept == IF job.network THEN KeptLast(worker.kept, key) ELSE worker.kept
         last == Trimmed(kept)
     IN  /\ worker' = [worker EXCEPT !.kept = last]
         /\ IF key \notin {last[i] : i \in DOMAIN last}
              THEN pending' = Resent(pending) /\ UNCHANGED svc
              ELSE /\ pending' = Tail(pending)
                   /\ \E done, found \in BOOLEAN : svc' = Answered(svc, job, done, found)
  /\ UNCHANGED world

\* Mutant: the jobs a dead worker held wait for ever.
Rejected_None(s, done, found) == s

\* Every job is rejected, and this thread searches what is still wanted of them.
Rejected(s, done, found) ==
  LET after[i \in 0..Len(pending)] ==
        IF i = 0 THEN s ELSE Answered(after[i - 1], pending[i], done, found)
  IN  after[Len(pending)]

\* error or exit: the next job starts another, until too many have died.
onFailure ==
  /\ worker.at # "none"
  /\ worker' = [NoWorker EXCEPT !.failures = worker.failures + 1]
  /\ pending' = <<>>
  /\ \E done, found \in BOOLEAN : svc' = Rejected(svc, done, found)
  /\ UNCHANGED world

-----------------------------------------------------------------------------

Event ==
  \/ \E c \in Clearances : onState(c)
  \/ \E a \in Airports : refreshed(a)
  \/ flightChanges

Next ==
  \/ (onTelemetry \/ ready \/ answer
      \/ \E a \in Airports : standsArrive(a) \/ standsFail(a)) /\ UNCHANGED <<events, troubles>>
  \/ Event /\ events < MaxEvents /\ events' = events + 1 /\ UNCHANGED troubles
  \/ onFailure /\ troubles < MaxTroubles /\ troubles' = troubles + 1 /\ UNCHANGED events

Spec == Init /\ [][Next]_vars

\* A worker starts or dies and answers what it is sent; the sim keeps sending samples.
Fairness ==
  /\ WF_vars((ready \/ answer) /\ UNCHANGED <<events, troubles>>)
  /\ WF_vars(onTelemetry /\ UNCHANGED <<events, troubles>>)

FairSpec == Spec /\ Fairness

-----------------------------------------------------------------------------

\* Of all the answers that may be out, at most one is still wanted: a trace and a re-route,
\* or two re-routes, never race to set the line.  (traceSeq, rerouteOut)
AtMostOneAwaited ==
  Cardinality({i \in DOMAIN pending : pending[i].wanted}) <= 1

Drawn == svc.published # None /\ svc.published.line # None

\* A line that is drawn is the line of the clearance and airport it is drawn for, and was
\* traced with the stands known now and a taxi network of as many segments as the one known
\* now, whichever traces and re-routes were answered late, resent or done by this thread.
\* (finish, onRefreshed, standsOf)
LineIsOfItsClearance ==
  Drawn =>
    LET route == svc.published.line.route
    IN  /\ svc.clearance # None /\ route.clearance = svc.clearance.of
        /\ route.clearance = svc.published.clearance /\ route.icao = svc.published.icao
        /\ LengthOf[route.network] = LengthOf[cache[route.icao]]
        /\ route.clearance \in ForStand => route.stand = (route.icao \in svc.stands)

\* A clearance that has a line to trace gets it drawn, unless it is dropped or replaced, also
\* when the worker forgets networks, dies or is given up.  (traceWithFallback)
Traceable ==
  /\ svc.clearance # None /\ svc.icao # None /\ ~svc.departed
  /\ svc.clearance.from /\ svc.segments # 0 /\ svc.clearance.of \notin NoWay
LineIsDrawn == []<>(Traceable => Drawn)
=============================================================================
