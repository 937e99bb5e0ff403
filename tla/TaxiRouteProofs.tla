--------------------------- MODULE TaxiRouteProofs ----------------------------
(***************************************************************************)
(* That the service's types hold, that at most one answer of the worker is *)
(* still wanted, and that a line drawn is the line of its clearance: for   *)
(* any flights, airports, clearances and networks, however the worker      *)
(* starts, forgets, dies and is given up.                                  *)
(***************************************************************************)
EXTENDS TaxiRoute, TLAPS, FiniteSetTheorems, SequenceTheorems, WellFoundedInduction

\* The route of a line, or of a trace asked for, is for the clearance and airport the service
\* holds, with the stands known now and a network as long as the one known now.
RouteHolds(s, db, route) ==
  /\ s.clearance # None /\ route.clearance = s.clearance.of /\ route.icao = s.icao
  /\ LengthOf[route.network] = LengthOf[db[route.icao]]
  /\ route.clearance \in ForStand => (route.stand <=> route.icao \in s.stands)

TrackerHolds(s, db) == s.tracker # None => RouteHolds(s, db, s.tracker.line.route)

\* And so is the route of what is drawn, which says the same of itself.
ShownHolds(s, db) ==
  s.published # None /\ s.published.line # None =>
    /\ RouteHolds(s, db, s.published.line.route)
    /\ s.published.clearance = s.clearance.of /\ s.published.icao = s.icao

\* A network is kept no longer than it is the one in the database.
NetworksAreCurrent(s, db) == \A a \in Airports : s.networks[a] \in {0, db[a]}

\* An answer still wanted: the only one, and nothing has happened since that it does not fit.
Fits(s, db, job) ==
  IF job.kind = "trace" THEN s.tracker = None /\ RouteHolds(s, db, job.route)
  ELSE s.rerouteOut /\ s.clearance # None

WantedFit(s, db, jobs) ==
  \A i \in DOMAIN jobs : jobs[i].wanted => Fits(s, db, jobs[i])

OneWanted(jobs) ==
  \A i, j \in DOMAIN jobs : jobs[i].wanted /\ jobs[j].wanted => i = j

\* The service's fields: typed, and what is tracked, shown and kept is current.
Current(s, db) ==
  s \in Services /\ TrackerHolds(s, db) /\ ShownHolds(s, db) /\ NetworksAreCurrent(s, db)

JobsGood(s, db, jobs) == jobs \in Seq(Jobs) /\ WantedFit(s, db, jobs) /\ OneWanted(jobs)

Workers == [at : {"none", "starting", "ready"}, failures : 0..MaxFailures,
            sent : SUBSET (Airports \X Networks), kept : Seq(Airports \X Networks)]

\* A worker that runs has not been given up.
WorkerGood(w) ==
  w \in Workers /\ Len(w.kept) <= KeptNetworks /\ (w.at # "none" => w.failures < MaxFailures)

\* The service, the jobs and the worker with the database db.
AllGood(s, db, jobs, w) == Current(s, db) /\ JobsGood(s, db, jobs) /\ WorkerGood(w)

\* The inductive invariant.
TInv == TypeOK /\ AllGood(svc, cache, pending, worker)

-----------------------------------------------------------------------------
(* What a handler does to the service's fields.                            *)

\* Everything but what is published.
SameBeneath(t, s) ==
  /\ t.boxes = s.boxes /\ t.clearance = s.clearance /\ t.flightId = s.flightId
  /\ t.icao = s.icao /\ t.segments = s.segments /\ t.tracker = s.tracker
  /\ t.located = s.located /\ t.departed = s.departed /\ t.networks = s.networks
  /\ t.stands = s.stands /\ t.standsAsked = s.standsAsked /\ t.rerouteOut = s.rerouteOut

LEMMA PublishFacts ==
  ASSUME NEW s \in Services, NEW line \in Lines \cup {None}
  PROVE  /\ publish(s, line) \in Services /\ SameBeneath(publish(s, line), s)
         /\ publish(s, line).published # None =>
              /\ publish(s, line).published.line = line
              /\ publish(s, line).published.clearance = s.clearance.of
              /\ publish(s, line).published.icao = s.icao
<1> DEFINE what == IF s.clearance = None \/ s.departed THEN None
                   ELSE [flightId |-> s.flightId, icao |-> s.icao,
                         clearance |-> s.clearance.of, line |-> line]
<1>1. what \in [flightId : Flights \cup {None}, icao : Airports \cup {None},
                clearance : Clearances, line : Lines \cup {None}] \cup {None}
  BY DEF Services
<1>2. what # None => what.line = line /\ what.clearance = s.clearance.of /\ what.icao = s.icao
  OBVIOUS
<1>3. publish(s, line) = [s EXCEPT !.published = what]
  BY DEF publish
<1> HIDE DEF what
<1>4. publish(s, line) \in Services /\ publish(s, line).published = what
  BY <1>1, <1>3 DEF Services
<1>5. SameBeneath(publish(s, line), s)
  BY <1>3 DEF Services, SameBeneath
<1> QED
  BY <1>2, <1>4, <1>5

LEMMA PublishCurrent ==
  ASSUME NEW s \in Services, NEW db, NEW line \in Lines \cup {None},
         TrackerHolds(s, db), NetworksAreCurrent(s, db),
         line # None => RouteHolds(s, db, line.route)
  PROVE  Current(publish(s, line), db)
<1> DEFINE p == publish(s, line)
<1>1. /\ p \in Services /\ SameBeneath(p, s)
      /\ p.published # None => /\ p.published.line = line
                               /\ p.published.clearance = s.clearance.of
                               /\ p.published.icao = s.icao
  BY PublishFacts
<1> HIDE DEF p
<1>2. TrackerHolds(p, db) /\ NetworksAreCurrent(p, db)
  BY <1>1 DEF TrackerHolds, RouteHolds, NetworksAreCurrent, SameBeneath
<1>3. ShownHolds(p, db)
  BY <1>1 DEF ShownHolds, RouteHolds, SameBeneath
<1>4. Current(p, db)
  BY <1>1, <1>2, <1>3 DEF Current
<1> QED
  BY <1>4 DEF p

\* What is current stays so when only other fields change.
LEMMA CurrentAsBefore ==
  ASSUME NEW s, NEW t \in Services, NEW db, Current(s, db),
         t.tracker = s.tracker, t.clearance = s.clearance, t.icao = s.icao,
         t.stands = s.stands, t.networks = s.networks, t.published = s.published
  PROVE  Current(t, db)
<1>1. \A route : RouteHolds(s, db, route) => RouteHolds(t, db, route)
  BY DEF RouteHolds
<1>2. TrackerHolds(t, db)
  BY <1>1 DEF Current, TrackerHolds
<1>3. ShownHolds(t, db)
  BY <1>1 DEF Current, ShownHolds
<1>4. NetworksAreCurrent(t, db)
  BY DEF Current, NetworksAreCurrent
<1> QED
  BY <1>2, <1>3, <1>4 DEF Current

LEMMA OneRerouteOut ==
  ASSUME NEW s \in Services
  PROVE  LET out == [s EXCEPT !.rerouteOut = TRUE]
         IN  /\ out \in Services /\ out.tracker = s.tracker /\ out.clearance = s.clearance
             /\ out.icao = s.icao /\ out.stands = s.stands /\ out.networks = s.networks
             /\ out.published = s.published /\ out.rerouteOut
BY ZenonT(60) DEF Services

LEMMA NoRerouteOut ==
  ASSUME NEW s \in Services
  PROVE  LET back == [s EXCEPT !.rerouteOut = FALSE]
         IN  /\ back \in Services /\ back.tracker = s.tracker /\ back.clearance = s.clearance
             /\ back.icao = s.icao /\ back.stands = s.stands /\ back.networks = s.networks
             /\ back.published = s.published
BY ZenonT(60) DEF Services

LEMMA ResetFacts ==
  ASSUME NEW s \in Services
  PROVE  /\ reset(s) \in Services
         /\ reset(s).tracker = None /\ reset(s).icao = None /\ ~reset(s).rerouteOut
         /\ reset(s).clearance = s.clearance /\ reset(s).networks = s.networks
         /\ reset(s).stands = s.stands /\ reset(s).standsAsked = s.standsAsked
         /\ reset(s).boxes = s.boxes /\ reset(s).flightId = s.flightId
         /\ reset(s).departed = s.departed /\ reset(s).located = s.located
         /\ reset(s).published # None => reset(s).published.line = None
<1> DEFINE bare == [s EXCEPT !.tracker = None, !.segments = 0, !.icao = None, !.rerouteOut = FALSE]
<1>1. bare \in Services
  <2> DEFINE b1 == [s EXCEPT !.tracker = None]
             b2 == [b1 EXCEPT !.segments = 0]
             b3 == [b2 EXCEPT !.icao = None]
  <2>1. 0 \in Networks
    BY TaxiAssumption DEF Networks
  <2>2. b1 \in Services
    BY DEF Services
  <2>3. bare = [b3 EXCEPT !.rerouteOut = FALSE]
    OBVIOUS
  <2> HIDE DEF b1
  <2>4. b2 \in Services
    BY <2>1, <2>2 DEF Services
  <2> HIDE DEF b2
  <2>5. b3 \in Services
    BY <2>4 DEF Services
  <2> HIDE DEF b3
  <2>6. [b3 EXCEPT !.rerouteOut = FALSE] \in Services
    BY <2>5, NoRerouteOut
  <2> QED
    BY <2>3, <2>6
<1>2. /\ bare.tracker = None /\ bare.icao = None /\ bare.rerouteOut = FALSE
      /\ bare.clearance = s.clearance /\ bare.networks = s.networks
      /\ bare.stands = s.stands /\ bare.standsAsked = s.standsAsked
      /\ bare.boxes = s.boxes /\ bare.flightId = s.flightId
      /\ bare.departed = s.departed /\ bare.located = s.located
  BY DEF Services
<1>3. reset(s) = publish(bare, None)
  BY DEF reset
<1> HIDE DEF bare
<1>4. publish(bare, None) \in Services /\ SameBeneath(publish(bare, None), bare)
  BY <1>1, PublishFacts
<1>5. publish(bare, None).published # None => publish(bare, None).published.line = None
  BY <1>1, PublishFacts
<1> QED
  BY <1>2, <1>3, <1>4, <1>5 DEF SameBeneath

LEMMA ReadFacts ==
  ASSUME NEW s \in Services, NEW a \in Airports, NEW db \in [Airports -> Networks],
         NetworksAreCurrent(s, db)
  PROVE  /\ Read(s, a, db) \in Services /\ NetworksAreCurrent(Read(s, a, db), db)
         /\ Read(s, a, db) = [s EXCEPT !.networks = Read(s, a, db).networks]
         /\ Read(s, a, db).networks[a] = db[a]
<1> DEFINE now == [s.networks EXCEPT ![a] = IF @ = 0 THEN db[a] ELSE @]
<1>1. s.networks \in [Airports -> Networks]
  BY DEF Services
<1>2. now \in [Airports -> Networks] /\ \A b \in Airports : now[b] \in {0, db[b]}
  BY <1>1 DEF NetworksAreCurrent
<1>3. now[a] = db[a]
  BY <1>1 DEF NetworksAreCurrent
<1>4. Read(s, a, db) = [s EXCEPT !.networks = now]
  BY DEF Read, Services
<1> HIDE DEF now
<1>5. [s EXCEPT !.networks = now] \in Services /\ [s EXCEPT !.networks = now].networks = now
  BY <1>2 DEF Services
<1> QED
  BY <1>2, <1>3, <1>4, <1>5 DEF NetworksAreCurrent

\* Nothing is tracked or drawn once the fields are reset.
LEMMA ResetCurrent ==
  ASSUME NEW s \in Services, NEW db, NetworksAreCurrent(s, db)
  PROVE  Current(reset(s), db)
BY ResetFacts DEF Current, TrackerHolds, ShownHolds, NetworksAreCurrent

LEMMA ReadBothFacts ==
  ASSUME NEW s \in Services, NEW a \in Airports, NEW b \in Airports,
         NEW db \in [Airports -> Networks], NetworksAreCurrent(s, db)
  PROVE  LET read == Read(Read(s, a, db), b, db)
         IN  /\ read \in Services /\ NetworksAreCurrent(read, db)
             /\ read = [s EXCEPT !.networks = read.networks]
<1> DEFINE first == Read(s, a, db)
           second == Read(first, b, db)
<1>1. /\ first \in Services /\ NetworksAreCurrent(first, db)
      /\ first = [s EXCEPT !.networks = first.networks]
  BY ReadFacts
<1> HIDE DEF first
<1>2. /\ second \in Services /\ NetworksAreCurrent(second, db)
      /\ second = [first EXCEPT !.networks = second.networks]
  BY <1>1, ReadFacts
<1> HIDE DEF second
<1>3. second = [s EXCEPT !.networks = second.networks]
  BY <1>1, <1>2 DEF Services
<1> QED
  BY <1>2, <1>3 DEF first, second

LEMMA TrackedCurrent ==
  ASSUME NEW s \in Services, NEW db, NEW route \in Routes, NEW done \in BOOLEAN,
         Current(s, db), s.tracker = None, RouteHolds(s, db, route)
  PROVE  Current(Tracked(s, route, done), db)
<1>1. CASE route.clearance \in NoWay
  <2>1. Tracked(s, route, done) = publish(s, None)
    BY <1>1 DEF Tracked
  <2> QED
    BY <2>1, PublishCurrent DEF Current
<1>2. CASE route.clearance \notin NoWay
  <2> DEFINE line == [route |-> route, rerouted |-> FALSE]
             track == [line |-> line, done |-> done]
             on == [s EXCEPT !.tracker = track]
  <2>1. line \in Lines /\ line.route = route
    BY DEF Lines
  <2>2. Tracked(s, route, done) = publish(on, line)
    BY <1>2 DEF Tracked
  <2> HIDE DEF line
  <2>3. track \in [line : Lines, done : BOOLEAN] /\ track.line = line
    BY <2>1
  <2> HIDE DEF track
  <2>4. on \in Services
    BY <2>3 DEF Services
  <2>5. /\ on.tracker = track /\ on.clearance = s.clearance /\ on.icao = s.icao
        /\ on.stands = s.stands /\ on.networks = s.networks
    BY DEF Services
  <2> HIDE DEF on
  <2>6. NetworksAreCurrent(on, db) /\ RouteHolds(on, db, route)
    BY <2>5 DEF Current, NetworksAreCurrent, RouteHolds
  <2>7. TrackerHolds(on, db)
    BY <2>1, <2>3, <2>5, <2>6 DEF TrackerHolds
  <2> QED
    BY <2>1, <2>2, <2>4, <2>6, <2>7, PublishCurrent
<1> QED
  BY <1>1, <1>2

LEMMA ReroutedCurrent ==
  ASSUME NEW s \in Services, NEW db, Current(s, db), s.tracker # None
  PROVE  LET back == [s EXCEPT !.rerouteOut = FALSE]
         IN  Current(publish([back EXCEPT !.tracker.line.rerouted = TRUE],
                             [s.tracker.line EXCEPT !.rerouted = TRUE]), db)
<1> DEFINE line == [s.tracker.line EXCEPT !.rerouted = TRUE]
           track == [s.tracker EXCEPT !.line = line]
           back == [s EXCEPT !.rerouteOut = FALSE]
           on == [back EXCEPT !.tracker.line.rerouted = TRUE]
<1>1. s.tracker \in [line : Lines, done : BOOLEAN]
  BY DEF Services
<1>2. line \in Lines /\ line.route = s.tracker.line.route
  BY <1>1 DEF Lines
<1>3. track \in [line : Lines, done : BOOLEAN] /\ track.line = line
  <2> HIDE DEF line
  <2> QED
    BY <1>1, <1>2
<1>4. on = [s EXCEPT !.tracker = track, !.rerouteOut = FALSE]
  BY <1>1 DEF Services, Lines
<1> HIDE DEF on, track, line
<1>5. on \in Services
  BY <1>3, <1>4 DEF Services
<1>6. /\ on.tracker = track /\ on.clearance = s.clearance /\ on.icao = s.icao
      /\ on.stands = s.stands /\ on.networks = s.networks
  BY <1>4 DEF Services
<1>7. NetworksAreCurrent(on, db) /\ RouteHolds(on, db, line.route)
  BY <1>2, <1>6 DEF Current, NetworksAreCurrent, RouteHolds, TrackerHolds
<1>8. TrackerHolds(on, db)
  BY <1>2, <1>3, <1>6, <1>7 DEF TrackerHolds
<1>9. Current(publish(on, line), db)
  BY <1>2, <1>5, <1>7, <1>8, PublishCurrent
<1> QED
  BY <1>9 DEF on, line

LEMMA AnsweredCurrent ==
  ASSUME NEW s \in Services, NEW db, NEW job \in Jobs, NEW done \in BOOLEAN, NEW found \in BOOLEAN,
         Current(s, db), job.wanted => Fits(s, db, job)
  PROVE  Current(Answered(s, job, done, found), db)
<1>1. CASE ~job.wanted
  BY <1>1 DEF Answered, TakesAnswer
<1>2. CASE job.wanted /\ job.kind = "trace"
  <2>1. s.tracker = None /\ RouteHolds(s, db, job.route) /\ job.route \in Routes
    BY <1>2 DEF Fits, Jobs
  <2>2. Answered(s, job, done, found) = Tracked(s, job.route, done)
    BY <1>2 DEF Answered, TakesAnswer
  <2> QED
    BY <2>1, <2>2, TrackedCurrent
<1>3. CASE job.wanted /\ job.kind # "trace"
  <2> DEFINE back == [s EXCEPT !.rerouteOut = FALSE]
             there == publish([back EXCEPT !.tracker.line.rerouted = TRUE],
                              [s.tracker.line EXCEPT !.rerouted = TRUE])
  <2>1. Answered(s, job, done, found) =
          IF ~found \/ s.tracker = None \/ s.tracker.done THEN back ELSE there
    BY <1>3 DEF Answered, TakesAnswer
  <2>2. Current(back, db)
    <3>1. /\ back \in Services /\ back.tracker = s.tracker /\ back.clearance = s.clearance
          /\ back.icao = s.icao /\ back.stands = s.stands /\ back.networks = s.networks
          /\ back.published = s.published
      BY NoRerouteOut
    <3> HIDE DEF back
    <3> QED
      BY <3>1 DEF Current, TrackerHolds, ShownHolds, RouteHolds, NetworksAreCurrent
  <2>3. s.tracker # None => Current(there, db)
    BY ReroutedCurrent
  <2> HIDE DEF back, there
  <2> QED
    BY <2>1, <2>2, <2>3
<1> QED
  BY <1>1, <1>2, <1>3

-----------------------------------------------------------------------------
(* A dead worker's jobs.                                                   *)

LEMMA Least ==
  ASSUME NEW T, T \subseteq Nat, T # {}
  PROVE  \E x \in T : \A y \in T : x <= y
<1>1. \E x \in T : \A y \in T : ~(<<y, x>> \in OpToRel(<, Nat))
  BY NatLessThanWellFounded, WFMin
<1>2. PICK x \in T : \A y \in T : ~(<<y, x>> \in OpToRel(<, Nat))
  BY <1>1
<1>3. \A y \in T : ~(y < x)
  BY <1>2 DEF OpToRel
<1> QED
  BY <1>3

\* Rejecting the jobs answers one after the other.
LEMMA RejectedSteps ==
  ASSUME NEW s, NEW done, NEW found, pending \in Seq(Jobs)
  PROVE  \E after : /\ after[0] = s
                    /\ \A i \in 1..Len(pending) :
                         after[i] = Answered(after[i - 1], pending[i], done, found)
                    /\ Rejected(s, done, found) = after[Len(pending)]
<1> DEFINE Body(g, n) == [i \in 0..n |-> IF i = 0 THEN s
                                         ELSE Answered(g[i - 1], pending[i], done, found)]
           bad == {n \in Nat : ~\E g : g = Body(g, n)}
           chosen == CHOOSE g : g = Body(g, Len(pending))
<1>1. bad = {}
  <2> SUFFICES ASSUME bad # {} PROVE FALSE
    OBVIOUS
  <2>1. PICK n \in bad : \A m \in bad : n <= m
    BY Least
  <2>2. CASE n = 0
    <3> DEFINE g == [i \in 0..0 |-> s]
    <3>1. g = Body(g, 0)
      OBVIOUS
    <3> QED
      BY <2>1, <2>2, <3>1
  <2>3. CASE n # 0
    <3>1. n - 1 \in Nat /\ n - 1 \notin bad
      <4>1. n \in Nat
        BY <2>1
      <4>2. n - 1 \in Nat /\ ~(n <= n - 1)
        BY <2>3, <4>1
      <4> HIDE DEF bad
      <4> QED
        BY <2>1, <4>2
    <3>2. PICK g : g = Body(g, n - 1)
      BY <3>1
    <3> DEFINE h == [i \in 0..n |-> IF i = n THEN Answered(g[n - 1], pending[n], done, found)
                                    ELSE g[i]]
    <3>3. ASSUME NEW i \in 0..n
          PROVE  h[i] = IF i = 0 THEN s ELSE Answered(h[i - 1], pending[i], done, found)
      <4>1. CASE i = 0
        BY <2>3, <3>1, <3>2, <4>1
      <4>2. CASE i # 0 /\ i # n
        <5>1. i \in 0..(n - 1) /\ i - 1 \in 0..n /\ i - 1 # n /\ i - 1 \in 0..(n - 1)
          BY <4>2, <3>1, <2>1
        <5>2. h[i] = g[i] /\ h[i - 1] = g[i - 1]
          BY <4>2, <5>1
        <5>3. g[i] = Answered(g[i - 1], pending[i], done, found)
          BY <3>2, <4>2, <5>1
        <5> QED
          BY <4>2, <5>2, <5>3
      <4>3. CASE i = n /\ i # 0
        <5>1. n - 1 \in 0..n /\ n - 1 # n
          BY <3>1, <2>1
        <5> QED
          BY <4>3, <5>1
      <4> QED
        BY <4>1, <4>2, <4>3
    <3>4. h = Body(h, n)
      <4> HIDE DEF h
      <4>1. h = [i \in 0..n |-> h[i]]
        BY DEF h
      <4> QED
        BY <3>3, <4>1
    <3> QED
      BY <2>1, <3>4
  <2> QED
    BY <2>2, <2>3
<1>2. Len(pending) \in Nat
  BY LenProperties
<1>3. chosen = Body(chosen, Len(pending))
  BY <1>1, <1>2
<1>4. Rejected(s, done, found) = chosen[Len(pending)]
  BY DEF Rejected
<1> HIDE DEF chosen
<1>5. chosen[0] = s /\ \A i \in 1..Len(pending) :
                         chosen[i] = Answered(chosen[i - 1], pending[i], done, found)
  BY <1>2, <1>3
<1> QED
  BY <1>4, <1>5

\* At most one of them is wanted, and that one fits.
LEMMA RejectedCurrent ==
  ASSUME NEW s \in Services, NEW db, NEW done \in BOOLEAN, NEW found \in BOOLEAN,
         pending \in Seq(Jobs), Current(s, db), WantedFit(s, db, pending), OneWanted(pending)
  PROVE  Current(Rejected(s, done, found), db)
<1>1. PICK after : /\ after[0] = s
                   /\ \A i \in 1..Len(pending) :
                        after[i] = Answered(after[i - 1], pending[i], done, found)
                   /\ Rejected(s, done, found) = after[Len(pending)]
  BY RejectedSteps
<1>2. Len(pending) \in Nat /\ DOMAIN pending = 1..Len(pending)
      /\ \A i \in 1..Len(pending) : pending[i] \in Jobs
  BY LenProperties, ElementOfSeq
<1> DEFINE Ok(n) == /\ Current(after[n], db)
                    /\ (\A i \in 1..n : ~pending[i].wanted) => after[n] = s
           bad == {n \in 0..Len(pending) : ~Ok(n)}
<1>3. bad = {}
  <2> SUFFICES ASSUME bad # {} PROVE FALSE
    OBVIOUS
  <2>0. bad \subseteq Nat
    BY <1>2
  <2>1. PICK n \in bad : \A m \in bad : n <= m
    <3> HIDE DEF bad
    <3> QED
      BY <2>0, Least
  <2>2. n # 0
    BY <1>1, <1>2, <2>1
  <2>3. n \in 1..Len(pending) /\ n - 1 \in 0..Len(pending) /\ n - 1 \notin bad
    BY <1>2, <2>1, <2>2
  <2>4. Ok(n - 1) /\ after[n] = Answered(after[n - 1], pending[n], done, found)
        /\ pending[n] \in Jobs
    BY <1>1, <1>2, <2>3
  <2>5. CASE ~pending[n].wanted
    <3>1. after[n] = after[n - 1]
      BY <2>4, <2>5 DEF Answered, TakesAnswer
    <3>2. (\A i \in 1..n : ~pending[i].wanted) => \A i \in 1..(n - 1) : ~pending[i].wanted
      BY <1>2, <2>3
    <3> QED
      BY <2>1, <2>4, <3>1, <3>2
  <2>6. CASE pending[n].wanted
    <3>1. \A i \in 1..(n - 1) : ~pending[i].wanted
      BY <1>2, <2>3, <2>6 DEF OneWanted
    <3>2. after[n - 1] = s
      BY <2>4, <3>1
    <3>3. Fits(s, db, pending[n])
      BY <1>2, <2>3, <2>6 DEF WantedFit
    <3>4. Current(after[n], db)
      BY <2>4, <3>2, <3>3, AnsweredCurrent
    <3>5. ~\A i \in 1..n : ~pending[i].wanted
      BY <1>2, <2>3, <2>6
    <3> QED
      BY <2>1, <3>4, <3>5
  <2> QED
    BY <2>5, <2>6
<1>4. Current(after[Len(pending)], db)
  BY <1>2, <1>3
<1> QED
  BY <1>1, <1>4

-----------------------------------------------------------------------------
(* Jobs and the worker.                                                    *)

NoneWanted(jobs) == \A i \in DOMAIN jobs : ~jobs[i].wanted

LEMMA NoneWantedGood ==
  ASSUME NEW s, NEW db, NEW jobs \in Seq(Jobs), NoneWanted(jobs)
  PROVE  JobsGood(s, db, jobs)
BY DEF NoneWanted, JobsGood, WantedFit, OneWanted

LEMMA UnwantedFacts ==
  ASSUME pending \in Seq(Jobs)
  PROVE  Unwanted \in Seq(Jobs) /\ NoneWanted(Unwanted)
<1>1. DOMAIN pending = 1..Len(pending) /\ Len(pending) \in Nat
      /\ \A i \in DOMAIN pending : pending[i] \in Jobs
  BY LenProperties, ElementOfSeq
<1>2. \A job \in Jobs : [job EXCEPT !.wanted = FALSE] \in Jobs
                        /\ ~[job EXCEPT !.wanted = FALSE].wanted
  BY DEF Jobs
<1>3. \A i \in DOMAIN pending : [pending[i] EXCEPT !.wanted = FALSE] \in Jobs
                                /\ ~[pending[i] EXCEPT !.wanted = FALSE].wanted
  BY <1>1, <1>2
<1>4. Unwanted \in [1..Len(pending) -> Jobs]
  BY <1>1, <1>3 DEF Unwanted
<1>5. Unwanted \in Seq(Jobs)
  BY <1>1, <1>4
<1>6. DOMAIN Unwanted = DOMAIN pending
      /\ \A i \in DOMAIN pending : Unwanted[i] = [pending[i] EXCEPT !.wanted = FALSE]
  BY DEF Unwanted
<1>7. NoneWanted(Unwanted)
  <2> SUFFICES ASSUME NEW i \in DOMAIN Unwanted
               PROVE  ~Unwanted[i].wanted
    BY DEF NoneWanted
  <2> DEFINE job == [pending[i] EXCEPT !.wanted = FALSE]
  <2>1. Unwanted[i] = job /\ ~job.wanted
    BY <1>3, <1>6
  <2> HIDE DEF job
  <2> QED
    BY <2>1
<1> QED
  BY <1>5, <1>7

\* What is posted is the only job wanted.
LEMMA AppendGood ==
  ASSUME NEW s, NEW db, NEW jobs \in Seq(Jobs), NoneWanted(jobs),
         NEW job \in Jobs, Fits(s, db, job), NEW network \in BOOLEAN
  PROVE  JobsGood(s, db, Append(jobs, [job EXCEPT !.network = network]))
<1> DEFINE posted == [job EXCEPT !.network = network]
           all == Append(jobs, posted)
<1>1. posted \in Jobs /\ posted.kind = job.kind /\ posted.route = job.route
  BY DEF Jobs
<1>2. Fits(s, db, posted)
  BY <1>1 DEF Fits
<1> HIDE DEF posted
<1>3. /\ all \in Seq(Jobs) /\ Len(jobs) \in Nat /\ DOMAIN jobs = 1..Len(jobs)
      /\ DOMAIN all = 1..(Len(jobs) + 1)
      /\ \A i \in 1..Len(jobs) : all[i] = jobs[i]
      /\ all[Len(jobs) + 1] = posted
  BY <1>1
<1> HIDE DEF all
<1>4. \A i \in DOMAIN all : all[i].wanted => i = Len(jobs) + 1
  BY <1>3 DEF NoneWanted
<1>5. WantedFit(s, db, all) /\ OneWanted(all)
  BY <1>2, <1>3, <1>4 DEF WantedFit, OneWanted
<1> QED
  BY <1>3, <1>5 DEF JobsGood, all, posted

LEMMA PostedGood ==
  ASSUME NEW s, NEW db, NEW jobs \in Seq(Jobs), NoneWanted(jobs),
         NEW job \in Jobs, Fits(s, db, job), WorkerGood(worker), Posted(job, jobs)
  PROVE  JobsGood(s, db, pending') /\ WorkerGood(worker')
<1> DEFINE sent == IF worker.at = "none" THEN {} ELSE worker.sent
           need == KeyOf(job) \notin sent
<1>1. KeyOf(job) \in Airports \X Networks
  BY DEF KeyOf, Jobs, Routes
<1>2. sent \cup {KeyOf(job)} \subseteq Airports \X Networks
  BY <1>1 DEF WorkerGood, Workers
<1>3. /\ worker.failures < MaxFailures
      /\ pending' = Append(jobs, [job EXCEPT !.network = need])
      /\ worker' = [worker EXCEPT !.sent = sent \cup {KeyOf(job)},
                                  !.at = IF @ = "none" THEN "starting" ELSE @]
  BY Zenon DEF Posted
<1> HIDE DEF sent
<1>4. WorkerGood(worker')
  BY <1>2, <1>3 DEF WorkerGood, Workers
<1>5. need \in BOOLEAN
  OBVIOUS
<1> HIDE DEF need
<1>6. JobsGood(s, db, pending')
  BY <1>3, <1>5, AppendGood
<1> QED
  BY <1>4, <1>6

LEMMA SubmitGood ==
  ASSUME NEW s, NEW db, NEW jobs \in Seq(Jobs), NoneWanted(jobs), Current(s, db),
         NEW job \in Jobs, Fits(s, db, job), WorkerGood(worker), Submit(s, job, jobs)
  PROVE  AllGood(svc', db, pending', worker')
<1>1. CASE Posted(job, jobs) /\ svc' = s
  BY <1>1, PostedGood DEF AllGood
<1>2. CASE /\ Refused(jobs) \/ StartFails(jobs)
           /\ \E done, found \in BOOLEAN : svc' = Answered(s, job, done, found)
  <2>1. PICK done \in BOOLEAN, found \in BOOLEAN : svc' = Answered(s, job, done, found)
    BY <1>2
  <2>2. WorkerGood(worker')
    <3>1. CASE Refused(jobs)
      BY <3>1 DEF Refused
    <3>2. CASE StartFails(jobs)
      <4>1. /\ worker.at = "none" /\ worker.failures < MaxFailures
            /\ worker' = [worker EXCEPT !.failures = @ + 1]
        BY <3>2 DEF StartFails
      <4>2. worker.failures + 1 \in 0..MaxFailures
        BY <4>1, TaxiAssumption DEF WorkerGood, Workers
      <4>3. worker' \in Workers /\ worker'.kept = worker.kept /\ worker'.at = worker.at
        BY <4>1, <4>2 DEF WorkerGood, Workers
      <4> QED
        BY <4>1, <4>3 DEF WorkerGood
    <3> QED
      BY <1>2, <3>1, <3>2
  <2>3. pending' = jobs
    BY <1>2 DEF Refused, StartFails
  <2>4. s \in Services
    BY DEF Current
  <2>5. Current(svc', db)
    BY <2>1, <2>4, AnsweredCurrent
  <2> QED
    BY <2>2, <2>3, <2>5, NoneWantedGood DEF AllGood
<1> QED
  BY <1>1, <1>2 DEF Submit

-----------------------------------------------------------------------------
(* The handlers.                                                           *)

\* A trace asked for is for what the service holds.
LEMMA RetraceGood ==
  ASSUME TypeOK, WorkerGood(worker), NEW s \in Services, NEW db \in [Airports -> Networks],
         NetworksAreCurrent(s, db), retrace(s, db)
  PROVE  AllGood(svc', db, pending', worker')
<1> DEFINE clear == reset(s)
           read == Read(Read(clear, Dep[shownFlight], db), Arr[shownFlight], db)
<1>1. Current(clear, db) /\ clear \in Services /\ clear.tracker = None
      /\ clear.clearance = s.clearance
      /\ (clear.published # None => clear.published.line = None)
  BY ResetFacts, ResetCurrent
<1>2. Unwanted \in Seq(Jobs) /\ NoneWanted(Unwanted)
  BY UnwantedFacts DEF TypeOK
<1>3. ASSUME NEW t, Current(t, db), NoJob(t)
      PROVE  AllGood(svc', db, pending', worker')
  BY <1>2, <1>3, NoneWantedGood DEF NoJob, AllGood
<1>4. CASE s.clearance = None \/ shownFlight = None
  <2>1. NoJob(clear)
    BY <1>4 DEF retrace
  <2> QED
    BY <1>1, <1>3, <2>1
<1>5. CASE s.clearance # None /\ shownFlight # None
  <2> DEFINE At(a) == publish([read EXCEPT !.icao = a, !.segments = read.networks[a]], None)
             Asked(a) == IF a \in At(a).stands THEN At(a)
                         ELSE [At(a) EXCEPT !.standsAsked = @ \cup {a}]
             Job(a) == [kind |-> "trace", network |-> FALSE, wanted |-> TRUE,
                        route |-> [clearance |-> s.clearance.of, icao |-> a,
                                   network |-> read.networks[a], stand |-> a \in At(a).stands]]
  <2>1. PICK a \in clearanceAirport(s.clearance, read) :
          IF ~s.clearance.from \/ read.networks[a] = 0 THEN NoJob(At(a))
          ELSE Submit(Asked(a), Job(a), Unwanted)
    BY <1>5 DEF retrace
  <2>2. Dep[shownFlight] \in Airports /\ Arr[shownFlight] \in Airports
    BY <1>5, TaxiAssumption DEF TypeOK
  <2>3. a \in Airports
    BY <2>1, <2>2, Zenon DEF clearanceAirport
  <2>4. /\ read \in Services /\ NetworksAreCurrent(read, db)
        /\ read = [clear EXCEPT !.networks = read.networks]
    <3>1. NetworksAreCurrent(clear, db) /\ clear \in Services
      BY <1>1 DEF Current
    <3> HIDE DEF clear
    <3> QED
      BY <2>2, <3>1, ReadBothFacts
  <2>5. read.tracker = None /\ read.clearance = s.clearance
        /\ read.networks \in [Airports -> Networks]
    <3> HIDE DEF read, clear
    <3> QED
      BY <1>1, <2>4 DEF Services
  <2> HIDE DEF read, clear
  <2> DEFINE n == read.networks[a]
             set == [read EXCEPT !.icao = a, !.segments = n]
             at == At(a)
             asked == Asked(a)
             route == [clearance |-> s.clearance.of, icao |-> a, network |-> n,
                       stand |-> a \in at.stands]
  <2>6. n \in Networks
    BY <2>3, <2>5
  <2>7. /\ set \in Services /\ set.icao = a /\ set.tracker = None /\ set.clearance = s.clearance
        /\ set.networks = read.networks
    <3> DEFINE first == [read EXCEPT !.icao = a]
    <3>1. first \in Services /\ first.icao = a /\ first.tracker = read.tracker
          /\ first.clearance = read.clearance /\ first.networks = read.networks
      BY <2>3, <2>4 DEF Services
    <3>2. set = [first EXCEPT !.segments = n]
      OBVIOUS
    <3> HIDE DEF first, n, set
    <3> QED
      BY <2>5, <2>6, <3>1, <3>2 DEF Services
  <2>8. Current(at, db) /\ at \in Services /\ SameBeneath(at, set)
    <3>1. TrackerHolds(set, db) /\ NetworksAreCurrent(set, db)
      BY <2>4, <2>7 DEF TrackerHolds, NetworksAreCurrent
    <3> QED
      BY <2>7, <3>1, PublishFacts, PublishCurrent
  <2>9. at.icao = a /\ at.tracker = None /\ at.clearance = s.clearance
    BY <2>7, <2>8 DEF SameBeneath
  <2>10. CASE ~s.clearance.from \/ n = 0
    BY <1>3, <2>1, <2>8, <2>10
  <2>11. CASE s.clearance.from /\ n # 0
    <3>1. Submit(asked, Job(a), Unwanted)
      BY <2>1, <2>11
    <3> HIDE DEF at
    <3>2. /\ asked \in Services /\ asked.icao = a /\ asked.tracker = None
          /\ asked.clearance = s.clearance /\ asked.stands = at.stands
          /\ asked.networks = at.networks /\ asked.published = at.published
      <4>1. asked = IF a \in at.stands THEN at ELSE [at EXCEPT !.standsAsked = @ \cup {a}]
        BY DEF at
      <4> HIDE DEF asked
      <4> QED
        BY <2>3, <2>8, <2>9, <4>1 DEF Services
    <3> HIDE DEF asked
    <3>3. Current(asked, db)
      BY <2>8, <2>9, <3>2, CurrentAsBefore
    <3>4. s.clearance.of \in Clearances
      BY <1>5 DEF Services
    <3>5. route \in Routes
      <4>1. (a \in at.stands) \in BOOLEAN
        OBVIOUS
      <4> QED
        BY <2>3, <2>6, <3>4, <4>1 DEF Routes
    <3>6. n = db[a]
      BY <2>3, <2>4, <2>11 DEF NetworksAreCurrent
    <3>7. route.clearance = s.clearance.of /\ route.icao = a /\ route.network = n
          /\ (route.stand <=> a \in at.stands)
      OBVIOUS
    <3>8. Job(a) = [kind |-> "trace", network |-> FALSE, wanted |-> TRUE, route |-> route]
      BY DEF at
    <3> HIDE DEF route
    <3>9. RouteHolds(asked, db, route)
      BY <1>5, <3>2, <3>6, <3>7 DEF RouteHolds
    <3> DEFINE job == [kind |-> "trace", network |-> FALSE, wanted |-> TRUE, route |-> route]
    <3>10. job \in Jobs /\ Fits(asked, db, job)
      BY <3>2, <3>5, <3>9 DEF Jobs, Fits
    <3>11. Submit(asked, job, Unwanted)
      BY <3>1, <3>8, Zenon
    <3> HIDE DEF job
    <3> QED
      BY <1>2, <3>3, <3>10, <3>11, SubmitGood
  <2> QED
    BY <2>10, <2>11
<1> QED
  BY <1>4, <1>5

\* Following the line: a re-route goes out only while no other answer is awaited.
LEMMA FollowGood ==
  ASSUME NEW s, NEW db, Current(s, db), NEW jobs, JobsGood(s, db, jobs), WorkerGood(worker),
         follow(s, jobs)
  PROVE  AllGood(svc', db, pending', worker')
<1>0. s \in Services /\ jobs \in Seq(Jobs) /\ TrackerHolds(s, db) /\ NetworksAreCurrent(s, db)
  BY DEF Current, JobsGood
<1>1. CASE s.clearance = None
  BY <1>1 DEF follow, AllGood
<1>2. CASE s.clearance # None /\ s.tracker = None
  <2>1. svc' = publish(s, None) /\ pending' = jobs /\ worker' = worker
    BY <1>2 DEF follow
  <2>2. Current(svc', db) /\ SameBeneath(svc', s)
    BY <1>0, <2>1, PublishCurrent, PublishFacts
  <2>3. JobsGood(svc', db, pending')
    BY <2>1, <2>2 DEF JobsGood, WantedFit, Fits, RouteHolds, SameBeneath
  <2> QED
    BY <2>1, <2>2, <2>3 DEF AllGood
<1>3. CASE s.clearance # None /\ s.tracker # None
  <2> DEFINE on(done) == [s EXCEPT !.tracker.done = done]
             step(done) == publish(on(done), s.tracker.line)
             sent(done) == [step(done) EXCEPT !.rerouteOut = TRUE]
             job == [kind |-> "rejoin", network |-> FALSE, wanted |-> TRUE,
                     route |-> s.tracker.line.route]
  <2>1. PICK done \in {s.tracker.done, TRUE} :
          \/ svc' = step(done) /\ pending' = jobs /\ UNCHANGED worker
          \/ /\ phase = "ground" /\ ~done /\ ~s.rerouteOut
             /\ Submit(sent(done), job, jobs)
    BY <1>3 DEF follow
  <2>2. s.tracker \in [line : Lines, done : BOOLEAN] /\ done \in BOOLEAN
    BY <1>0, <1>3 DEF Services
  <2>3. s.tracker.line \in Lines /\ s.tracker.line.route \in Routes
    BY <2>2 DEF Lines
  <2>4. RouteHolds(s, db, s.tracker.line.route)
    BY <1>0, <1>3 DEF TrackerHolds
  <2> DEFINE track == [s.tracker EXCEPT !.done = done]
             now == on(done)
             shown == step(done)
             asked == sent(done)
  <2>5. track \in [line : Lines, done : BOOLEAN] /\ track.line = s.tracker.line
    BY <2>2
  <2>6. now = [s EXCEPT !.tracker = track]
    BY <1>0 DEF Services
  <2> HIDE DEF track, now
  <2>7. /\ now \in Services /\ now.tracker = track /\ now.clearance = s.clearance
        /\ now.icao = s.icao /\ now.stands = s.stands /\ now.networks = s.networks
        /\ now.rerouteOut = s.rerouteOut
    BY <1>0, <2>5, <2>6 DEF Services
  <2>8. RouteHolds(now, db, s.tracker.line.route) /\ NetworksAreCurrent(now, db)
    BY <1>0, <2>4, <2>7 DEF RouteHolds, NetworksAreCurrent
  <2>9. TrackerHolds(now, db)
    BY <2>5, <2>7, <2>8 DEF TrackerHolds
  <2>10. shown = publish(now, s.tracker.line)
    BY DEF now
  <2> HIDE DEF shown
  <2>11. Current(shown, db) /\ SameBeneath(shown, now) /\ shown \in Services
    BY <2>3, <2>7, <2>8, <2>9, <2>10, PublishCurrent, PublishFacts
  <2>12. CASE svc' = shown /\ pending' = jobs /\ UNCHANGED worker
    <3>1. JobsGood(shown, db, jobs)
      BY <1>3, <2>7, <2>11 DEF JobsGood, WantedFit, Fits, SameBeneath
    <3> QED
      BY <2>11, <2>12, <3>1 DEF AllGood
  <2>13. CASE ~s.rerouteOut /\ Submit(asked, job, jobs)
    <3>1. NoneWanted(jobs)
      BY <1>3, <2>13 DEF JobsGood, WantedFit, Fits, NoneWanted
    <3>2. asked = [shown EXCEPT !.rerouteOut = TRUE]
      BY DEF shown
    <3> HIDE DEF asked
    <3>3. /\ asked \in Services /\ asked.tracker = shown.tracker
          /\ asked.clearance = shown.clearance /\ asked.icao = shown.icao
          /\ asked.stands = shown.stands /\ asked.networks = shown.networks
          /\ asked.published = shown.published /\ asked.rerouteOut
      BY <2>11, <3>2, OneRerouteOut
    <3>4. Current(asked, db)
      BY <2>11, <3>3, CurrentAsBefore
    <3>5. asked.clearance # None
      BY <1>3, <2>7, <2>11, <3>3 DEF SameBeneath
    <3>6. job \in Jobs /\ job.kind = "rejoin"
      BY <2>3 DEF Jobs
    <3> HIDE DEF job
    <3>7. Fits(asked, db, job)
      BY <3>3, <3>5, <3>6 DEF Fits
    <3> QED
      BY <1>0, <2>13, <3>1, <3>4, <3>6, <3>7, SubmitGood
  <2> QED
    BY <2>1, <2>12, <2>13 DEF shown
<1> QED
  BY <1>1, <1>2, <1>3

\* What the flight's change takes away leaves no answer awaited.
LEMMA DroppedGood ==
  ASSUME TypeOK, Current(svc, cache), JobsGood(svc, cache, pending)
  PROVE  LET s == [Dropped(svc) EXCEPT !.located = TRUE]
             jobs == IF s.clearance = None /\ svc.clearance # None THEN Unwanted ELSE pending
         IN  Current(s, cache) /\ JobsGood(s, cache, jobs)
<1> DEFINE departed == phase = "departed"
           other == svc.clearance # None /\ phase # "none" /\ svc.flightId \notin {None, shownFlight}
           gone == other \/ (departed /\ ~svc.departed)
           s1 == [svc EXCEPT !.departed = departed]
           bare == [s1 EXCEPT !.clearance = None]
           dropped == Dropped(svc)
           s == [dropped EXCEPT !.located = TRUE]
           jobs == IF s.clearance = None /\ svc.clearance # None THEN Unwanted ELSE pending
<1>1. dropped = IF gone THEN reset(bare) ELSE s1
  BY DEF Dropped
<1>2. departed \in BOOLEAN /\ svc \in Services /\ pending \in Seq(Jobs)
  BY DEF TypeOK
<1> HIDE DEF departed, other, gone
<1>3. /\ s1 \in Services /\ s1.tracker = svc.tracker /\ s1.clearance = svc.clearance
      /\ s1.icao = svc.icao /\ s1.stands = svc.stands /\ s1.networks = svc.networks
      /\ s1.published = svc.published /\ s1.rerouteOut = svc.rerouteOut
  BY <1>2 DEF Services
<1> HIDE DEF s1
<1>4. bare \in Services /\ bare.clearance = None /\ bare.networks = svc.networks
  BY <1>3 DEF Services
<1> HIDE DEF bare, dropped
<1>5. ASSUME NEW t \in Services
      PROVE  LET u == [t EXCEPT !.located = TRUE]
             IN  /\ u \in Services /\ u.tracker = t.tracker /\ u.clearance = t.clearance
                 /\ u.icao = t.icao /\ u.stands = t.stands /\ u.networks = t.networks
                 /\ u.published = t.published /\ u.rerouteOut = t.rerouteOut
  BY ZenonT(60) DEF Services
<1>6. CASE gone
  <2>1. NetworksAreCurrent(bare, cache)
    BY <1>4 DEF Current, NetworksAreCurrent
  <2>2. dropped \in Services /\ Current(dropped, cache) /\ dropped.clearance = None
    BY <1>1, <1>4, <1>6, <2>1, ResetFacts, ResetCurrent
  <2>3. /\ s \in Services /\ s.tracker = dropped.tracker /\ s.clearance = None
        /\ s.icao = dropped.icao /\ s.stands = dropped.stands
        /\ s.networks = dropped.networks /\ s.published = dropped.published
    BY <1>5, <2>2
  <2> HIDE DEF s
  <2>4. Current(s, cache)
    BY <2>2, <2>3 DEF Current, TrackerHolds, ShownHolds, RouteHolds, NetworksAreCurrent
  <2>5. jobs \in Seq(Jobs) /\ NoneWanted(jobs)
    <3>1. CASE svc.clearance = None
      <4>1. \A i \in DOMAIN pending : ~Fits(svc, cache, pending[i])
        BY <3>1 DEF Fits, RouteHolds
      <4> QED
        BY <1>2, <3>1, <4>1 DEF JobsGood, WantedFit, NoneWanted
    <3>2. CASE svc.clearance # None
      BY <1>2, <2>3, <3>2, UnwantedFacts
    <3> QED
      BY <3>1, <3>2
  <2> HIDE DEF jobs
  <2>6. Current(s, cache) /\ JobsGood(s, cache, jobs)
    BY <2>4, <2>5, NoneWantedGood
  <2> QED
    BY <2>6 DEF s, jobs, dropped
<1>7. CASE ~gone
  <2>1. dropped = s1
    BY <1>1, <1>7
  <2>2. /\ s \in Services /\ s.tracker = svc.tracker /\ s.clearance = svc.clearance
        /\ s.icao = svc.icao /\ s.stands = svc.stands /\ s.networks = svc.networks
        /\ s.published = svc.published /\ s.rerouteOut = svc.rerouteOut
    BY <1>3, <1>5, <2>1
  <2> HIDE DEF s
  <2>3. Current(s, cache)
    BY <2>2 DEF Current, TrackerHolds, ShownHolds, RouteHolds, NetworksAreCurrent
  <2>4. jobs = pending
    BY <2>2
  <2> HIDE DEF jobs
  <2>5. JobsGood(s, cache, jobs)
    BY <2>2, <2>4 DEF JobsGood, WantedFit, Fits, RouteHolds
  <2> QED
    BY <2>3, <2>5 DEF s, jobs, dropped
<1> QED
  BY <1>6, <1>7

LEMMA TelemetryGood ==
  ASSUME TInv, onTelemetry
  PROVE  AllGood(svc', cache', pending', worker')
<1> DEFINE s == [Dropped(svc) EXCEPT !.located = TRUE]
           jobs == IF s.clearance = None /\ svc.clearance # None THEN Unwanted ELSE pending
           at == [s EXCEPT !.clearance.from = TRUE]
<1>0. TypeOK /\ Current(svc, cache) /\ JobsGood(svc, cache, pending) /\ WorkerGood(worker)
  BY DEF TInv, AllGood
<1>1. Current(s, cache) /\ JobsGood(s, cache, jobs)
  BY <1>0, DroppedGood
<1>2. /\ IF s.clearance # None /\ ~s.clearance.from THEN retrace(at, cache) ELSE follow(s, jobs)
      /\ cache' = cache
  BY Zenon DEF onTelemetry, world
<1>3. s \in Services /\ NetworksAreCurrent(s, cache) /\ cache \in [Airports -> Networks]
  BY <1>0, <1>1 DEF Current, TypeOK
<1> HIDE DEF s, jobs
<1>4. CASE s.clearance # None /\ ~s.clearance.from
  <2> DEFINE c == [s.clearance EXCEPT !.from = TRUE]
  <2>1. c \in [of : Clearances, from : BOOLEAN]
    BY <1>3, <1>4 DEF Services
  <2>2. at = [s EXCEPT !.clearance = c]
    BY <1>3 DEF Services
  <2> HIDE DEF c, at
  <2>3. at \in Services /\ at.networks = s.networks
    BY <1>3, <2>1, <2>2 DEF Services
  <2>4. NetworksAreCurrent(at, cache)
    BY <1>3, <2>3 DEF NetworksAreCurrent
  <2> QED
    BY <1>0, <1>2, <1>3, <1>4, <2>3, <2>4, RetraceGood
<1>5. CASE ~(s.clearance # None /\ ~s.clearance.from)
  BY <1>0, <1>1, <1>2, <1>5, FollowGood
<1> QED
  BY <1>4, <1>5

LEMMA StateGood ==
  ASSUME TInv, NEW c \in Clearances, onState(c)
  PROVE  AllGood(svc', cache', pending', worker')
<1> DEFINE given == [of |-> c, from |-> svc.located]
           s == [svc EXCEPT !.boxes = c, !.clearance = given, !.flightId = shownFlight]
<1>0. /\ TypeOK /\ NetworksAreCurrent(svc, cache) /\ WorkerGood(worker) /\ svc \in Services
      /\ cache \in [Airports -> Networks] /\ shownFlight \in Flights \cup {None}
  BY DEF TInv, AllGood, Current, TypeOK
<1>1. retrace(s, cache) /\ cache' = cache
  BY Zenon DEF onState, world
<1>2. given \in [of : Clearances, from : BOOLEAN]
  BY <1>0 DEF Services
<1> HIDE DEF given
<1>3. s \in Services /\ s.networks = svc.networks
  <2> DEFINE b1 == [svc EXCEPT !.boxes = c]
             b2 == [b1 EXCEPT !.clearance = given]
  <2>1. b1 \in Services /\ b1.networks = svc.networks
    BY <1>0 DEF Services
  <2>2. s = [b2 EXCEPT !.flightId = shownFlight]
    OBVIOUS
  <2> HIDE DEF b1
  <2>3. b2 \in Services /\ b2.networks = svc.networks
    BY <1>2, <2>1 DEF Services
  <2> HIDE DEF b2, s
  <2> QED
    BY <1>0, <2>2, <2>3 DEF Services
<1> HIDE DEF s
<1>4. NetworksAreCurrent(s, cache)
  BY <1>0, <1>3 DEF NetworksAreCurrent
<1> QED
  BY <1>0, <1>1, <1>3, <1>4, RetraceGood

\* What is tracked, shown and awaited with one database is so with another when only the
\* networks kept differ and every route that held still holds.
LEMMA RefreshKeeps ==
  ASSUME NEW s \in Services, NEW db, NEW jobs, Current(s, db), JobsGood(s, db, jobs),
         NEW t \in Services, NEW new, NetworksAreCurrent(t, new),
         t.tracker = s.tracker, t.clearance = s.clearance, t.icao = s.icao,
         t.stands = s.stands, t.published = s.published, t.rerouteOut = s.rerouteOut,
         \A route : route.icao \in Airports /\ RouteHolds(s, db, route)
                      => RouteHolds(t, new, route)
  PROVE  Current(t, new) /\ JobsGood(t, new, jobs)
<1>1. TrackerHolds(t, new)
  <2>1. s.tracker # None => s.tracker.line.route.icao \in Airports
    BY DEF Services, Lines, Routes
  <2> QED
    BY <2>1 DEF Current, TrackerHolds
<1>2. ShownHolds(t, new)
  <2>1. s.published # None /\ s.published.line # None =>
          s.published.line.route.icao \in Airports
    BY DEF Services, Lines, Routes
  <2> QED
    BY <2>1 DEF Current, ShownHolds
<1>3. JobsGood(t, new, jobs)
  <2>1. \A i \in DOMAIN jobs : jobs[i].route.icao \in Airports
    <3>1. \A i \in DOMAIN jobs : jobs[i] \in Jobs
      BY DEF JobsGood
    <3> QED
      BY <3>1 DEF Jobs, Routes
  <2> QED
    BY <2>1 DEF JobsGood, WantedFit, Fits
<1> QED
  BY <1>1, <1>2, <1>3 DEF Current

\* A network refreshed is another airport's, or as long as the one that was kept, or the line is
\* traced anew.
LEMMA RefreshedGood ==
  ASSUME TInv, NEW a \in Airports, refreshed(a)
  PROVE  AllGood(svc', cache', pending', worker') /\ cache' \in [Airports -> Networks]
<1> DEFINE s == [svc EXCEPT !.networks[a] = 0]
           nets == [svc.networks EXCEPT ![a] = 0]
           read == IF svc.networks[a] = 0 THEN s ELSE Read(s, a, cache')
           same == /\ SameNetwork(svc.networks[a], cache'[a])
                   /\ (svc.clearance.of \in ForStand => a \in svc.stands)
           skip == svc.clearance = None \/ svc.icao \notin {None, a}
<1>0. /\ TypeOK /\ Current(svc, cache) /\ JobsGood(svc, cache, pending) /\ WorkerGood(worker)
      /\ svc \in Services /\ cache \in [Airports -> Networks]
      /\ svc.networks \in [Airports -> Networks]
  BY DEF TInv, AllGood, TypeOK, Services
<1>1. PICK n \in Networks : cache' = [cache EXCEPT ![a] = n] /\ onRefreshed(a, cache')
  BY DEF refreshed
<1>2. cache' \in [Airports -> Networks]
  BY <1>0, <1>1
<1>3. /\ skip => svc' = s /\ UNCHANGED <<worker, pending>>
      /\ ~skip /\ same => svc' = read /\ UNCHANGED <<worker, pending>>
      /\ ~skip /\ ~same => retrace(read, cache')
  BY <1>1, Zenon DEF onRefreshed
<1>4. nets \in [Airports -> Networks] /\ nets[a] = 0
      /\ \A b \in Airports : b # a => nets[b] = svc.networks[b]
  BY <1>0, TaxiAssumption DEF Networks
<1>5. s = [svc EXCEPT !.networks = nets]
  BY <1>0 DEF Services
<1> HIDE DEF s, nets
<1>6. /\ s \in Services /\ s.tracker = svc.tracker /\ s.clearance = svc.clearance
      /\ s.icao = svc.icao /\ s.stands = svc.stands /\ s.networks = nets
      /\ s.published = svc.published /\ s.rerouteOut = svc.rerouteOut
  BY <1>0, <1>4, <1>5 DEF Services
<1>7. \A b \in Airports : b # a => cache'[b] = cache[b]
  BY <1>0, <1>1
<1>8. NetworksAreCurrent(s, cache')
  BY <1>0, <1>4, <1>6, <1>7 DEF Current, NetworksAreCurrent
<1>9. CASE skip
  <2>1. ASSUME NEW route, route.icao \in Airports, RouteHolds(svc, cache, route)
        PROVE  RouteHolds(s, cache', route)
    BY <1>6, <1>7, <1>9, <2>1, TaxiAssumption DEF RouteHolds
  <2>2. Current(s, cache') /\ JobsGood(s, cache', pending)
    BY <1>0, <1>6, <1>8, <2>1, RefreshKeeps
  <2> QED
    BY <1>0, <1>2, <1>3, <1>9, <2>2 DEF AllGood
<1>10. /\ read \in Services /\ read.tracker = svc.tracker /\ read.clearance = svc.clearance
       /\ read.icao = svc.icao /\ read.stands = svc.stands
       /\ read.published = svc.published /\ read.rerouteOut = svc.rerouteOut
       /\ NetworksAreCurrent(read, cache')
  <2>1. CASE svc.networks[a] = 0
    BY <1>6, <1>8, <2>1
  <2>2. CASE svc.networks[a] # 0
    <3> DEFINE t == Read(s, a, cache')
    <3>1. /\ t \in Services /\ NetworksAreCurrent(t, cache')
          /\ t = [s EXCEPT !.networks = t.networks]
      BY <1>2, <1>6, <1>8, ReadFacts
    <3>2. read = t
      BY <2>2
    <3> HIDE DEF t, read
    <3> QED
      BY <1>6, <3>1, <3>2 DEF Services
  <2> QED
    BY <2>1, <2>2
<1> HIDE DEF read
<1>11. CASE ~skip /\ same
  <2>1. /\ svc.networks[a] = cache[a]
        /\ LengthOf[cache'[a]] = LengthOf[cache[a]]
    BY <1>0, <1>11 DEF Current, NetworksAreCurrent, SameNetwork
  <2>2. ASSUME NEW route, route.icao \in Airports, RouteHolds(svc, cache, route)
        PROVE  RouteHolds(read, cache', route)
    <3>1. LengthOf[cache'[route.icao]] = LengthOf[cache[route.icao]]
      BY <1>7, <2>1, <2>2
    <3> QED
      BY <1>10, <2>2, <3>1 DEF RouteHolds
  <2>3. Current(read, cache') /\ JobsGood(read, cache', pending)
    BY <1>0, <1>10, <2>2, RefreshKeeps
  <2> QED
    BY <1>0, <1>2, <1>3, <1>11, <2>3 DEF AllGood
<1>12. CASE ~skip /\ ~same
  BY <1>0, <1>2, <1>3, <1>10, <1>12, RetraceGood
<1> QED
  BY <1>9, <1>11, <1>12

LEMMA StandsArriveGood ==
  ASSUME TInv, NEW a \in Airports, standsArrive(a)
  PROVE  AllGood(svc', cache', pending', worker')
<1> DEFINE s == [svc EXCEPT !.standsAsked = @ \ {a}, !.stands = @ \cup {a}]
<1>0. /\ TypeOK /\ Current(svc, cache) /\ JobsGood(svc, cache, pending) /\ WorkerGood(worker)
      /\ svc \in Services /\ cache \in [Airports -> Networks]
  BY DEF TInv, AllGood, TypeOK
<1>1. /\ IF s.clearance # None /\ s.clearance.of \in ForStand /\ s.icao = a THEN retrace(s, cache)
         ELSE svc' = s /\ UNCHANGED <<worker, pending>>
      /\ cache' = cache
  BY Zenon DEF standsArrive, world
<1>2. /\ s \in Services /\ s.tracker = svc.tracker /\ s.clearance = svc.clearance
      /\ s.icao = svc.icao /\ s.stands = svc.stands \cup {a} /\ s.networks = svc.networks
      /\ s.published = svc.published /\ s.rerouteOut = svc.rerouteOut
  <2> DEFINE b1 == [svc EXCEPT !.standsAsked = @ \ {a}]
  <2>1. /\ b1 \in Services /\ b1.tracker = svc.tracker /\ b1.clearance = svc.clearance
        /\ b1.icao = svc.icao /\ b1.stands = svc.stands /\ b1.networks = svc.networks
        /\ b1.published = svc.published /\ b1.rerouteOut = svc.rerouteOut
    BY <1>0 DEF Services
  <2>2. s = [b1 EXCEPT !.stands = @ \cup {a}]
    OBVIOUS
  <2> HIDE DEF b1, s
  <2> QED
    BY <2>1, <2>2 DEF Services
<1> HIDE DEF s
<1>3. NetworksAreCurrent(s, cache)
  BY <1>0, <1>2 DEF Current, NetworksAreCurrent
<1>4. CASE s.clearance # None /\ s.clearance.of \in ForStand /\ s.icao = a
  BY <1>0, <1>1, <1>2, <1>3, <1>4, RetraceGood
<1>5. CASE ~(s.clearance # None /\ s.clearance.of \in ForStand /\ s.icao = a)
  <2>1. ASSUME NEW route, RouteHolds(svc, cache, route)
        PROVE  RouteHolds(s, cache, route)
    BY <1>2, <1>5, <2>1 DEF RouteHolds
  <2>2. TrackerHolds(s, cache) /\ ShownHolds(s, cache)
    BY <1>0, <1>2, <2>1 DEF Current, TrackerHolds, ShownHolds
  <2>3. JobsGood(s, cache, pending)
    BY <1>0, <1>2, <2>1 DEF JobsGood, WantedFit, Fits
  <2> QED
    BY <1>0, <1>1, <1>2, <1>3, <1>5, <2>2, <2>3 DEF AllGood, Current
<1> QED
  BY <1>4, <1>5

LEMMA StandsFailGood ==
  ASSUME TInv, NEW a \in Airports, standsFail(a)
  PROVE  AllGood(svc', cache', pending', worker')
<1>0. /\ Current(svc, cache) /\ JobsGood(svc, cache, pending) /\ WorkerGood(worker)
      /\ svc \in Services
  BY DEF TInv, AllGood, TypeOK
<1>1. svc' = [svc EXCEPT !.standsAsked = @ \ {a}] /\ cache' = cache /\ worker' = worker
      /\ pending' = pending
  BY DEF standsFail, world
<1>2. /\ svc' \in Services /\ svc'.tracker = svc.tracker /\ svc'.clearance = svc.clearance
      /\ svc'.icao = svc.icao /\ svc'.stands = svc.stands /\ svc'.networks = svc.networks
      /\ svc'.published = svc.published /\ svc'.rerouteOut = svc.rerouteOut
  BY <1>0, <1>1 DEF Services
<1>3. Current(svc', cache)
  BY <1>0, <1>2 DEF Current, TrackerHolds, ShownHolds, RouteHolds, NetworksAreCurrent
<1>4. JobsGood(svc', cache, pending)
  BY <1>0, <1>2 DEF JobsGood, WantedFit, Fits, RouteHolds
<1> QED
  BY <1>0, <1>1, <1>3, <1>4 DEF AllGood

LEMMA ReadyGood ==
  ASSUME TInv, ready
  PROVE  AllGood(svc', cache', pending', worker')
<1>1. WorkerGood(worker) /\ worker' = [worker EXCEPT !.at = "ready", !.failures = 0]
      /\ svc' = svc /\ cache' = cache /\ pending' = pending
  BY DEF TInv, AllGood, ready, world
<1>2. WorkerGood(worker')
  <2>1. 0 \in 0..MaxFailures /\ 0 < MaxFailures
    BY TaxiAssumption
  <2>2. worker' \in Workers /\ worker'.kept = worker.kept /\ worker'.failures = 0
    BY <1>1, <2>1 DEF WorkerGood, Workers
  <2> QED
    BY <1>1, <2>1, <2>2 DEF WorkerGood
<1> QED
  BY <1>1, <1>2 DEF TInv, AllGood

LEMMA RemoveAtFacts ==
  ASSUME NEW S, NEW s \in Seq(S), NEW i \in 1..Len(s)
  PROVE  RemoveAt(s, i) \in Seq(S) /\ Len(RemoveAt(s, i)) = Len(s) - 1
<1> DEFINE front == SubSeq(s, 1, i - 1)
           n == Len(s)
           back == SubSeq(s, i + 1, n)
<1>1. n \in Nat /\ i \in 1..n /\ \A k \in 1..n : s[k] \in S
  BY LenProperties, ElementOfSeq
<1> HIDE DEF n
<1>2. front \in Seq(S) /\ Len(front) = i - 1
  <2>1. 1 \in Int /\ i - 1 \in Int /\ \A k \in 1..(i - 1) : s[k] \in S
    BY <1>1
  <2>2. front \in Seq(S) /\ Len(front) = IF 1 <= i - 1 THEN i - 1 - 1 + 1 ELSE 0
    BY <2>1, SubSeqProperties
  <2> HIDE DEF front
  <2> QED
    BY <1>1, <2>2
<1>3. back \in Seq(S) /\ Len(back) = n - i
  <2>1. i + 1 \in Int /\ n \in Int /\ \A k \in (i + 1)..n : s[k] \in S
    BY <1>1
  <2>2. back \in Seq(S) /\ Len(back) = IF i + 1 <= n THEN n - (i + 1) + 1 ELSE 0
    BY <2>1, SubSeqProperties
  <2> HIDE DEF back
  <2> QED
    BY <1>1, <2>2
<1>4. RemoveAt(s, i) = front \o back
  BY DEF RemoveAt, n
<1> HIDE DEF front, back
<1>5. front \o back \in Seq(S) /\ Len(front \o back) = Len(front) + Len(back)
  BY <1>2, <1>3, ConcatProperties, Zenon
<1>6. Len(front \o back) = n - 1
  <2>1. (i - 1) + (n - i) = n - 1
    BY <1>1
  <2> QED
    BY <1>2, <1>3, <1>5, <2>1, Zenon
<1> QED
  BY <1>4, <1>5, <1>6 DEF n

\* The worker keeps no more networks than it may.
LEMMA KeptFacts ==
  ASSUME NEW S, NEW kept \in Seq(S), NEW key \in S, Len(kept) <= KeptNetworks
  PROVE  /\ KeptLast(kept, key) \in Seq(S) /\ Len(KeptLast(kept, key)) <= KeptNetworks + 1
         /\ Trimmed(KeptLast(kept, key)) \in Seq(S)
         /\ Len(Trimmed(KeptLast(kept, key))) <= KeptNetworks
<1> DEFINE had == {i \in DOMAIN kept : kept[i] = key}
           at == CHOOSE i \in had : TRUE
           rest == IF had = {} THEN kept ELSE RemoveAt(kept, at)
           last == Append(rest, key)
<1>0. KeptNetworks \in Nat \ {0} /\ Len(kept) \in Nat /\ DOMAIN kept = 1..Len(kept)
      /\ \A i \in 1..Len(kept) : kept[i] \in S
  BY TaxiAssumption, LenProperties, ElementOfSeq
<1>1. rest \in Seq(S) /\ Len(rest) <= KeptNetworks
  <2>1. CASE had = {}
    BY <2>1
  <2>2. CASE had # {}
    <3>1. at \in 1..Len(kept)
      BY <1>0, <2>2
    <3> HIDE DEF at
    <3>2. rest = RemoveAt(kept, at)
      BY <2>2
    <3> HIDE DEF rest, had
    <3> QED
      BY <1>0, <3>1, <3>2, RemoveAtFacts
  <2> QED
    BY <2>1, <2>2
<1>2. KeptLast(kept, key) = last
  BY DEF KeptLast
<1> HIDE DEF rest
<1>3. last \in Seq(S) /\ Len(last) = Len(rest) + 1 /\ Len(rest) \in Nat
  BY <1>1
<1> HIDE DEF last
<1>4. Trimmed(last) \in Seq(S) /\ Len(Trimmed(last)) <= KeptNetworks
  <2>1. CASE Len(last) > KeptNetworks
    <3>1. last # <<>>
      BY <1>0, <1>3, <2>1
    <3> QED
      BY <1>0, <1>1, <1>3, <2>1, <3>1, HeadTailProperties DEF Trimmed
  <2>2. CASE ~(Len(last) > KeptNetworks)
    BY <1>0, <1>3, <2>2 DEF Trimmed
  <2> QED
    BY <2>1, <2>2
<1> QED
  BY <1>0, <1>1, <1>2, <1>3, <1>4

\* The first job is answered, or goes again to the end.
LEMMA AnswerGood ==
  ASSUME TInv, answer
  PROVE  AllGood(svc', cache', pending', worker')
<1> DEFINE job == Head(pending)
           key == KeyOf(job)
           kept == IF job.network THEN KeptLast(worker.kept, key) ELSE worker.kept
           last == Trimmed(kept)
           rest == Tail(pending)
           again == [job EXCEPT !.network = TRUE]
           n == Len(pending)
<1>0. /\ Current(svc, cache) /\ JobsGood(svc, cache, pending) /\ WorkerGood(worker)
      /\ svc \in Services /\ pending \in Seq(Jobs) /\ WantedFit(svc, cache, pending)
      /\ OneWanted(pending)
  BY DEF TInv, AllGood, TypeOK, JobsGood
<1>1. /\ pending # <<>> /\ worker' = [worker EXCEPT !.kept = last] /\ cache' = cache
      /\ \/ pending' = Resent(pending) /\ svc' = svc
         \/ /\ pending' = Tail(pending)
            /\ \E done, found \in BOOLEAN : svc' = Answered(svc, job, done, found)
  BY DEF answer, world
<1>2. /\ n \in Nat \ {0} /\ DOMAIN pending = 1..n /\ \A i \in 1..n : pending[i] \in Jobs
      /\ job = pending[1] /\ job \in Jobs
      /\ rest \in Seq(Jobs) /\ Len(rest) = n - 1 /\ DOMAIN rest = 1..(n - 1)
      /\ \A i \in 1..(n - 1) : rest[i] = pending[i + 1]
  BY <1>0, <1>1, LenProperties, ElementOfSeq, EmptySeq, HeadTailProperties
<1>3. WorkerGood(worker')
  <2>1. key \in Airports \X Networks
    BY <1>2 DEF KeyOf, Jobs, Routes
  <2>2. worker.kept \in Seq(Airports \X Networks) /\ Len(worker.kept) <= KeptNetworks
    BY <1>0 DEF WorkerGood, Workers
  <2>3. last \in Seq(Airports \X Networks) /\ Len(last) <= KeptNetworks
    <3> HIDE DEF key
    <3>1. CASE job.network
      BY <2>1, <2>2, <3>1, KeptFacts
    <3>2. CASE ~job.network
      <4>1. KeptNetworks \in Nat /\ Len(worker.kept) \in Nat
        BY <2>2, TaxiAssumption, LenProperties
      <4> QED
        BY <2>2, <3>2, <4>1 DEF Trimmed
    <3> QED
      BY <3>1, <3>2
  <2> HIDE DEF last
  <2> QED
    BY <1>0, <1>1, <2>3 DEF WorkerGood, Workers
<1>4. CASE pending' = Resent(pending) /\ svc' = svc
  <2> DEFINE all == Append(rest, again)
  <2>1. again \in Jobs /\ again.kind = job.kind /\ again.route = job.route
        /\ again.wanted = job.wanted
    BY <1>2 DEF Jobs
  <2>2. pending' = all
    BY <1>4 DEF Resent
  <2> HIDE DEF again, rest, job, n
  <2>3. /\ all \in Seq(Jobs) /\ DOMAIN all = 1..n
        /\ \A i \in 1..(n - 1) : all[i] = pending[i + 1]
        /\ all[n] = again
    BY <1>2, <2>1
  <2> HIDE DEF all
  <2>4. WantedFit(svc, cache, all)
    <3>1. ASSUME NEW i \in 1..n, all[i].wanted
          PROVE  Fits(svc, cache, all[i])
      <4>1. CASE i = n
        <5>1. all[i] = again /\ job.wanted
          BY <2>1, <2>3, <3>1, <4>1
        <5>2. Fits(svc, cache, job)
          <6>1. 1 \in DOMAIN pending /\ pending[1] = job
            BY <1>2
          <6> QED
            BY <1>0, <5>1, <6>1 DEF WantedFit
        <5>3. Fits(svc, cache, again)
          BY <2>1, <5>2 DEF Fits
        <5> QED
          BY <5>1, <5>3
      <4>2. CASE i # n
        <5>1. i \in 1..(n - 1) /\ i + 1 \in 1..n
          BY <1>2, <3>1, <4>2
        <5> QED
          BY <1>0, <1>2, <2>3, <3>1, <5>1 DEF WantedFit
      <4> QED
        BY <4>1, <4>2
    <3> QED
      BY <2>3, <3>1 DEF WantedFit
  <2>5. OneWanted(all)
    <3>1. all[n].wanted => pending[1].wanted
      BY <1>2, <2>1, <2>3
    <3>2. ASSUME NEW i \in 1..n, i # n, all[i].wanted
          PROVE  i + 1 \in 1..n /\ i + 1 # 1 /\ pending[i + 1].wanted
      <4>1. i \in 1..(n - 1) /\ i + 1 \in 1..n /\ i + 1 # 1
        BY <1>2, <3>2
      <4> QED
        BY <2>3, <3>2, <4>1
    <3>3. ASSUME NEW i \in 1..n, NEW j \in 1..n, all[i].wanted, all[j].wanted
          PROVE  i = j
      <4>1. CASE i = n /\ j # n
        <5>1. 1 \in 1..n /\ pending[1].wanted
          BY <1>2, <3>1, <3>3, <4>1
        <5>2. j + 1 \in 1..n /\ j + 1 # 1 /\ pending[j + 1].wanted
          BY <3>2, <3>3, <4>1
        <5> QED
          BY <1>0, <1>2, <5>1, <5>2 DEF OneWanted
      <4>2. CASE i # n /\ j = n
        <5>1. 1 \in 1..n /\ pending[1].wanted
          BY <1>2, <3>1, <3>3, <4>2
        <5>2. i + 1 \in 1..n /\ i + 1 # 1 /\ pending[i + 1].wanted
          BY <3>2, <3>3, <4>2
        <5> QED
          BY <1>0, <1>2, <5>1, <5>2 DEF OneWanted
      <4>3. CASE i # n /\ j # n
        <5>1. i + 1 = j + 1
          BY <1>0, <1>2, <3>2, <3>3, <4>3 DEF OneWanted
        <5> QED
          BY <5>1
      <4> QED
        BY <4>1, <4>2, <4>3
    <3> QED
      BY <2>3, <3>3 DEF OneWanted
  <2> QED
    BY <1>0, <1>1, <1>3, <1>4, <2>2, <2>3, <2>4, <2>5 DEF AllGood, JobsGood
<1>5. CASE /\ pending' = Tail(pending)
           /\ \E done, found \in BOOLEAN : svc' = Answered(svc, job, done, found)
  <2>1. PICK done \in BOOLEAN, found \in BOOLEAN : svc' = Answered(svc, job, done, found)
    BY <1>5
  <2>2. job.wanted => Fits(svc, cache, job)
    BY <1>0, <1>2 DEF WantedFit
  <2>3. pending' = rest
    BY <1>5
  <2> HIDE DEF job, rest, n
  <2>4. Current(svc', cache)
    BY <1>0, <1>2, <2>1, <2>2, AnsweredCurrent
  <2>5. CASE job.wanted
    <3>1. NoneWanted(rest)
      <4>1. ASSUME NEW i \in 1..(n - 1) PROVE ~rest[i].wanted
        <5>1. i + 1 \in 1..n /\ i + 1 # 1 /\ 1 \in 1..n
          BY <1>2
        <5> QED
          BY <1>0, <1>2, <2>5, <5>1 DEF OneWanted
      <4> QED
        BY <1>2, <4>1 DEF NoneWanted
    <3> QED
      BY <1>1, <1>2, <1>3, <2>3, <2>4, <3>1, NoneWantedGood DEF AllGood
  <2>6. CASE ~job.wanted
    <3>1. svc' = svc
      BY <2>1, <2>6 DEF Answered, TakesAnswer
    <3>2. \A i \in 1..(n - 1) : i + 1 \in 1..n
      BY <1>2
    <3>3. WantedFit(svc, cache, rest)
      BY <1>0, <1>2, <3>2 DEF WantedFit
    <3>4. OneWanted(rest)
      <4>1. ASSUME NEW i \in 1..(n - 1), NEW j \in 1..(n - 1), rest[i].wanted, rest[j].wanted
            PROVE  i = j
        <5>1. i + 1 = j + 1
          BY <1>0, <1>2, <3>2, <4>1 DEF OneWanted
        <5> QED
          BY <1>2, <5>1
      <4> QED
        BY <1>2, <4>1 DEF OneWanted
    <3> QED
      BY <1>0, <1>1, <1>2, <1>3, <2>3, <3>1, <3>3, <3>4 DEF AllGood, JobsGood
  <2> QED
    BY <2>5, <2>6
<1> QED
  BY <1>1, <1>4, <1>5

LEMMA FailureGood ==
  ASSUME TInv, onFailure
  PROVE  AllGood(svc', cache', pending', worker')
<1>0. /\ Current(svc, cache) /\ JobsGood(svc, cache, pending) /\ WorkerGood(worker)
      /\ svc \in Services
  BY DEF TInv, AllGood, TypeOK
<1>1. /\ worker.at # "none" /\ worker' = [NoWorker EXCEPT !.failures = worker.failures + 1]
      /\ pending' = <<>> /\ cache' = cache
      /\ \E done, found \in BOOLEAN : svc' = Rejected(svc, done, found)
  BY DEF onFailure, world
<1>2. PICK done \in BOOLEAN, found \in BOOLEAN : svc' = Rejected(svc, done, found)
  BY <1>1
<1>3. Current(svc', cache)
  BY <1>0, <1>2, RejectedCurrent DEF JobsGood
<1>4. WorkerGood(worker')
  <2>1. worker.failures + 1 \in 0..MaxFailures
    BY <1>0, <1>1, TaxiAssumption DEF WorkerGood, Workers
  <2>2. worker' = [at |-> "none", failures |-> worker.failures + 1, sent |-> {}, kept |-> <<>>]
    BY <1>1 DEF NoWorker
  <2> QED
    BY <2>1, <2>2, TaxiAssumption DEF WorkerGood, Workers
<1>5. pending' \in Seq(Jobs) /\ NoneWanted(pending')
  BY <1>1 DEF NoneWanted
<1> QED
  BY <1>1, <1>3, <1>4, <1>5, NoneWantedGood DEF AllGood

-----------------------------------------------------------------------------
(* The invariant.                                                          *)

LEMMA InitGood == Init => TInv
<1> SUFFICES ASSUME Init PROVE TInv
  OBVIOUS
<1>1. /\ shownFlight \in Flights \cup {None} /\ phase \in {"none", "ground"}
      /\ phase # "none" => shownFlight # None
      /\ pending = <<>> /\ events = 0 /\ troubles = 0
      /\ worker = [NoWorker EXCEPT !.at = "starting"]
  BY DEF Init
<1>2. PICK a \in Airports : cache = [b \in Airports |-> IF b = a THEN 1 ELSE 0]
  BY DEF Init
<1>3. PICK l \in BOOLEAN :
       svc = [boxes |-> None, clearance |-> None, flightId |-> None, icao |-> None,
              segments |-> 0, tracker |-> None, located |-> l, departed |-> FALSE,
              networks |-> [b \in Airports |-> 0], stands |-> {}, standsAsked |-> {},
              rerouteOut |-> FALSE, published |-> None]
  BY DEF Init
<1>4. 0 \in Networks /\ 1 \in Networks /\ MaxFailures \in Nat \ {0} /\ KeptNetworks \in Nat
      /\ 0 \in 0..MaxEvents /\ 0 \in 0..MaxTroubles /\ 0 \in 0..MaxFailures
  BY TaxiAssumption DEF Networks
<1>5. cache \in [Airports -> Networks]
  BY <1>2, <1>4
<1>6. svc \in Services
  <2> DEFINE none == [b \in Airports |-> 0]
  <2>1. none \in [Airports -> Networks]
    BY <1>4
  <2>2. svc = [boxes |-> None, clearance |-> None, flightId |-> None, icao |-> None,
               segments |-> 0, tracker |-> None, located |-> l, departed |-> FALSE,
               networks |-> none, stands |-> {}, standsAsked |-> {},
               rerouteOut |-> FALSE, published |-> None]
    BY <1>3
  <2> HIDE DEF none
  <2> QED
    BY <1>4, <2>1, <2>2 DEF Services
<1>7. svc.tracker = None /\ svc.published = None /\ \A b \in Airports : svc.networks[b] = 0
  BY <1>3
<1>8. Current(svc, cache)
  BY <1>6, <1>7 DEF Current, TrackerHolds, ShownHolds, NetworksAreCurrent
<1>9. WorkerGood(worker)
  <2>1. worker = [at |-> "starting", failures |-> 0, sent |-> {}, kept |-> <<>>]
    BY <1>1 DEF NoWorker
  <2> QED
    BY <1>4, <2>1 DEF WorkerGood, Workers
<1>10. pending \in Seq(Jobs) /\ NoneWanted(pending)
  BY <1>1 DEF NoneWanted
<1>11. JobsGood(svc, cache, pending)
  BY <1>10, NoneWantedGood
<1>12. TypeOK
  BY <1>1, <1>4, <1>5, <1>6, <1>9, <1>10 DEF TypeOK, WorkerGood, Workers
<1> QED
  BY <1>8, <1>9, <1>11, <1>12 DEF TInv, AllGood

\* A step's counters, and what the flights do.
LEMMA WorldTyped ==
  ASSUME TInv, Next
  PROVE  /\ shownFlight' \in Flights \cup {None} /\ phase' \in {"none", "ground", "departed"}
         /\ phase' # "none" => shownFlight' # None
         /\ events' \in 0..MaxEvents /\ troubles' \in 0..MaxTroubles
<1>0. TypeOK
  BY DEF TInv
<1>1. events' \in 0..MaxEvents /\ troubles' \in 0..MaxTroubles
  <2>1. \/ UNCHANGED <<events, troubles>>
        \/ events < MaxEvents /\ events' = events + 1 /\ UNCHANGED troubles
        \/ troubles < MaxTroubles /\ troubles' = troubles + 1 /\ UNCHANGED events
    BY Zenon DEF Next
  <2>2. events \in 0..MaxEvents /\ troubles \in 0..MaxTroubles
    BY <1>0 DEF TypeOK
  <2>3. MaxEvents \in Nat /\ MaxTroubles \in Nat
    BY TaxiAssumption
  <2> QED
    BY <2>1, <2>2, <2>3
<1>2. \/ flightChanges
      \/ UNCHANGED <<shownFlight, phase>>
  BY DEF Next, Event, onTelemetry, ready, answer, standsArrive, standsFail, onState, refreshed,
         onFailure, world
<1>3. CASE UNCHANGED <<shownFlight, phase>>
  BY <1>0, <1>1, <1>3 DEF TypeOK
<1>4. CASE flightChanges
  BY <1>0, <1>1, <1>4 DEF flightChanges, TypeOK
<1> QED
  BY <1>2, <1>3, <1>4

LEMMA StepGood ==
  ASSUME TInv, Next
  PROVE  AllGood(svc', cache', pending', worker') /\ cache' \in [Airports -> Networks]
<1>0. cache \in [Airports -> Networks]
  BY DEF TInv, TypeOK
<1>1. ASSUME cache' = cache, AllGood(svc', cache', pending', worker')
      PROVE  AllGood(svc', cache', pending', worker') /\ cache' \in [Airports -> Networks]
  BY <1>0, <1>1
<1>2. CASE onTelemetry
  BY <1>1, <1>2, TelemetryGood DEF onTelemetry, world
<1>3. CASE ready
  BY <1>1, <1>3, ReadyGood DEF ready, world
<1>4. CASE answer
  BY <1>1, <1>4, AnswerGood DEF answer, world
<1>5. CASE \E a \in Airports : standsArrive(a)
  BY <1>1, <1>5, StandsArriveGood DEF standsArrive, world
<1>6. CASE \E a \in Airports : standsFail(a)
  BY <1>1, <1>6, StandsFailGood DEF standsFail, world
<1>7. CASE \E c \in Clearances : onState(c)
  BY <1>1, <1>7, StateGood DEF onState, world
<1>8. CASE \E a \in Airports : refreshed(a)
  BY <1>8, RefreshedGood
<1>9. CASE flightChanges
  BY <1>0, <1>9 DEF flightChanges, TInv
<1>10. CASE onFailure
  BY <1>1, <1>10, FailureGood DEF onFailure, world
<1> QED
  BY <1>2, <1>3, <1>4, <1>5, <1>6, <1>7, <1>8, <1>9, <1>10 DEF Next, Event

\* However flights, clearances, networks, stands and the worker come and go, the service's
\* fields, the jobs and the worker stay good.
THEOREM TaxiGood == Spec => []TInv
<1>1. TInv /\ [Next]_vars => TInv'
  <2> SUFFICES ASSUME TInv, [Next]_vars PROVE TInv'
    OBVIOUS
  <2>1. CASE Next
    <3>1. AllGood(svc', cache', pending', worker') /\ cache' \in [Airports -> Networks]
      BY <2>1, StepGood
    <3>2. TypeOK'
      BY <2>1, <3>1, WorldTyped
         DEF TypeOK, AllGood, Current, JobsGood, WorkerGood, Workers
    <3> QED
      BY <3>1, <3>2 DEF TInv
  <2>2. CASE UNCHANGED vars
    <3>1. /\ shownFlight' = shownFlight /\ phase' = phase /\ cache' = cache /\ svc' = svc
          /\ worker' = worker /\ pending' = pending /\ events' = events /\ troubles' = troubles
      BY <2>2 DEF vars, world
    <3>2. TypeOK' /\ AllGood(svc', cache', pending', worker')
      BY <3>1 DEF TInv, TypeOK
    <3> QED
      BY <3>2 DEF TInv
  <2> QED
    BY <2>1, <2>2
<1> QED
  BY InitGood, <1>1, PTL DEF Spec

\* Every field of the service, the worker and its jobs has its type; the worker keeps no more
\* than KEPT_NETWORKS.
THEOREM TaxiTypes == Spec => []TypeOK
<1>1. TInv => TypeOK
  BY DEF TInv
<1> QED
  BY TaxiGood, <1>1, PTL

\* At most one answer is still wanted: what is answered late, resent or done by the main thread
\* never races another.  (traceSeq, rerouteOut)
THEOREM OneAnswerAwaited == Spec => []AtMostOneAwaited
<1>1. TInv => AtMostOneAwaited
  <2> SUFFICES ASSUME TInv PROVE AtMostOneAwaited
    OBVIOUS
  <2> DEFINE wanted == {i \in DOMAIN pending : pending[i].wanted}
  <2>1. \A i, j \in wanted : i = j
    BY DEF TInv, AllGood, JobsGood, OneWanted
  <2>2. Cardinality(wanted) \in {0, 1}
    <3>1. CASE wanted = {}
      BY <3>1, FS_EmptySet
    <3>2. CASE wanted # {}
      <4>1. PICK i : wanted = {i}
        BY <2>1, <3>2
      <4> QED
        BY <4>1, FS_Singleton
    <3> QED
      BY <3>1, <3>2
  <2> QED
    BY <2>2 DEF AtMostOneAwaited
<1> QED
  BY TaxiGood, <1>1, PTL

\* A line drawn is the line of its clearance and airport, traced with the stand known now and a
\* network of as many segments as the one known now.
\* (finish, onRefreshed, standsOf)
THEOREM LinesAreOfTheirClearance == Spec => []LineIsOfItsClearance
<1>1. TInv => LineIsOfItsClearance
  <2> SUFFICES ASSUME TInv, Drawn PROVE LineIsOfItsClearance
    BY DEF LineIsOfItsClearance
  <2> DEFINE route == svc.published.line.route
  <2>1. RouteHolds(svc, cache, route) /\ svc.published.clearance = svc.clearance.of
        /\ svc.published.icao = svc.icao /\ svc \in Services
    BY DEF TInv, AllGood, Current, ShownHolds, Drawn
  <2>2. route.stand \in BOOLEAN
    BY <2>1 DEF Services, Lines, Routes, Drawn
  <2>3. route.clearance \in ForStand => route.stand = (route.icao \in svc.stands)
    BY <2>1, <2>2 DEF RouteHolds
  <2> QED
    BY <2>1, <2>3 DEF LineIsOfItsClearance, RouteHolds
<1> QED
  BY TaxiGood, <1>1, PTL
=============================================================================
