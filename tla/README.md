# WingLog in TLA+

Specifications of WingLog (`src/`), the flight logbook that records MSFS flights: what its
core promises, checked by TLC on small instances and, where that is possible, proved by
TLAPS for every instance.

| Module | Models | Extends / uses |
|---|---|---|
| `PhaseStep` | the flight phase machine and the touchdown rule, as step functions | |
| `FlightPhase` | one recorder fed by the sim, with its switches | `PhaseStep` |
| `FlightLifecycle` | abstract: what the logbook promises about the life of a flight | |
| `Tracking` | the tracking controller, its rows, channels, dialogs, failures, restarts | `PhaseStep`, `FlightLifecycle` |
| `Sync` | cloud sync between an account's devices | |
| `CloudSession` | who is signed in while sign-ins, sign-outs and syncs overlap | |
| `NetworkFeed` | reading VATSIM or IVAO: when, how often, and what may be shown of it | |
| `TaxiRoute` | the taxi line and the worker thread that traces it | |
| `LanLink` | the second screen's lookups over its link, and the PC's lanes | |
| `LanServer` | the PC's side: where it listens, its sockets, its flight announcements | |
| `FlightPhaseProofs`, `TrackingProofs`, `SyncProofs`, `CloudSessionProofs`, `NetworkFeedProofs`, `TaxiRouteProofs`, `LanLinkProofs`, `LanServerProofs` | theorems | the module they are named after |
| `MCFlightPhase`, `MCTracking`, `MCSync`, `MCCloudSession`, `MCNetworkFeed`, `MCTaxiRoute`, `MCLanLink`, `MCLanServer` | the constants of the runs | the module they check |

## The system

WingLog is an Electron app. The **main process** is one JavaScript thread: a handler runs
to its next `await`, so what interleaves are handlers, telemetry samples, timers and
answers. Paths below are under `src/src/main/` unless they say otherwise.

| Component | State | Operations | Hard parts | Status |
|---|---|---|---|---|
| Flight phase machine (`tracking/flight-phase-step.ts`, `FlightRecorder.ts`, `touchdown-step.ts`) | phase, four streaks, hasLanded, last recorded time | one step per sample, pause, auto-shutdown switch | streaks that outlive their phase, bounces, go-arounds, starting in the air, resuming anywhere | modelled, proved |
| Tracking controller (`tracking/TrackingController.ts`, `ipc/tracking-handlers.ts`, `AutoStartDetector.ts`) | recorder, landing sequence, liftoff/fuel flags, touchdown state, orphan prompt | start, free flight, resume, stop, finish, each sample, late airfield answers, create/cancel/delete | refused writes in mid-sample, restarts, dialogs answered late, answers out of order | modelled (partly), proved |
| Rows (`db/flight-repo.ts`, `landing-repo.ts`, `aircraft-repo.ts`) | flight, landing, aircraft rows, tombstones, `updatedAt` | status changes, upserts, deletions | several statements without a transaction | the parts that tracking and sync use |
| Cloud sync (`sync/sync-engine.ts`, `db/sync-rows.ts`) | cursor per table, rows, the backend's rows | pull, apply, push, per table in dependency order | writes between awaits, several devices, failures halfway | modelled, proved |
| Sync session (`sync/cloud-sync-controller.ts`, `backend/session-store.ts`) | session, stored session, `syncing`, first-sync copies | login, signup, logout, syncNow, restart | logout or login during a sync, expired session, a copy that fails | modelled, proved |
| Track cleanup, route, landing scores | stored points | passes at completion | geometry | not modelled |
| Online feed (`online/NetworkFeedService.ts`, `feed-poll-step.ts`, `traffic-layers.ts`) | poll state, snapshot, generation, timers, ATIS waiters | refresh, tick, answers, timers, atisAt | late answers, back-off, network switches, the networks' rate limit | modelled (partly), proved |
| BeyondATC (`beyondatc/`) | attempts, dropped levels, request in flight | step climb, altitude request, arrival card | late answers across flights, timeouts | not modelled |
| LAN second screen, page (`src/src/lan-client/lan-connection.ts`) | link state, queues, shared lookups, kept answers | query, answers, retries, drops, watchdog, pairing | lookups lost or doubled over a drop, slots counted on both sides | modelled (partly), proved |
| LAN second screen, PC (`lan/LanController.ts`, `lan/LanServer.ts`) | settings, queue of reconciles, server, sockets, last flight told | reconcile, listen, upgrade, authenticate, heartbeat, announce | values read before an await, sockets that die silently, a hello between a change and its announcement | modelled (partly), proved |
| Taxi route (`taxi/TaxiRouteService.ts`, `worker-trace-runner.ts`, `trace-worker.ts`) | clearance, line, networks, stands, the worker's jobs | new clearance, telemetry, refresh, stands, answers, worker death | late or resent worker answers, a worker that forgets or dies | modelled (partly), proved |
| Sim, GSX, navdata, updates, window, storage, lookups, renderer, shared algorithms | | | native or external peers, I/O, geometry, views | not modelled (reasons in `PROJECT.json`) |

How they interact: the sim emits samples and pause events to the tracking controller,
which steps the recorder and writes rows synchronously, and to the taxi route; the windows
call channels, and a
confirm dialog leaves time between a question and its answer; the auto-start watch calls
`start()`; the sim answers a question about a touchdown's airfield later; every write
schedules a background sync, which reads the rows and the per-table cursors and talks to
the backend, as the other devices do, under whichever session is signed in. The online feed
and the second screen follow the settings and the flight shown; a second screen's lookups
run the same handlers as a window's.

## The models

### `PhaseStep` and `FlightPhase`

Every `from...()` function of `flight-phase-step.ts` is an operator of that name from state
and sample to state; `stepPhase` is their composition with the pause/slew guard, the parked
check and the recording interval. A sample keeps what the thresholds tell apart: which
speed thresholds are passed, the vertical speed band, the height band, and the flags. The
sustained-sample numbers are constants, so the runs use small ones and the proofs cover the
real ones (10, 30, 3, 10). `FlightPhase` adds the recorder's two switches and three history
variables: `run` (how long the flight has really been level, descending and airborne),
`last` (what the last sample showed) and `tick`, which turns with every sample. None feeds back.
Without `tick` a repeated sample that changes nothing would be a stuttering step, fairness
would demand a different one, and no aircraft could stay parked. `Init` starts in every phase,
since a resume starts the recorder in the phase of the last stored point. The runway check
is a field of the sample (`offRunway`).

### `Tracking` and `FlightLifecycle`

State: `db`, the flight rows with their landings; `tc`, the fields of `TrackingController`;
`pending`, the airfield questions the sim has not answered; `app`, the auto-start watch, the
orphan captured at startup and the open Cancel dialog; the last sample. A sample is one
action: `handleTelemetry` is a chain of stages, one per statement of the handler, each of
which does nothing once an earlier one has thrown. A refused write throws out of the
handler and leaves what was set before it, exactly as the code does; `Refusing` bounds how
many handlers meet one. So it is with every call: `Refusable` are the writes that may be
refused, those of a sample (`SampleWrites`), any deletion, the row of a started flight, the
memory of an aircraft, and the two of "Fly", abandoning the old plans and creating the new
one. The setting "Finish flights automatically" is read with each sample (`AutoFinish`). Each
channel of `tracking-handlers.ts` is an action, with the
renderer's dialogs as modal state. `restart` loses everything but `db`.

`FlightLifecycle` is the abstract specification: a flight is planned or active, completes
once, and once gone stays gone; a step may let several flights go but moves at most one
forward. `LifecycleSpec` is checked under a refinement mapping of the rows, without refused
writes and with any but one: a refused `createFlight()` leaves the watch armed for the plan
that was just abandoned, which it then revives (see "Other disagreements").

Modelled as nondeterminism: whether the recording interval is over (`Due`), whether an
airport is near (`near`), whether the vendored data knows the runway (`runway`), when the
sim answers and whether it matches. Left out: pause intervals, the departure and flight
number of a free flight, the live-jump check (it deletes points the model does not tell
apart), the queue of track points that a refused write leaves in memory (only the last
stored point is kept), the location revert of a deletion, the retired/unknown aircraft
refusals (they throw before anything changes).

### `Sync`

One `runSync` per device between its awaits: `startSync`, then per table `serverPull`,
`applyPulled` (which also sends, since no await lies between), `serverPush`, `pushed`. The
pilot's writes, the other devices and `fail` come in between. A row is its `updatedAt`, its
content (the time of the write it reflects) and, for a flight, whether it has an aircraft;
a deletion is a write, since it is a tombstone. `now` counts writes: the model takes the
devices' clocks to agree and no two writes to share a millisecond, so clock skew is out of
scope. The backend is external and behaves as `FakeSyncServer` in
`sync/sync-engine.test.ts`: last write wins, and a pull answers what is after the cursor.
`Synced` are rows that everybody has from earlier syncs, so that few writes reach far.
Left out: the aliasing of registrations, aircraft replacement, rows too large to push, JSON
validation (a row that does not validate is skipped like one without its parent). The
batches of a push are one request that a failure may cut anywhere.

### `CloudSession`

The two copies of the session (in memory and in the file), the one sync that may be out and
the session it was begun with, and the sign-ins and sign-outs that are out. Each call is
split at its await: `login`/`loggedIn`, `logout`/`loggedOut`, `syncNow`/`synced`, `refused`,
`syncFails`. The Settings page disables its buttons for one visit only, so a sign-in of each
account and several sign-outs may overlap. The backend accepts the tokens in `live`; it may
end any of them at any time. A machine without a keychain cannot store a session
(`keychain`), which fails the login after the session is already in memory. `unsynced` is the
age of the newest local change relative to the sync that is out. Left out: what the status
shows besides who is signed in, and the rows, which are `Sync`'s.

### `NetworkFeed`

Time passes in ticks: a time that the code remembers is its age, capped where it stops
mattering, and a timer is the ticks it has left. `svc` is the service's fields with
`PollState`; `requests` are the fetches on their way, each with whether its generation is
still current; `quiet` is the networks' own clock since the last request, which the code does
not have. `wanted`, `Due` and `tick` translate `feed-poll-step.ts`; `refresh`, `onSuccess`,
`onFailure`, `markUnavailable`, `atisAt` and `answerWaiters` the service. Every handler ends
in `Ticked`, since in the code each ends in `tick()`. A feed is the network it is of. Left
out: the pilot's own status, the stations and the ATC layer (derived from the same feed at
the same moments), parsers, sim traffic.

### `TaxiRoute`

`svc` is `TaxiRouteService`'s fields and what it last published; `pending` the jobs the
worker holds, in order; `worker` how far it has started, how often it died and which networks
it was sent and has kept. Instead of sequence numbers a job says whether its answer is still
wanted. A route is what it was traced from: clearance, airport, version of the network, and
whether the stand was known. A network is a version with a length (`LengthOf`), since
`onRefreshed` compares lengths; the key under which a network is sent to the worker is its
airport and version, where the code has one for each time it was read (a network read again
unchanged is sent again). `Submit` is posted, refused or fails to start; in the last two
cases the main thread searches at once. `answer` is the worker's turn: it keeps or drops
networks, asks for one it has dropped (`Resent`), or answers. `onFailure` rejects every job,
and this thread traces what is still wanted of them. Left out: the tracing itself and the
reading of clearances; whether the aircraft has left the line or reached its end is anyone's
choice.

### `LanLink`

The page's link (`current`, `socket`, `code`, `token`, `retry`), its lookups (`queues`,
`waiters`, `sharing`, `kept`) and what became of each call of `query()` (`page`); on the PC's
side the lookups of this socket it has not answered (`jobs`) and whether it knows the device
(`known`). One action is one callback of the page: a socket event, a timer or a call. Every
handler that may free a slot ends in `sendWaiting`, which also hands the PC what was sent
(`handleQuery`). Timers may fire whenever they are armed. Left out: topics, the track,
commands, the rate limit.

### `LanServer`

`reconcile` is split at its awaits (`routing`, `stopping`, `starting`); settings and addresses
change in between, and further reconciles wait in `syncs`. A socket's record says whether it
is open, has said hello, answered the last ping and has been sent the flight shown; `gone`
are the devices that went away without a word. The flight shown is its key (`lanFlightKey`):
its id with what the devices are told of it, so that a key can come back. `sentFlightId` and
`lastFlightKey` are the code's; `round`, the key at the last round of pings, and `excused`,
the keys that were told in part only, are history. Left out: the pairing
window's attempts, the rate limit, static files, topics and commands, the planned route.

## Runs

Runs check deadlock, except `session` and `lan_link`: there everybody may be signed out, and
the page closed or refused, with nothing left to do. Every run finishes within three minutes
on two workers.

| Run | Shows | Bounds |
|---|---|---|
| `phase` | the rules for cruise, descent and go-around see consecutive samples (`StreaksAreRuns`, `NoHastyTransition`); landed stays landed; parked for good shuts down; flying for good is found flying | thresholds 4/5/3/4, every kind of sample |
| `tracking_flights` | the rows implement `FlightLifecycle`, whichever writes are refused but that of `createFlight()`; until one is, the recorded flight is the active one | two flights, samples on the ground and in the air, one restart, one sample or call with refused writes (one of them, or all), the automatic finish on or off |
| `tracking_circuits` | every touchdown has its own landing, a climb has its liftoff, an arrival never goes back; a flight in `shutdown` is completed | one flight, two touchdowns, one pause, one restart, points skipped, one refused completion |
| `sync` | no write is passed over by a cursor (`UnpushedIsPending`); no copy is replaced by an older one, on a device or at the backend; the backend catches up | two devices, a synced aircraft and a flight to come, two writes, one failed sync |
| `session` | what is stored is what is in use; no account syncs before its copy; a dead token is noticed; changes are synced | two accounts, three sign-ins, two sign-outs out together, three troubles |
| `feed` | the floor between requests holds; only the chosen network is shown; how old the feed of an ATIS can be; the reading goes on | the code's times in ticks of 7.5 s, two back-off steps, two changes, one ATIS request |
| `taxi` | at most one answer is awaited; a drawn line is its clearance's; a line gets drawn | two flights between two airports, a clearance of each kind, four events, networks of equal and of another length, one death of the worker and a start that fails, one network kept |
| `lan_link` | no lookup is lost, doubled or joined after its end; a busy refusal is a late lookup's doing; whoever asks is told | two asks that share and one that does not, one slot, two tries, two troubles |
| `lan_server` | the server ends where the settings say; dead and silent sockets give their slots back; a round of pings leaves every paired device with the flight shown, unless its key was told in part | three sockets of two addresses for two slots, one home address, two ports; no flight at first, then a plan or the same flight tracked; two troubles or changes of the flight |

Three runs show what a comment of the code says and the code does not do (`findings` in
`PROJECT.json` quotes each); their instances are the smallest that show it:

| Run | What TLC finds |
|---|---|
| `sync_change_arrives` | a change dated before another device's cursor and pushed after it is never pulled there |
| `feed_atis_age` | a wait for an ATIS that times out is answered from a held feed a minute old or more |
| `lan_flight` | a hello between a change of the flight and the heartbeat keeps the change from the other devices |

Why the bounds are enough. The phase thresholds are different from each other and large enough
that a streak can be cut at every point; the theorems cover all of them. In `Tracking` the
streaks only lengthen behaviours, so they are 1; two flights let one replace another in every
way; two touchdowns and a restart give a resume between the first and the second, with an answer
to either outstanding. The two flights of `tracking_flights` take off and come back in two kinds
of sample, since what a circuit writes is `tracking_circuits`' subject. In `Sync` two writes are
two conflicting edits of the aircraft, a flight's creation and completion, or its creation and
its aircraft's linking; the theorems cover more. In `CloudSession` three sign-ins put one
account between two of another. In `NetworkFeed` two changes are a switch away and back, or a
VID cleared and entered, at every tick of a request, a back-off or a wait; the timeout is one
tick, so a switch can come within it. In `TaxiRoute` four events are a flight, a clearance, a
refreshed network and a clearance that replaces the first, with jobs of each out; after its one
death the worker may fail to start and is then given up. In `LanLink` one slot makes every pair
of lookups compete; two troubles are a drop and another during the reconnect. In `LanServer` two
slots for three sockets let the limit bite and a phone come back before its old socket is given
up; two changes are a flight that a tracked point announces and that ends before the next
heartbeat, or a plan that is then tracked under the same id. Symmetry is used in
`tracking_flights` only, which checks no liveness: flights are interchangeable.

Fairness, per module, is what the code's own timers and loops give:

- `FlightPhase`, `Tracking`: the sim keeps sending samples (1 Hz while connected), so weak
  fairness on a sample with no refused write, because a full disk does not last; nobody need
  press a button.
- `Sync`: an open, signed-in app syncs every ten minutes and each request is answered or
  fails; no fairness on writes or failures, which are bounded.
- `CloudSession`: the same timer, and each call to the backend ends.
- `NetworkFeed`: time passes, timers fire, and a request ends, if only by its timeout.
- `TaxiRoute`: a worker starts or dies and answers what it is sent; samples keep coming.
- `LanLink`: timers fire and a socket opens, greets or closes. Nothing makes the PC answer a
  lookup, so `LookupsEnd` rests on the page's timers alone.
- `LanServer`: the queue and the intervals run, and a socket that is closed says so. Devices
  need not answer anything.

Each property of a passing run has a mutant (`PROJECT.json`): a `..._Suffix` operator just
before the definition it replaces, with a bug someone could write there.

## Proofs

Every type invariant, safety invariant and action property of the runs is stated by a
theorem, for every value of the constants under the named assumptions of the module it is
about, which TLC evaluates on every run:

| Assumption | Says |
|---|---|
| `ThresholdsAssumption`, `SamplesAssumption`, `TrackingAssumption` | streak lengths are positive; samples are telemetry; settings are Boolean; what may be refused are writes; bounds are natural |
| `SyncAssumption` | every row but an aircraft has a parent; what is synced has its parent synced |
| `SessionAssumption`, `NoneAssumption` | at least one sign-out may be out; no session is no token |
| `FeedAssumption`, `TimesAssumption` | at least two back-off steps; a request's timeout (10 s) is below the floor (15 s) and the ATIS wait (27 s); the back-off (30, 60, ... s) starts at no less than the floor, and its second step is no shorter than the stale time (45 s) |
| `TaxiAssumption` | airports of each flight; kinds of clearance are disjoint; every network has a length, 0 for none only; the networks kept, their versions and the deaths allowed are positive |
| `LinkAssumption`, `ServerAssumption` | every ask has its lane, every socket its address, every key its flight; slots, tries and sockets are positive |

Some theorems have a hypothesis besides: no refused write (`MaxRefusals = 0`) or none of
`createFlight()` (`"create" \notin Refusable`), finitely many flights, or no more slots on the
page than on the PC; each is named below. Every invariant is
strengthened to one that is inductive, and one lemma per action (per statement, in a
sample's case) shows that the step keeps it.

`FlightPhaseProofs`: `StreaksAreRuns` is about three of the four streaks (of the fourth,
`groundStreak`, it is not true). It is not inductive, because a streak is carried through
phases that neither count nor clear it. `StreaksFit` says for every phase which streaks are
still zero and which equal or are bounded by their run; with `TypeOK` it is inductive
(`InductiveInvariant`), and one lemma per phase function shows that a sample keeps it. From
it: `TypeCorrect`, `StreaksAreRunsAlways`, and the action properties
`NoHastyTransitionEver` and `LandedStaysLandedAlways`.

`TrackingProofs`: `ImplementsLifecycle` is the refinement, for any flights, samples, restarts
and refused writes but `createFlight()`'s, with which the refinement fails.
Its invariant `IInv` is small: rows and fields have the columns the proof reads (`Shapes`), the
recorded flight has begun (`RecordedHasBegun`), the watch is armed for a plan that can still be
flown, or at worst for one replaced by a plan that was then refused, and never while the orphan
prompt is open (`ArmedIsPlanned`), and a dialog is about a flight that exists
(`AskedAboutExists`). A
sample's stages are followed one lemma each: until the completion they leave status,
deletion and recorder alone (`Carried`), and the completion moves the flight once
(`Completed`). The middle two are theorem `WatchAndRecorder`; `RecordedIsActive` is
`TrackedIsActive` while no write is refused (`MaxRefusals = 0`), without which a completion
whose follow-up throws keeps the recorder.

`LandingsAreRight` and `LiftoffsAreRight` are `EveryTouchdownHasItsLanding` and
`ClimbIsRecorded` while no write is refused, for any finite set of flights. On top of `IInv`
the books must agree: a row that is not deleted has exactly the landings of its touchdowns,
and none before it begins, and a stored climb has its liftoff (`RowsBooked`), so that
counting rows on a resume gives the right sequence; the controller counts the same
touchdowns and knows of no liftoff the row does not (`RecorderBooked`); a question still
open about a touchdown carries that touchdown's own sequence number (`QuestionsBooked`), so
that its late answer stores what is there. In the middle of a sample a climb has its
liftoff only from `recordOff` on (`Climbing`). With the arrival among the books,
`ArrivalsMoveOn` is `ArrivalNeverGoesBack`: a late answer writes it only while its landing is
the last. `PromptIsRight` (`PromptIsOfItsFlight`) needs no hypothesis: the orphan prompt is
open only while nothing is recorded and its flight still exists.

`TrackingTypesHold` is `TypeOK`, whatever is refused, for any finite set of flights. What
needs care is `landingSeq`, which no guard bounds: a refused write can leave the recorder as
it is while the next flight starts, so that the number runs on from flight to flight. It is
bounded by the touchdowns of all flights together (`TInv`), each of which advances it once;
rows hold no more landings than their flight has touched (`Numbered`), so a resume may count
them, and a question is about a landing that is stored (`AboutHeld`). That a sample keeps the
recorder's own state typed is `FlightPhaseProofs`' lemma `AdvanceTyped`, taken by `INSTANCE`.

`SyncProofs`: `UnpushedIsPending` is strengthened by three facts. Nothing is dated after
the last write (`TimePasses`); an answer on its way is no newer than the backend
(`AnswersAreOld`), so applying it creates no unpushed write; a push on its way carries every
write of its table that the next cursor would pass over (`PushesAreComplete`), so the
cursor, which is the time the sync began, can move once the push is answered. One lemma per
action shows that the conjunction is kept. `NothingNewerIsLostEver` adds that every copy is
dated (`Dated`), and shows that no step replaces a copy by an older one, on any device or at
the backend.

`CloudSessionProofs`: `StoredIsInUse` and `FirstSyncIsBackedUp` with the types, for any
accounts, tokens and number of calls out together. Strengthened by `RoomForAnswers` (a
sign-in that is out still has a token to come) and `NothingInTheClear` (without a keychain
the file holds no session).

`NetworkFeedProofs`: `FloorHolds` and `OnlyTheChosenIsShown` for any durations. The floor
needs that what the service remembers of its last request is what the networks saw, up to
the floor (`FloorIsKnown`); what is shown needs that a held feed is of the chosen network,
also before it is drawn (`HeldIsChosen`). `AtisIsRecent` needs to follow a held feed through
its failures: at most one request is out, the one last started (`OneRead`); a feed that has
failed twice is only held if the next failure must drop it, and the next read comes within
`KeptFor`, the stale time and the second back-off (`HeldIsFit`); whoever waits while none is
out has a timer that ends it by then (`WaitIsTimed`). The age a waiter may be answered with
is therefore `KeptFor` and one timeout (`Oldest`): the proof failed without the timeout, and
TLC confirmed it with ticks of 5 s. It is what the code keeps to, not what its comment
promises (`feed_atis_age`). `FeedTypesHold` bounds every timer by the longest of the
back-offs and intervals.

`TaxiRouteProofs`: `OneAnswerAwaited`, `LinesAreOfTheirClearance` and `TaxiTypes`, for any
flights, airports and networks. `TInv` says that what is tracked and what is shown is of the
clearance, the airport and the stands known now and of a network as long as the one known now
(`RouteHolds`, `ShownHolds`), that no network is kept longer than it is current
(`NetworksAreCurrent`), that every answer still wanted fits what the service waits for, and that
there is one at most (`Fits`, `OneWanted`). A dead worker's jobs are rejected one after another
by a recursive function; that each leaves the service current (`RejectedCurrent`) is shown by
the least job for which it would not. The proof needed `MaxNetwork >= 1`, now assumed.

`LanLinkProofs`: `LookupsKeepTheirPlaces` and `LinkTypesHold`, for any asks, lanes, keys and slots.
`LInv` says that each lookup is in its lane once, waiting with a try left or out with one
used (`LaneOK`, `QueuesOK`), that the lookups with a place are those somebody waits for, one
for each key (`LookupsOK`), that an ask not yet made has used no try (`Unasked`), that the PC
works on no try to come (`JobsOK`), and that while the link counts as down nothing is out
(`NothingOutWhileDown`), since giving up then forgets what waits and not what is out.
`BusyOnlyWithLate` assumes that the page has no more slots than the PC in each lane, as
`MAX_IN_FLIGHT` and `MAX_PENDING` have it: the PC's unfinished lookups, were none of them late,
would map one to one into the page's slots (`HeldOut`), and there would be room.

`LanServerProofs`: the types, which include the limit on sockets (`SocketsLimited`), and
`ChangeReachesAll`, from `KeyMeansTold`: unless the key last sent is excused, it is the key of
the last round of pings, and every paired device has been sent the flight of that round. A
hello excuses the key it sends to one device; a tracked point that announces another flight
excuses the key of the last round, whose devices no longer have it; a round that finds
another key ends both.

Only model-checked: liveness (`ParkedShutsDown`, `AirborneIsNoticed`, `ShutdownCompletes`,
`BackendCatchesUp`, `DeadTokenIsNoticed`, `ChangesAreSynced`, `FeedKeepsReading`, `LineIsDrawn`,
`LookupsEnd`, `ListensAsSet`, `SlotsComeBack`), since fairness and ENABLED are out of the prover's
reach, and the findings. No module here declares a RECURSIVE operator. Induction over data
is out of reach as well, except where the least counterexample will do, as for the rejected
jobs.

## Other disagreements

Behaviours of several steps that TLC found and that no run repeats; the properties above are
stated so that they do not claim the contrary:

- `groundStreak` keeps its value where `cruise` is left for `descent` with the wheels down, and
  is counted on when `cruise` is reached again: samples that are not in a row add up to a
  landing the machine missed (`flight-phase-step.ts:377`; the comment at `:369` says "in a
  row").
- When `createFlight()` is refused after `abandonAllPlanned()`, `arm()` is not reached and the
  watch stays armed for the plan just abandoned; on the next takeoff position `start()` makes
  that flight active (`ipc/tracking-handlers.ts:184`).
- A sync refused for its token clears the session of a login made while it was out, which the
  backend accepts (`cloud-sync-controller.ts:115`).
- A refreshed taxi network with as many segments as the one before it leaves the line that was
  traced with that one (`TaxiRouteService.ts:183`; the comment at `:180` has "the same network
  again").
- A flight that a tracked point announced and that ends before the next heartbeat brings back
  the key last sent, so `syncFlight` sends nothing and the devices keep the flight that ended
  (`LanServer.ts:559`, `:579`): the other way to break `EveryDeviceIsTold`.

Seen while translating, because each shows in one line of the code:

- `shutDownIfParked` asks for the phase `taxi` and not for `hasLanded`, so a taxi-out that
  parks and shuts its engines down completes the flight ("Only from the post-landing 'taxi'
  phase").
- `startFree` abandons no planned flight, so two can be in progress (`getInProgressFlight`'s
  "one-at-a-time invariant").
- `resume` takes the liftoff for the sign that the departure fuel was corrected, so a resume
  during taxi-out corrects it twice.
- A recorder made while the sim is paused starts unpaused (`paused` "mirrors" it).
- `offRecorded` and `fuelOutFinalized` are set before the write they stand for, so a refused
  one is not tried again.
- A flight whose points all wait in memory has no progress for `start()`, which retires it;
  a completed flight's waiting points are saved only with another flight's.
- The landings of a free flight without an aircraft are pushed, the flight is not.
- `flightCancel` deletes the flight that its dialog asked about without `stop()`, although
  the auto-start watch may have begun it meanwhile (the comment at
  `ipc/tracking-handlers.ts:201` takes it for the path that stops).
- `landingSeq` advances before `addLanding` can be refused (`TrackingController.ts:635`); a
  resume then counts fewer rows than touchdowns and a later landing replaces a stored one.
- `start()` in the air goes from `preflight` to `cruise` or `descent`; the liftoff is recorded
  in `climb` only (`TrackingController.ts:579`), so such a flight has none.
- Tables are pulled parents first, but a flight and its new aircraft may be pushed between
  the two pulls: the flight is then skipped for want of its parent and the cursor passes it
  (`sync-engine.ts:245`, `flight-repo.ts:833`).
- `completeFlight` and `linkAircraftToFlight` move the aircraft without its `updatedAt`
  (`flight-repo.ts:491`, `:318`), so the move is not pushed by itself.
- Per-table cursors outlive a logout and an account switch; a sync that ends after the logout
  writes `lastSyncedAt` again; a `login()` that cannot store the session leaves it in memory.
- IVAO switched off and on again, with the VID cleared, within one request: no snapshot is
  held, so the generation stays and the answer is kept
  (`NetworkFeedService.ts:248`). `markUnavailable` drops the snapshot but not `status`.
- On the page, `resume()` replaces a socket without `holdLookups`, so what was in flight on the
  old one comes back by its timeout only, and a lookup sent before the new socket is open
  throws; `stop()` lets lookups in flight go without an end.
- `LanController.init()` can set its timer after a `stop()`.
- A clearance read while no flight is shown is not traced when one is, until a refresh; stands
  once found are not read again; a re-route that throws on both threads leaves `rerouteOut` set.
- A trigger of `FlightNavdataFetcher` for a key that is being fetched is lost if that fetch
  fails.

## Not modelled, and why

- **BeyondATC**: what could go wrong is the exchange with a program outside the repository
  (the order of its answers, its own flight phases, its socket), of which the source shows one
  side; a model would be mostly that program.
- **Points waiting in memory and pause intervals**: `Tracking` keeps the last stored point of a
  flight, which is what decides a resume; the queue, its limit of 5000 and the intervals
  would multiply its states without changing that.
- **A crash inside a handler**: restarts come between handlers. Several statements without a
  transaction (`flight-repo.ts:491`) are hazards without a property.
- **Second screen**: the pairing window's attempts, the rate limit, topics, commands and
  files are counters and lists beside the sockets.
- **ATC layer, network parsers, the pilot's own status**: derived from the snapshot that
  `NetworkFeed` models, at the same moments.
- **Track cleanup, routes, scores, taxi graphs, navdata geometry, map and simulator units**:
  arithmetic on reals over long arrays; unit tests with numbers say more.
- **Simulator connection, GSX**: native or external peers. Their samples, events and answers
  come in any order in `Tracking`.
- **Import, export, backup**: one transaction each.
- **Updates, storage, window, diagnostics, lookups, IPC registration, renderer**: thin
  wrappers, single requests, and views of state modelled elsewhere.
