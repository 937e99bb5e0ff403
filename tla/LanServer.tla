----------------------------- MODULE LanServer ------------------------------
(***************************************************************************)
(* The PC's side of the second screen: LanController of                    *)
(* src/main/lan/LanController.ts, which makes the server listen where the  *)
(* settings and the PC's addresses say, and the sockets, heartbeats and    *)
(* flight announcements of src/main/lan/LanServer.ts.                      *)
(*                                                                         *)
(* A reconcile runs to its next await, so settings, addresses and devices  *)
(* change in between; reconciles are queued and never overlap.  Lookups    *)
(* are LanLink's subject, and a device that says hello either is paired or *)
(* is refused.  Of the flight shown its key is kept (lan-flight.ts): its   *)
(* id with what the devices are told of it.  Keys come back: a flight that *)
(* ends leaves the one planned before it.  The app's end is the end of the *)
(* process.                                                                *)
(***************************************************************************)
EXTENDS Naturals, FiniteSets

CONSTANTS Sockets,
          AddressOf,         \* the network address a socket connects from
          MaxSockets,        \* MAX_SOCKETS
          MaxUnauthenticated,\* MAX_UNAUTHENTICATED_PER_ADDRESS
          Homes,             \* the home-network addresses the PC may have
          Ports,
          Keys,              \* the keys the flight shown may have, that of no flight included
          FlightOf,          \* the id in a key, None when no flight is shown
          Tracked,           \* the keys of flights being tracked
          None,
          MaxSyncs,          \* bound on the reconciles that wait
          MaxTroubles        \* bound on what befalls devices, ports and flights: see Trouble

ASSUME ServerAssumption ==
  /\ DOMAIN AddressOf = Sockets
  /\ MaxSockets \in Nat \ {0} /\ MaxUnauthenticated \in Nat \ {0}
  /\ MaxSyncs \in Nat \ {0} /\ MaxTroubles \in Nat
  /\ DOMAIN FlightOf = Keys /\ Tracked \subseteq {k \in Keys : FlightOf[k] # None}
  /\ None \notin Keys

VARIABLES settings,   \* the second-screen settings
          homes,      \* the address chooseAddress() finds now, if any
          syncs,      \* reconciles that wait in the queue
          task,       \* the reconcile that runs, between its awaits
          server,     \* where the server listens
          boundTo,    \* where the controller thinks it does
          client,     \* each socket, as the server knows it
          gone,       \* the sockets whose device has silently gone away
          flight,     \* the key of the flight shown (lanFlightKey)
          sentFlightId, lastFlightKey,
          round,      \* the key at the last round of pings
          excused,    \* keys that were partly told: see ChangeReachesAll
          troubles

control == <<settings, homes, syncs, task, server, boundTo>>
shown == <<flight, sentFlightId, lastFlightKey, round, excused>>
vars == <<control, client, gone, shown, troubles>>

Off == {}                      \* nowhere; a place is the set of one address and port
Places == Homes \X Ports
Listening == server # Off

Settings == [enabled : BOOLEAN, port : Ports]

NoClient == [at |-> "none", known |-> FALSE, alive |-> FALSE, sees |-> None]
Idle == [step |-> "idle", settings |-> [enabled |-> FALSE, port |-> CHOOSE p \in Ports : TRUE],
         target |-> {}]

TypeOK ==
  /\ settings \in Settings
  /\ homes \in SUBSET Homes /\ Cardinality(homes) <= 1
  /\ syncs \in 0..MaxSyncs
  /\ task \in [step : {"idle", "routing", "stopping", "starting"}, settings : Settings,
               target : SUBSET Homes]
  /\ server \in SUBSET Places /\ Cardinality(server) <= 1 /\ boundTo \in SUBSET Places
  /\ client \in [Sockets -> [at : {"none", "open", "closing"}, known : BOOLEAN,
                             alive : BOOLEAN, sees : Keys \cup {None}]]
  /\ gone \in SUBSET Sockets
  /\ flight \in Keys /\ lastFlightKey \in Keys \cup {None}
  /\ sentFlightId \in {FlightOf[k] : k \in Keys} \cup {None}
  /\ round \in Keys \cup {None} /\ excused \subseteq Keys \cup {None}
  /\ Cardinality({s \in Sockets : client[s].at # "none"}) <= MaxSockets
  /\ troubles \in 0..MaxTroubles

Init ==
  /\ settings \in Settings
  /\ \E h \in Homes : homes = {h}
  /\ syncs = 1 /\ task = Idle
  /\ server = Off /\ boundTo = Off
  /\ client = [s \in Sockets |-> NoClient]
  /\ gone = {}
  /\ flight \in Keys /\ sentFlightId = None /\ lastFlightKey = None
  /\ round = None /\ excused = {}
  /\ troubles = 0

-----------------------------------------------------------------------------
(* The controller.                                                         *)

\* applySettings(): stored, and a reconcile asked for.
applySettings ==
  /\ settings' \in Settings \ {settings}
  /\ syncs < MaxSyncs /\ syncs' = syncs + 1
  /\ UNCHANGED <<homes, task, server, boundTo, client, gone, shown>>

\* The PC joins another network, or leaves it; nobody tells the controller.
addressChanges ==
  /\ homes' \in {{h} : h \in Homes} \cup {{}} /\ homes' # homes
  /\ UNCHANGED <<settings, syncs, task, server, boundTo, client, gone, shown>>

addressCheck ==
  /\ syncs = 0 /\ syncs' = 1
  /\ UNCHANGED <<settings, homes, task, server, boundTo, client, gone, shown>>

\* server.stop(), up to its await: every socket is terminated.
Stopped ==
  /\ server' = Off
  /\ client' = [s \in Sockets |-> IF client[s].at = "none" THEN client[s]
                                  ELSE [client[s] EXCEPT !.at = "closing"]]

\* reconcile() reads the settings and the addresses, and waits for the route.
reconcile ==
  /\ syncs > 0 /\ task.step = "idle" /\ syncs' = syncs - 1
  /\ \/ /\ ~settings.enabled
        /\ IF Listening THEN Stopped /\ task' = [Idle EXCEPT !.step = "stopping"]
                        ELSE UNCHANGED <<server, client, task>>
     \/ /\ settings.enabled
        /\ task' = [step |-> "routing", settings |-> settings, target |-> homes]
        /\ UNCHANGED <<server, client>>
  /\ UNCHANGED <<settings, homes, boundTo, gone, shown>>

Wanted == {<<h, task.settings.port>> : h \in task.target}

\* Mutant: only the address is compared.
UpToDate_AnyPort == Listening /\ \A p \in boundTo, w \in Wanted : p[1] = w[1]

UpToDate == Listening /\ boundTo = Wanted

routeAddress ==
  /\ task.step = "routing"
  /\ \/ /\ task.target = {}
        /\ IF Listening THEN Stopped /\ task' = [Idle EXCEPT !.step = "stopping"]
                        ELSE UNCHANGED <<server, client>> /\ task' = Idle
     \/ /\ task.target # {} /\ UpToDate
        /\ task' = Idle /\ UNCHANGED <<server, client>>
     \/ /\ task.target # {} /\ ~UpToDate
        /\ IF Listening THEN Stopped /\ task' = [task EXCEPT !.step = "stopping"]
                        ELSE UNCHANGED <<server, client>> /\ task' = [task EXCEPT !.step = "starting"]
  /\ UNCHANGED <<settings, homes, syncs, boundTo, gone, shown>>

\* The rest of release(): a reconcile with somewhere to go goes on to listen.
released ==
  /\ task.step = "stopping"
  /\ boundTo' = Off
  /\ task' = IF task.target = {} THEN Idle ELSE [task EXCEPT !.step = "starting"]
  /\ UNCHANGED <<settings, homes, syncs, server, client, gone, shown>>

listen ==
  /\ task.step = "starting" /\ task' = Idle
  /\ server' = Wanted /\ boundTo' = Wanted
  /\ UNCHANGED <<settings, homes, syncs, client, gone, shown>>

\* The port is in use, or the address is gone: a problem for the status.
listenFails ==
  /\ task.step = "starting" /\ task' = Idle
  /\ UNCHANGED <<settings, homes, syncs, server, boundTo, client, gone, shown>>

-----------------------------------------------------------------------------
(* The sockets.                                                            *)

Clients == {s \in Sockets : client[s].at # "none"}
IsOpen(s) == client[s].at = "open"
Paired(s) == IsOpen(s) /\ client[s].known

Unpaired(s) == {t \in Clients : ~client[t].known /\ AddressOf[t] = AddressOf[s]}

\* Mutant: the limit is passed by one.
HasRoom_OneMore(s) ==
  Cardinality(Clients) <= MaxSockets /\ Cardinality(Unpaired(s)) < MaxUnauthenticated

\* handleUpgrade(): what it takes for a socket to be let in.
HasRoom(s) ==
  Cardinality(Clients) < MaxSockets /\ Cardinality(Unpaired(s)) < MaxUnauthenticated

accept(s) ==
  /\ Listening /\ client[s].at = "none" /\ HasRoom(s)
  /\ client' = [client EXCEPT ![s] = [NoClient EXCEPT !.at = "open", !.alive = TRUE]]
  /\ gone' = gone \ {s}
  /\ UNCHANGED <<control, shown>>

\* Hello (again, perhaps) with a token the PC knows: the snapshot holds the flight shown.
authenticate(s) ==
  /\ IsOpen(s) /\ s \notin gone
  /\ client' = [client EXCEPT ![s].known = TRUE, ![s].sees = flight]
  /\ sentFlightId' = FlightOf[flight]
  /\ lastFlightKey' = flight
  /\ excused' = excused \cup {flight}
  /\ UNCHANGED <<control, gone, flight, round>>

Closing(s) == client' = [client EXCEPT ![s].at = "closing"]

\* A token it does not know, a wrong code, or the device was revoked meanwhile.
denied(s) ==
  /\ IsOpen(s) /\ Closing(s)
  /\ UNCHANGED <<control, gone, shown>>

authTimer(s) ==
  /\ IsOpen(s) /\ ~client[s].known /\ Closing(s)
  /\ UNCHANGED <<control, gone, shown>>

\* The socket's close event: the device's own doing, or after the server closed it.
closed(s) ==
  /\ client[s].at # "none"
  /\ client' = [client EXCEPT ![s] = NoClient]
  /\ gone' = gone \ {s}
  /\ UNCHANGED <<control, shown>>

goAway(s) ==
  /\ IsOpen(s) /\ s \notin gone
  /\ gone' = gone \cup {s}
  /\ UNCHANGED <<control, client, shown>>

pong(s) ==
  /\ IsOpen(s) /\ ~client[s].alive /\ s \notin gone
  /\ client' = [client EXCEPT ![s].alive = TRUE]
  /\ UNCHANGED <<control, gone, shown>>

\* Every paired device is sent the flight shown.
Told(cs) == [s \in Sockets |-> IF Paired(s) THEN [cs[s] EXCEPT !.sees = flight] ELSE cs[s]]

\* Mutant: a socket that never answers is only pinged again.
Pinged_Forgiving(c) == IF c.at = "open" THEN [c EXCEPT !.alive = FALSE] ELSE c

Pinged(c) ==
  IF c.at # "open" THEN c
  ELSE IF c.alive THEN [c EXCEPT !.alive = FALSE]
  ELSE [c EXCEPT !.at = "closing"]

\* Mutant: only another flight is a change.
FlightChanged_ById == FlightOf[flight] # sentFlightId

FlightChanged == flight # lastFlightKey

\* pingClients(): the flight again if its key is not the one last sent, then the pings.
pingClients ==
  /\ Listening
  /\ LET cs == IF FlightChanged THEN Told(client) ELSE client
     IN  client' = [s \in Sockets |-> Pinged(cs[s])]
  /\ sentFlightId' = IF FlightChanged THEN FlightOf[flight] ELSE sentFlightId
  /\ lastFlightKey' = IF FlightChanged THEN flight ELSE lastFlightKey
  /\ round' = flight /\ excused' = excused \cap {flight}
  /\ UNCHANGED <<control, gone, flight>>

\* A tracked point of a flight the devices have not been told about.
announceFlightChange ==
  /\ Listening /\ flight \in Tracked /\ FlightOf[flight] # sentFlightId
  /\ sentFlightId' = FlightOf[flight]
  /\ client' = Told(client)
  /\ excused' = excused \cup {round}
  /\ UNCHANGED <<control, gone, flight, lastFlightKey, round>>

\* Tracking starts or ends, a plan is imported, or the flight shown is edited.
flightChanges ==
  /\ flight' \in Keys \ {flight}
  /\ UNCHANGED <<control, client, gone, sentFlightId, lastFlightKey, round, excused>>

-----------------------------------------------------------------------------

Reconcile == reconcile \/ routeAddress \/ released \/ listen
Device(s) == accept(s) \/ authenticate(s) \/ pong(s) \/ authTimer(s) \/ closed(s)

Trouble ==
  \/ applySettings \/ addressChanges \/ listenFails \/ flightChanges
  \/ \E s \in Sockets : goAway(s) \/ denied(s)

Next ==
  \/ (Reconcile \/ addressCheck \/ (\E s \in Sockets : Device(s))
      \/ pingClients \/ announceFlightChange) /\ UNCHANGED troubles
  \/ Trouble /\ troubles < MaxTroubles /\ troubles' = troubles + 1

Spec == Init /\ [][Next]_vars

\* The queue and the two intervals run, timers fire, and a closed socket says so.  (A check
\* waits in the queue at most once, so each Reconcile comes in its turn.)
Closes(s) == authTimer(s) \/ (client[s].at = "closing" /\ closed(s))
Fairness ==
  /\ WF_vars((Reconcile \/ addressCheck) /\ UNCHANGED troubles)
  /\ WF_vars(pingClients /\ UNCHANGED troubles)
  /\ \A s \in Sockets : WF_vars(Closes(s) /\ UNCHANGED troubles)

FairSpec == Spec /\ Fairness

-----------------------------------------------------------------------------

\* Once people and networks leave it alone, the server listens exactly where the settings and
\* the PC's address say, and the status shows that place, whatever reconciles were waiting,
\* read settings that have changed since, or failed.  (LanController)
Target == {<<h, settings.port>> : h \in {x \in homes : settings.enabled}}
ListensAsSet == <>[](server = Target /\ boundTo = Target)

\* A slot held by a device that went away unnoticed, or that never says who it is, is given
\* back, so a few locked phones cannot keep the rest out.  (pingClients, the auth timer)
SlotsComeBack ==
  \A s \in Sockets : /\ (s \in gone) ~> (client[s].at = "none")
                     /\ (IsOpen(s) /\ ~client[s].known) ~> ~(IsOpen(s) /\ ~client[s].known)

\* A round leaves every paired device with the flight shown, whatever was shown, told and
\* announced before.  Excused are the keys that were told in part only: the one shown when a
\* device said hello, and the one of the last round once a tracked point has announced
\* another flight; each until a round finds another key.  (syncFlight, announceFlightChange)
ChangeReachesAll ==
  [][pingClients /\ flight \notin excused =>
       \A s \in Sockets : Paired(s) => client'[s].sees = flight]_vars

\* "Sends every paired device the flight again when the one shown, or its details, changed
\* since they were last told" (syncFlight): no key is excused.  The code breaks it in two
\* ways, after a hello and when a key comes back.
EveryDeviceIsTold ==
  [][pingClients => \A s \in Sockets : Paired(s) => client'[s].sees = flight]_vars
=============================================================================
