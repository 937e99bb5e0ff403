--------------------------- MODULE LanServerProofs ----------------------------
(***************************************************************************)
(* That the server's and the controller's variables keep their types, the  *)
(* limit on sockets included, and that a round of pings leaves every       *)
(* paired device with the flight shown unless its key is excused, for any  *)
(* sockets, limits, addresses, ports and keys.                             *)
(***************************************************************************)
EXTENDS LanServer, TLAPS, FiniteSetTheorems

Single(S) == \A x, y \in S : x = y

Tasks == [step : {"idle", "routing", "stopping", "starting"}, settings : Settings,
          target : SUBSET Homes]

ControlTyped ==
  /\ settings \in Settings
  /\ homes \in SUBSET Homes /\ Single(homes)
  /\ syncs \in 0..MaxSyncs
  /\ task \in Tasks /\ Single(task.target)
  /\ server \in SUBSET Places /\ Single(server) /\ boundTo \in SUBSET Places

ClientRecords == [at : {"none", "open", "closing"}, known : BOOLEAN,
                  alive : BOOLEAN, sees : Keys \cup {None}]

ClientsTyped ==
  /\ client \in [Sockets -> ClientRecords]
  /\ gone \in SUBSET Sockets
  /\ flight \in Keys /\ lastFlightKey \in Keys \cup {None}
  /\ sentFlightId \in {FlightOf[k] : k \in Keys} \cup {None}
  /\ round \in Keys \cup {None} /\ excused \subseteq Keys \cup {None}

SocketsLimited == IsFiniteSet(Clients) /\ Cardinality(Clients) <= MaxSockets

\* The key last sent, unless it is excused, is that of the last round, and every device that
\* is paired has the flight of that key.
KeyMeansTold ==
  lastFlightKey \notin excused =>
    /\ lastFlightKey = round
    /\ round # None => \A s \in Sockets : Paired(s) => client[s].sees = round

IInv == ControlTyped /\ ClientsTyped /\ SocketsLimited /\ KeyMeansTold
        /\ troubles \in 0..MaxTroubles

-----------------------------------------------------------------------------
(* Sets of at most one element, and the limit on sockets.                  *)

LEMMA SingleIsSmall ==
  ASSUME NEW S, Single(S)
  PROVE  Cardinality(S) <= 1
<1>1. CASE S = {}
  <2>1. Cardinality(S) = 0
    BY <1>1, FS_EmptySet, Zenon
  <2> QED
    BY <2>1
<1>2. CASE S # {}
  <2>1. PICK x \in S : S = {x}
    BY <1>2 DEF Single
  <2>2. Cardinality({x}) = 1
    BY FS_Singleton
  <2> QED
    BY <2>1, <2>2
<1> QED
  BY <1>1, <1>2

LEMMA FewerSockets ==
  ASSUME SocketsLimited, Clients' \subseteq Clients
  PROVE  SocketsLimited'
<1>1. IsFiniteSet(Clients) /\ Cardinality(Clients) <= MaxSockets
  BY DEF SocketsLimited
<1>2. IsFiniteSet(Clients') /\ Cardinality(Clients') <= Cardinality(Clients)
  BY <1>1, FS_Subset
<1>3. Cardinality(Clients) \in Nat /\ Cardinality(Clients') \in Nat
  BY <1>1, <1>2, FS_CardinalityType
<1> QED
  BY <1>1, <1>2, <1>3, ServerAssumption DEF SocketsLimited

LEMMA IdleTyped ==
  ASSUME ControlTyped
  PROVE  /\ Idle \in Tasks /\ Single(Idle.target)
         /\ [Idle EXCEPT !.step = "stopping"] \in Tasks
         /\ Single([Idle EXCEPT !.step = "stopping"].target)
<1>1. settings.port \in Ports
  BY DEF ControlTyped, Settings
<1>2. (CHOOSE p \in Ports : TRUE) \in Ports
  BY <1>1
<1> QED
  BY <1>2 DEF Idle, Tasks, Settings, Single

-----------------------------------------------------------------------------
(* The controller's steps, which touch the clients only by terminating     *)
(* them.                                                                   *)

Control == applySettings \/ addressChanges \/ addressCheck \/ Reconcile \/ listenFails

LEMMA WantedTyped ==
  ASSUME ControlTyped
  PROVE  Wanted \in SUBSET Places /\ Single(Wanted)
BY DEF ControlTyped, Tasks, Settings, Wanted, Places, Single

LEMMA ControlKeepsTypes ==
  ASSUME ControlTyped, Control
  PROVE  ControlTyped'
<1>1. CASE applySettings
  BY <1>1, ServerAssumption DEF applySettings, ControlTyped
<1>2. CASE addressChanges
  BY <1>2 DEF addressChanges, ControlTyped, Single
<1>3. CASE addressCheck
  BY <1>3, ServerAssumption DEF addressCheck, ControlTyped
<1>4. CASE reconcile
  <2>1. syncs' \in 0..MaxSyncs
    BY <1>4, ServerAssumption DEF reconcile, ControlTyped
  <2>2. server' \in SUBSET Places /\ Single(server')
    BY <1>4 DEF reconcile, ControlTyped, Stopped, Off, Single
  <2>3. [step |-> "routing", settings |-> settings, target |-> homes] \in Tasks
    BY DEF ControlTyped, Tasks
  <2>4. [step |-> "routing", settings |-> settings, target |-> homes].target = homes
    OBVIOUS
  <2>5. task' \in Tasks /\ Single(task'.target)
    <3>1. CASE ~settings.enabled
      BY <1>4, <3>1, IdleTyped DEF reconcile, ControlTyped
    <3>2. CASE settings.enabled
      BY <1>4, <3>2, <2>3, <2>4 DEF reconcile, ControlTyped
    <3> QED
      BY <3>1, <3>2
  <2> QED
    BY <1>4, <2>1, <2>2, <2>5 DEF reconcile, ControlTyped
<1>5. CASE routeAddress
  <2>1. server' \in SUBSET Places /\ Single(server')
    BY <1>5 DEF routeAddress, ControlTyped, Stopped, Off, Single
  <2>2. /\ [task EXCEPT !.step = "stopping"] \in Tasks
        /\ [task EXCEPT !.step = "stopping"].target = task.target
        /\ [task EXCEPT !.step = "starting"] \in Tasks
        /\ [task EXCEPT !.step = "starting"].target = task.target
    BY DEF ControlTyped, Tasks
  <2>3. task' \in Tasks /\ Single(task'.target)
    BY <1>5, <2>2, IdleTyped DEF routeAddress, ControlTyped
  <2> QED
    BY <1>5, <2>1, <2>3 DEF routeAddress, ControlTyped
<1>6. CASE released
  <2>1. /\ [task EXCEPT !.step = "starting"] \in Tasks
        /\ [task EXCEPT !.step = "starting"].target = task.target
    BY DEF ControlTyped, Tasks
  <2>2. task' \in Tasks /\ Single(task'.target)
    BY <1>6, <2>1, IdleTyped DEF released, ControlTyped
  <2> QED
    BY <1>6, <2>2 DEF released, ControlTyped, Off
<1>7. CASE listen
  BY <1>7, WantedTyped, IdleTyped DEF listen, ControlTyped
<1>8. CASE listenFails
  BY <1>8, IdleTyped DEF listenFails, ControlTyped
<1> QED
  BY <1>1, <1>2, <1>3, <1>4, <1>5, <1>6, <1>7, <1>8 DEF Control, Reconcile

\* No device gets in or is told anything by a step of the controller.
LEMMA ControlSparesClients ==
  ASSUME ClientsTyped, Control
  PROVE  /\ UNCHANGED <<gone, shown>>
         /\ client' \in [Sockets -> ClientRecords]
         /\ \A s \in Sockets : /\ Paired(s)' => Paired(s)
                               /\ client'[s].sees = client[s].sees
                               /\ client'[s].at # "none" => client[s].at # "none"
<1>1. CASE UNCHANGED client /\ UNCHANGED <<gone, shown>>
  BY <1>1 DEF ClientsTyped, Paired, IsOpen
<1>2. CASE Stopped /\ UNCHANGED <<gone, shown>>
  <2>1. client' = [s \in Sockets |-> IF client[s].at = "none" THEN client[s]
                                     ELSE [client[s] EXCEPT !.at = "closing"]]
    BY <1>2 DEF Stopped
  <2>2. \A s \in Sockets : client[s] \in ClientRecords
    BY DEF ClientsTyped
  <2>3. client' \in [Sockets -> ClientRecords]
    BY <2>1, <2>2 DEF ClientRecords
  <2>4. ASSUME NEW s \in Sockets
        PROVE  /\ Paired(s)' => Paired(s)
               /\ client'[s].sees = client[s].sees
               /\ client'[s].at # "none" => client[s].at # "none"
    BY <2>1, <2>2 DEF ClientRecords, Paired, IsOpen
  <2> QED
    BY <1>2, <2>3, <2>4
<1>3. UNCHANGED <<gone, shown>> /\ (UNCHANGED client \/ Stopped)
  BY DEF Control, Reconcile, applySettings, addressChanges, addressCheck, reconcile,
         routeAddress, released, listen, listenFails
<1> QED
  BY <1>1, <1>2, <1>3

LEMMA ControlKeeps ==
  ASSUME IInv, Control, troubles' \in 0..MaxTroubles
  PROVE  IInv'
<1>1. ControlTyped'
  BY ControlKeepsTypes DEF IInv
<1>2. ClientsTyped'
  BY ControlSparesClients DEF IInv, ClientsTyped, shown
<1>3. SocketsLimited'
  <2>1. Clients' \subseteq Clients
    BY ControlSparesClients DEF IInv, Clients
  <2> QED
    BY <2>1, FewerSockets DEF IInv
<1>4. KeyMeansTold'
  BY ControlSparesClients DEF IInv, KeyMeansTold, shown
<1> QED
  BY <1>1, <1>2, <1>3, <1>4 DEF IInv

-----------------------------------------------------------------------------
(* The sockets' steps, which leave the controller alone.                   *)

LEMMA ControlAlone ==
  ASSUME ControlTyped, UNCHANGED control
  PROVE  ControlTyped'
BY DEF ControlTyped, control

\* One socket is let in, and there was room.
LEMMA AcceptKeeps ==
  ASSUME IInv, NEW s \in Sockets, accept(s), UNCHANGED troubles
  PROVE  IInv'
<1> DEFINE new == [NoClient EXCEPT !.at = "open", !.alive = TRUE]
<1>1. /\ client' = [client EXCEPT ![s] = new] /\ UNCHANGED <<control, shown>>
      /\ gone' = gone \ {s} /\ client[s].at = "none" /\ Cardinality(Clients) < MaxSockets
  BY DEF accept, HasRoom
<1>2. new \in ClientRecords /\ new.at = "open" /\ ~new.known
  BY DEF NoClient, ClientRecords
<1> HIDE DEF new
<1>3. ControlTyped'
  BY <1>1, ControlAlone DEF IInv
<1>4. ClientsTyped'
  BY <1>1, <1>2 DEF IInv, ClientsTyped, shown
<1>5. SocketsLimited'
  <2>1. Clients' = Clients \cup {s} /\ s \notin Clients
    BY <1>1, <1>2 DEF IInv, ClientsTyped, Clients
  <2>2. IsFiniteSet(Clients)
    BY DEF IInv, SocketsLimited
  <2>3. /\ IsFiniteSet(Clients \cup {s})
        /\ Cardinality(Clients \cup {s}) = Cardinality(Clients) + 1
    BY <2>1, <2>2, FS_AddElement
  <2>4. Cardinality(Clients) \in Nat
    BY <2>2, FS_CardinalityType
  <2> QED
    BY <1>1, <2>1, <2>3, <2>4, ServerAssumption DEF SocketsLimited
<1>6. KeyMeansTold'
  BY <1>1, <1>2 DEF IInv, ClientsTyped, KeyMeansTold, Paired, IsOpen, shown
<1> QED
  BY <1>1, <1>3, <1>4, <1>5, <1>6 DEF IInv

\* What no step of a socket but accept does is to let one in.
LEMMA NobodyLetInKeeps ==
  ASSUME IInv, UNCHANGED control, ClientsTyped', KeyMeansTold', troubles' \in 0..MaxTroubles,
         \A s \in Sockets : client'[s].at # "none" => client[s].at # "none"
  PROVE  IInv'
<1>1. Clients' \subseteq Clients
  BY DEF Clients
<1> QED
  BY <1>1, ControlAlone, FewerSockets DEF IInv

LEMMA AuthenticateKeeps ==
  ASSUME IInv, NEW s \in Sockets, authenticate(s), UNCHANGED troubles
  PROVE  IInv'
<1>1. /\ client[s] \in ClientRecords /\ client \in [Sockets -> ClientRecords]
      /\ flight \in Keys
  BY DEF IInv, ClientsTyped
<1>2. client' = [client EXCEPT ![s] = [client[s] EXCEPT !.known = TRUE, !.sees = flight]]
  BY DEF authenticate
<1>3. [client[s] EXCEPT !.known = TRUE, !.sees = flight] \in ClientRecords
  BY <1>1 DEF ClientRecords
<1>4. ClientsTyped'
  BY <1>1, <1>2, <1>3 DEF IInv, ClientsTyped, authenticate
<1>6. KeyMeansTold'
  BY DEF KeyMeansTold, authenticate
<1>5. \A t \in Sockets : client'[t].at # "none" => client[t].at # "none"
  BY <1>1, <1>2 DEF ClientRecords, authenticate, IsOpen
<1> QED
  BY <1>4, <1>5, <1>6, NobodyLetInKeeps DEF authenticate, IInv

LEMMA ClosingKeeps ==
  ASSUME IInv, NEW s \in Sockets, IsOpen(s), Closing(s), UNCHANGED <<control, gone, shown>>,
         troubles' \in 0..MaxTroubles
  PROVE  IInv'
<1>1. client[s] \in ClientRecords /\ client \in [Sockets -> ClientRecords]
  BY DEF IInv, ClientsTyped
<1>2. client' = [client EXCEPT ![s] = [client[s] EXCEPT !.at = "closing"]]
  BY DEF Closing
<1>3. [client[s] EXCEPT !.at = "closing"] \in ClientRecords
  BY <1>1 DEF ClientRecords
<1>4. \A t \in Sockets : t # s => client'[t] = client[t]
  BY <1>1, <1>2
<1>5. client'[s].at = "closing"
  BY <1>1, <1>2 DEF ClientRecords
<1>6. ClientsTyped' /\ KeyMeansTold'
  BY <1>1, <1>2, <1>3, <1>4, <1>5 DEF IInv, ClientsTyped, KeyMeansTold, Paired, IsOpen, shown
<1>7. \A t \in Sockets : client'[t].at # "none" => client[t].at # "none"
  BY <1>4 DEF IsOpen
<1> QED
  BY <1>6, <1>7, NobodyLetInKeeps

LEMMA ClosedKeeps ==
  ASSUME IInv, NEW s \in Sockets, closed(s), UNCHANGED troubles
  PROVE  IInv'
<1>1. client' = [client EXCEPT ![s] = NoClient] /\ client \in [Sockets -> ClientRecords]
  BY DEF IInv, ClientsTyped, closed
<1>2. NoClient \in ClientRecords /\ NoClient.at = "none"
  BY DEF NoClient, ClientRecords
<1>3. \A t \in Sockets : t # s => client'[t] = client[t]
  BY <1>1
<1>4. ClientsTyped' /\ KeyMeansTold'
  BY <1>1, <1>2, <1>3 DEF IInv, ClientsTyped, KeyMeansTold, Paired, IsOpen, shown, closed
<1>5. \A t \in Sockets : client'[t].at # "none" => client[t].at # "none"
  BY <1>1, <1>2, <1>3
<1> QED
  BY <1>4, <1>5, NobodyLetInKeeps DEF closed, IInv

LEMMA PongKeeps ==
  ASSUME IInv, NEW s \in Sockets, pong(s), UNCHANGED troubles
  PROVE  IInv'
<1>1. client[s] \in ClientRecords /\ client \in [Sockets -> ClientRecords]
  BY DEF IInv, ClientsTyped
<1>2. client' = [client EXCEPT ![s] = [client[s] EXCEPT !.alive = TRUE]]
  BY DEF pong
<1>3. [client[s] EXCEPT !.alive = TRUE] \in ClientRecords
  BY <1>1 DEF ClientRecords
<1>4. \A t \in Sockets : /\ client'[t].at = client[t].at /\ client'[t].known = client[t].known
                         /\ client'[t].sees = client[t].sees
  BY <1>1, <1>2 DEF ClientRecords
<1>5. ClientsTyped' /\ KeyMeansTold'
  BY <1>1, <1>2, <1>3, <1>4 DEF IInv, ClientsTyped, KeyMeansTold, Paired, IsOpen, shown, pong
<1> QED
  BY <1>4, <1>5, NobodyLetInKeeps DEF pong, IInv

LEMMA GoAwayKeeps ==
  ASSUME IInv, NEW s \in Sockets, goAway(s), troubles' \in 0..MaxTroubles
  PROVE  IInv'
<1>1. ClientsTyped' /\ KeyMeansTold'
  BY DEF IInv, ClientsTyped, KeyMeansTold, Paired, IsOpen, shown, goAway
<1> QED
  BY <1>1, NobodyLetInKeeps DEF goAway

-----------------------------------------------------------------------------
(* What is told to everyone.                                               *)

LEMMA ToldTells ==
  ASSUME ClientsTyped, NEW s \in Sockets
  PROVE  /\ Told(client)[s] \in ClientRecords
         /\ Told(client)[s].at = client[s].at /\ Told(client)[s].known = client[s].known
         /\ Paired(s) => Told(client)[s].sees = flight
<1>1. client[s] \in ClientRecords /\ flight \in Keys
  BY DEF ClientsTyped
<1>2. Told(client)[s] = IF Paired(s) THEN [client[s] EXCEPT !.sees = flight] ELSE client[s]
  BY DEF Told
<1> QED
  BY <1>1, <1>2 DEF ClientRecords

LEMMA PingedKeeps ==
  ASSUME NEW c \in ClientRecords
  PROVE  /\ Pinged(c) \in ClientRecords
         /\ Pinged(c).known = c.known /\ Pinged(c).sees = c.sees
         /\ Pinged(c).at # "none" => c.at # "none"
         /\ Pinged(c).at = "open" => c.at = "open"
BY DEF ClientRecords, Pinged

\* After a round, whoever is still paired was before it, and has the flight shown unless its
\* key is excused.
LEMMA PingTells ==
  ASSUME IInv, pingClients, NEW s \in Sockets
  PROVE  /\ client'[s] \in ClientRecords
         /\ client'[s].at # "none" => client[s].at # "none"
         /\ Paired(s)' => Paired(s)
         /\ flight \notin excused /\ Paired(s) => client'[s].sees = flight
<1> DEFINE cs == IF FlightChanged THEN Told(client) ELSE client
<1>1. client'[s] = Pinged(cs[s])
  BY DEF pingClients
<1>2. /\ cs[s] \in ClientRecords /\ cs[s].at = client[s].at /\ cs[s].known = client[s].known
      /\ FlightChanged /\ Paired(s) => cs[s].sees = flight
      /\ ~FlightChanged => cs[s] = client[s]
  BY ToldTells DEF IInv, ClientsTyped
<1>3. ASSUME ~FlightChanged, flight \notin excused, Paired(s)
      PROVE  client[s].sees = flight
  <2>1. flight = lastFlightKey /\ flight \in Keys
    BY <1>3 DEF FlightChanged, IInv, ClientsTyped
  <2>2. round = flight /\ round # None
    BY <1>3, <2>1, ServerAssumption DEF IInv, KeyMeansTold
  <2> QED
    BY <1>3, <2>1, <2>2 DEF IInv, KeyMeansTold
<1>4. flight \notin excused /\ Paired(s) => cs[s].sees = flight
  BY <1>2, <1>3
<1> HIDE DEF cs
<1> QED
  BY <1>1, <1>2, <1>4, PingedKeeps DEF Paired, IsOpen

LEMMA PingKeeps ==
  ASSUME IInv, pingClients, UNCHANGED troubles
  PROVE  IInv'
<1>1. client' \in [Sockets -> ClientRecords]
  <2>1. DOMAIN client' = Sockets /\ client' = [s \in Sockets |-> client'[s]]
    BY DEF pingClients
  <2> QED
    BY <2>1, PingTells
<1>2. ClientsTyped'
  BY <1>1 DEF IInv, ClientsTyped, pingClients, FlightChanged
<1>3. KeyMeansTold'
  <2>1. /\ lastFlightKey' = flight /\ round' = flight /\ excused' = excused \cap {flight}
    BY DEF pingClients, FlightChanged
  <2> QED
    BY <2>1, PingTells DEF KeyMeansTold
<1>4. \A s \in Sockets : client'[s].at # "none" => client[s].at # "none"
  BY PingTells
<1> QED
  BY <1>2, <1>3, <1>4, NobodyLetInKeeps DEF pingClients, IInv

LEMMA AnnounceKeeps ==
  ASSUME IInv, announceFlightChange, UNCHANGED troubles
  PROVE  IInv'
<1>1. /\ client' = Told(client) /\ UNCHANGED <<control, gone, flight, lastFlightKey, round>>
      /\ sentFlightId' = FlightOf[flight] /\ excused' = excused \cup {round}
  BY DEF announceFlightChange
<1>2. client' \in [Sockets -> ClientRecords]
  <2>1. DOMAIN client' = Sockets /\ client' = [s \in Sockets |-> client'[s]]
    BY <1>1 DEF Told
  <2> QED
    BY <1>1, <2>1, ToldTells DEF IInv
<1>3. \A s \in Sockets : client'[s].at = client[s].at
  BY <1>1, ToldTells DEF IInv
<1>4. ClientsTyped' /\ KeyMeansTold'
  BY <1>1, <1>2 DEF IInv, ClientsTyped, KeyMeansTold
<1> QED
  BY <1>1, <1>3, <1>4, NobodyLetInKeeps DEF IInv

LEMMA FlightChangesKeeps ==
  ASSUME IInv, flightChanges, troubles' \in 0..MaxTroubles
  PROVE  IInv'
<1>1. ClientsTyped' /\ KeyMeansTold'
  BY DEF IInv, ClientsTyped, KeyMeansTold, Paired, IsOpen, flightChanges
<1> QED
  BY <1>1, NobodyLetInKeeps DEF flightChanges

-----------------------------------------------------------------------------

LEMMA InitIInv == Init => IInv
<1> SUFFICES ASSUME Init
             PROVE  IInv
  OBVIOUS
<1>1. ControlTyped
  <2>1. PICK p : settings.port = p /\ p \in Ports
    BY DEF Init, Settings
  <2>2. (CHOOSE q \in Ports : TRUE) \in Ports
    BY <2>1
  <2>3. Idle \in Tasks /\ Single(Idle.target)
    BY <2>2 DEF Idle, Tasks, Settings, Single
  <2>4. 1 \in 0..MaxSyncs
    BY ServerAssumption
  <2> QED
    BY <2>3, <2>4 DEF Init, ControlTyped, Off, Single
<1>2. ClientsTyped
  BY DEF Init, ClientsTyped, ClientRecords, NoClient
<1>3. SocketsLimited
  <2>1. Clients = {}
    BY DEF Init, Clients, NoClient
  <2>2. IsFiniteSet(Clients) /\ Cardinality(Clients) = 0
    BY <2>1, FS_EmptySet, Zenon
  <2> QED
    BY <2>2, ServerAssumption DEF SocketsLimited
<1> QED
  BY <1>1, <1>2, <1>3, ServerAssumption DEF Init, IInv, KeyMeansTold, Paired, IsOpen

LEMMA NextIInv == IInv /\ [Next]_vars => IInv'
<1> SUFFICES ASSUME IInv, [Next]_vars
             PROVE  IInv'
  OBVIOUS
<1>1. CASE UNCHANGED vars
  <2>1. UNCHANGED <<control, client, gone, shown, troubles>>
    BY <1>1 DEF vars
  <2>2. ClientsTyped' /\ KeyMeansTold'
    BY <2>1 DEF IInv, ClientsTyped, KeyMeansTold, Paired, IsOpen, shown
  <2> QED
    BY <2>1, <2>2, NobodyLetInKeeps DEF IInv
<1>2. CASE Trouble /\ troubles < MaxTroubles /\ troubles' = troubles + 1
  <2>1. troubles' \in 0..MaxTroubles
    BY <1>2, ServerAssumption DEF IInv
  <2>2. CASE applySettings \/ addressChanges \/ listenFails
    BY <2>1, <2>2, ControlKeeps DEF Control
  <2>3. CASE \E s \in Sockets : goAway(s)
    BY <2>1, <2>3, GoAwayKeeps
  <2>4. CASE \E s \in Sockets : denied(s)
    BY <2>1, <2>4, ClosingKeeps DEF denied
  <2>5. CASE flightChanges
    BY <2>1, <2>5, FlightChangesKeeps
  <2> QED
    BY <1>2, <2>2, <2>3, <2>4, <2>5 DEF Trouble
<1>3. CASE (Reconcile \/ addressCheck) /\ UNCHANGED troubles
  BY <1>3, ControlKeeps DEF Control, IInv
<1>4. CASE \E s \in Sockets : Device(s) /\ UNCHANGED troubles
  <2>1. PICK s \in Sockets : Device(s) /\ UNCHANGED troubles
    BY <1>4
  <2>2. CASE authTimer(s)
    BY <2>1, <2>2, ClosingKeeps DEF authTimer, IInv
  <2> QED
    BY <2>1, <2>2, AcceptKeeps, AuthenticateKeeps, PongKeeps, ClosedKeeps DEF Device
<1>5. CASE (pingClients \/ announceFlightChange) /\ UNCHANGED troubles
  BY <1>5, PingKeeps, AnnounceKeeps
<1> QED
  BY <1>1, <1>2, <1>3, <1>4, <1>5 DEF Next

\* The inductive invariant holds in every state of every run of the server.
THEOREM ServerInvariant == Spec => []IInv
BY InitIInv, NextIInv, PTL DEF Spec

LEMMA IInvTypes == IInv => TypeOK
<1> SUFFICES ASSUME IInv
             PROVE  TypeOK
  OBVIOUS
<1>1. Cardinality(homes) <= 1 /\ Cardinality(server) <= 1
  BY SingleIsSmall DEF IInv, ControlTyped
<1>2. Cardinality({s \in Sockets : client[s].at # "none"}) <= MaxSockets
  BY DEF IInv, SocketsLimited, Clients
<1> QED
  BY <1>1, <1>2 DEF IInv, ControlTyped, ClientsTyped, Tasks, ClientRecords, TypeOK

\* The types of the server's and the controller's variables: it listens in one place at most,
\* and handleUpgrade never lets in more than MAX_SOCKETS sockets.
THEOREM ServerTyped == Spec => []TypeOK
BY ServerInvariant, IInvTypes, PTL

\* A round of pings leaves every paired device with the flight shown, whatever was shown, told
\* and announced before it, unless its key is excused: told in part, to a device that said
\* hello or before a tracked point announced another flight.
THEOREM RoundTellsAll == Spec => ChangeReachesAll
<1>1. IInv /\ [Next]_vars =>
        [pingClients /\ flight \notin excused =>
           \A s \in Sockets : Paired(s) => client'[s].sees = flight]_vars
  BY PingTells
<1> QED
  BY <1>1, ServerInvariant, PTL DEF Spec, ChangeReachesAll
=============================================================================
