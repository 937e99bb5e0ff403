------------------------------- MODULE Sync --------------------------------
(***************************************************************************)
(* Cloud sync between one account's devices: runSync() of                  *)
(* src/main/sync/sync-engine.ts, the two rules of src/main/db/sync-rows.ts *)
(* and the writes of the repos that give rows their updatedAt.  Tables are *)
(* synced one after the other, parents first; each is pulled, applied and  *)
(* pushed, and its cursor moves when both directions have succeeded.       *)
(*                                                                         *)
(* A device's code runs to its next await, so what comes between the steps *)
(* are the pilot's writes, the other devices, and failures.  The clocks of *)
(* the devices agree, and no two writes happen in the same millisecond:    *)
(* `now` is the time of the last write.  The server is external: it keeps  *)
(* the row with the larger updatedAt and answers a pull with the rows      *)
(* whose updatedAt is after the cursor (FakeSyncServer in                  *)
(* sync-engine.test.ts mirrors it).                                        *)
(***************************************************************************)
EXTENDS Naturals, Sequences

CONSTANTS Devices,
          Rows,         \* sync uuids
          TableOf,      \* the table of each row
          ParentOf,     \* a flight's aircraft, a landing's or invoice's flight
          NoParent,
          Synced,       \* the rows every device and the backend have from earlier syncs
          MaxWrites,    \* bound on the pilot's writes
          MaxFailures   \* bound on the syncs that fail

SYNC_TABLES == <<"aircraft", "flight", "landing", "flightInvoice">>

ASSUME SyncAssumption ==
  /\ TableOf \in [Rows -> {SYNC_TABLES[i] : i \in DOMAIN SYNC_TABLES}]
  /\ ParentOf \in [Rows -> Rows \cup {NoParent}] /\ NoParent \notin Rows
  /\ \A r \in Rows : TableOf[r] # "aircraft" => ParentOf[r] # NoParent
  /\ Synced \subseteq Rows
  /\ \A r \in Synced : ParentOf[r] = NoParent \/ ParentOf[r] \in Synced
  /\ MaxWrites \in Nat /\ MaxFailures \in Nat

VARIABLES local,     \* each device's database: its copy of every row
          cursor,    \* lastSyncedAt per table (0: never, or at the earlier syncs)
          sync,      \* the runSync() of each device, between its awaits
          server,    \* the backend's copy of every row
          now,       \* the time of the last write
          failures   \* syncs that failed so far

vars == <<local, cursor, sync, server, now, failures>>

Tables == {SYNC_TABLES[i] : i \in DOMAIN SYNC_TABLES}
Times == 0..MaxWrites

\* content is the time of the write that a copy reflects, which is its updatedAt when the
\* write set one.  A flight with no aircraft is not linked (free flights).
Copies == [updatedAt : Times, content : Times, linked : BOOLEAN]
NoCopy == [updatedAt |-> 0, content |-> 0, linked |-> FALSE]

Idle == [step |-> "idle", table |-> 1, syncedAt |-> 0, rows |-> [r \in Rows |-> NoCopy]]

TypeOK ==
  /\ local \in [Devices -> [Rows -> Copies]]
  /\ cursor \in [Devices -> [Tables -> Times]]
  /\ sync \in [Devices -> [step : {"idle", "pulling", "pulled", "pushing", "pushed"},
                           table : DOMAIN SYNC_TABLES, syncedAt : Times, rows : [Rows -> Copies]]]
  /\ server \in [Rows -> Copies]
  /\ now \in Times /\ failures \in 0..MaxFailures

Has(d, r) == local[d][r] # NoCopy
HasParent(d, r) == ParentOf[r] = NoParent \/ (ParentOf[r] \in Rows /\ Has(d, ParentOf[r]))
InUse(r) == \E d \in Devices : Has(d, r)

\* Written and synced before all else.
Before == [r \in Rows |-> [NoCopy EXCEPT !.linked = r \in Synced]]

Init ==
  /\ local = [d \in Devices |-> Before]
  /\ cursor = [d \in Devices |-> [t \in Tables |-> 0]]
  /\ sync = [d \in Devices |-> Idle]
  /\ server = Before
  /\ now = 0
  /\ failures = 0

-----------------------------------------------------------------------------
(* The pilot's writes.                                                     *)

Written(linked) == [updatedAt |-> now + 1, content |-> now + 1, linked |-> linked]

write(d, change) ==
  /\ now < MaxWrites
  /\ now' = now + 1
  /\ local' = [local EXCEPT ![d] = change]
  /\ UNCHANGED <<cursor, sync, server, failures>>

\* createAircraft(), createFlight(), createLanding(), addInvoicesForFlight(); a free flight
\* may have no aircraft.
create(d, r) ==
  /\ ~InUse(r)
  /\ \/ HasParent(d, r) /\ write(d, [local[d] EXCEPT ![r] = Written(TRUE)])
     \/ TableOf[r] = "flight" /\ write(d, [local[d] EXCEPT ![r] = Written(FALSE)])

\* Any later change of the row, a deletion included (a tombstone on it).
edit(d, r) ==
  /\ Has(d, r)
  /\ write(d, [local[d] EXCEPT ![r] = Written(@.linked)])

\* Whether the arrival is known is the flight's own business; when it is, the aircraft has
\* moved there, and its row is not marked as changed.
Moved(rows, a) == [rows EXCEPT ![a].content = now + 1]

\* completeFlight().
completeFlight(d, r) ==
  /\ TableOf[r] = "flight" /\ Has(d, r)
  /\ LET rows == [local[d] EXCEPT ![r] = Written(@.linked)]
     IN  write(d, IF local[d][r].linked THEN Moved(rows, ParentOf[r]) ELSE rows)

\* linkAircraftToFlight(): a free flight gets its aircraft afterwards.
linkAircraftToFlight(d, r) ==
  /\ TableOf[r] = "flight" /\ Has(d, r) /\ ~local[d][r].linked /\ HasParent(d, r)
  /\ \E known \in BOOLEAN :
       LET rows == [local[d] EXCEPT ![r] = Written(TRUE)]
       IN  write(d, IF known THEN Moved(rows, ParentOf[r]) ELSE rows)

-----------------------------------------------------------------------------
(* runSync().                                                              *)

table(d) == SYNC_TABLES[sync[d].table]
since(d) == cursor[d][table(d)]

\* Mutant: whatever the server sends is the newer copy.
shouldApplyPulledRow_Always(existing, incoming) == TRUE

shouldApplyPulledRow(existing, incoming) == existing.updatedAt < incoming.updatedAt

rowsChangedSince(d, rows) ==
  {r \in Rows : TableOf[r] = table(d) /\ rows[r].updatedAt > since(d)}

\* serializeFlight() answers null for a flight without an aircraft.
Serialized(d, rows) == {r \in rowsChangedSince(d, rows) : rows[r].linked}

\* A pulled row is skipped when its parent is not here, and rejected when it is no newer.
Applied(d, r) ==
  /\ sync[d].rows[r] # NoCopy
  /\ HasParent(d, r)
  /\ shouldApplyPulledRow(local[d][r], sync[d].rows[r])

Request(d, step, rows) == [sync EXCEPT ![d].step = step, ![d].rows = rows]

\* syncNow(): the button, the timer, the launch or a change; never while one is running.
startSync(d) ==
  /\ sync[d].step = "idle"
  /\ sync' = [sync EXCEPT ![d] = [Idle EXCEPT !.step = "pulling", !.syncedAt = now]]
  /\ UNCHANGED <<local, cursor, server, now, failures>>

\* The backend answers a pull.
serverPull(d) ==
  /\ sync[d].step = "pulling"
  /\ sync' = Request(d, "pulled",
               [r \in Rows |-> IF TableOf[r] = table(d) /\ server[r].updatedAt > since(d)
                               THEN server[r] ELSE NoCopy])
  /\ UNCHANGED <<local, cursor, server, now, failures>>

\* Mutant: one more table after the last.
following_PastTheEnd(d) ==
  [Idle EXCEPT !.step = "pulling", !.table = sync[d].table + 1, !.syncedAt = sync[d].syncedAt]

\* Mutant: a table with nothing to push ends the sync, where it should go on.
following_AfterAPush(d) ==
  IF sync[d].table = Len(SYNC_TABLES) \/ sync[d].step = "pulled" THEN Idle
  ELSE [Idle EXCEPT !.step = "pulling", !.table = sync[d].table + 1, !.syncedAt = sync[d].syncedAt]

\* The request for the next table, if there is one.
following(d) ==
  IF sync[d].table = Len(SYNC_TABLES) THEN Idle
  ELSE [Idle EXCEPT !.step = "pulling", !.table = sync[d].table + 1, !.syncedAt = sync[d].syncedAt]

\* Mutant: the cursor is the time the table is done, not the time the sync began.
nextTable_AtItsEnd(d) ==
  /\ cursor' = [cursor EXCEPT ![d][table(d)] = now]
  /\ sync' = [sync EXCEPT ![d] = following(d)]

\* Both directions succeeded: the cursor moves, and the next table is asked for.
nextTable(d) ==
  /\ cursor' = [cursor EXCEPT ![d][table(d)] = sync[d].syncedAt]
  /\ sync' = [sync EXCEPT ![d] = following(d)]

\* The answer is applied and what this device has changed is sent, with no await between.
applyPulled(d) ==
  /\ sync[d].step = "pulled"
  /\ LET rows == [r \in Rows |-> IF Applied(d, r) THEN sync[d].rows[r] ELSE local[d][r]]
         push == Serialized(d, rows)
     IN  /\ local' = [local EXCEPT ![d] = rows]
         /\ IF push = {} THEN nextTable(d)
            ELSE /\ sync' = Request(d, "pushing",
                                    [r \in Rows |-> IF r \in push THEN rows[r] ELSE NoCopy])
                 /\ UNCHANGED cursor
  /\ UNCHANGED <<server, now, failures>>

\* The backend answers a push: last write wins.
serverPush(d) ==
  /\ sync[d].step = "pushing"
  /\ server' = [r \in Rows |-> IF server[r].updatedAt < sync[d].rows[r].updatedAt
                               THEN sync[d].rows[r] ELSE server[r]]
  /\ sync' = [sync EXCEPT ![d].step = "pushed"]
  /\ UNCHANGED <<local, cursor, now, failures>>

pushed(d) ==
  /\ sync[d].step = "pushed"
  /\ nextTable(d)
  /\ UNCHANGED <<local, server, now, failures>>

\* The network, the session or the process ends in the middle: some of the answer may have
\* been applied, and the backend may have some of what was sent (the batches of a push).
fail(d) ==
  /\ failures < MaxFailures
  /\ failures' = failures + 1
  /\ sync[d].step # "idle"
  /\ sync' = [sync EXCEPT ![d] = Idle]
  /\ \E done \in SUBSET {r \in Rows : sync[d].step = "pulled" /\ Applied(d, r)} :
       local' = [local EXCEPT ![d] = [r \in Rows |-> IF r \in done THEN sync[d].rows[r]
                                                                   ELSE @[r]]]
  /\ \E sent \in SUBSET {r \in Rows : /\ sync[d].step = "pushing"
                                     /\ server[r].updatedAt < sync[d].rows[r].updatedAt} :
       server' = [r \in Rows |-> IF r \in sent THEN sync[d].rows[r] ELSE server[r]]
  /\ UNCHANGED <<cursor, now>>

runSync(d) == startSync(d) \/ serverPull(d) \/ applyPulled(d) \/ serverPush(d) \/ pushed(d)

Next ==
  \E d \in Devices :
    \/ runSync(d) \/ fail(d)
    \/ \E r \in Rows : create(d, r) \/ edit(d, r) \/ completeFlight(d, r)
                       \/ linkAircraftToFlight(d, r)

Spec == Init /\ [][Next]_vars

\* An open, signed-in app syncs every ten minutes and the backend answers; the pilot need
\* not write anything.
FairSpec == Spec /\ \A d \in Devices : WF_vars(runSync(d))

-----------------------------------------------------------------------------
(* Safety.                                                                 *)

\* No step of a device or of the backend replaces a copy of a row by an older one, whichever
\* syncs, answers, pushes and failures come in between ("whichever device ran Sync now second
\* lost its own newer edit, silently", as before shouldApplyPulledRow).
NothingNewerIsLost ==
  [][\A r \in Rows :
       /\ \A d \in Devices : local'[d][r].updatedAt >= local[d][r].updatedAt
       /\ server'[r].updatedAt >= server[r].updatedAt]_vars

\* A write the backend does not have is still to be pushed, whenever it was made and however
\* the syncs around it ended: it is "not lost, just delayed one cycle" (runSync), and a
\* failed attempt is covered by the next (createBackgroundSync).
UnpushedIsPending ==
  \A d \in Devices, r \in Rows :
    local[d][r].linked /\ local[d][r].updatedAt > server[r].updatedAt
      => local[d][r].updatedAt > cursor[d][TableOf[r]]

-----------------------------------------------------------------------------
(* Liveness.                                                               *)

\* The backend catches up with every device again and again, even when syncs fail on the
\* way ("no separate retry/outbox needed").
BackendCatchesUp ==
  \A d \in Devices, r \in Rows :
    []<>(local[d][r].linked => server[r].updatedAt >= local[d][r].updatedAt)

\* startPeriodicSync(): "so a change made on another device arrives without a relaunch".
ChangesArrive ==
  \A d \in Devices, r \in Rows, u \in 1..MaxWrites :
    server[r].updatedAt = u ~> local[d][r].updatedAt >= u
=============================================================================
