---------------------------- MODULE SyncProofs -----------------------------
(***************************************************************************)
(* That no write is forgotten by a device's cursor and none is overwritten *)
(* by an older one, for every number of devices, rows, writes and failures.*)
(***************************************************************************)
EXTENDS Sync, TLAPS

\* Nothing is dated after the last write, so a new write is after every cursor and sync.
TimePasses ==
  /\ \A d \in Devices, t \in Tables : cursor[d][t] <= now
  /\ \A d \in Devices : sync[d].syncedAt <= now

\* An answer on its way is no newer than what the backend has.
AnswersAreOld ==
  \A d \in Devices, r \in Rows :
    sync[d].step = "pulled" => sync[d].rows[r].updatedAt <= server[r].updatedAt

Unpushed(d, r) == local[d][r].linked /\ local[d][r].updatedAt > server[r].updatedAt

\* A push on its way carries every write of its table that the backend lacks and that the
\* next cursor would pass over; once it is answered, no such write is left.
PushesAreComplete ==
  \A d \in Devices, r \in Rows :
    TableOf[r] = table(d) /\ Unpushed(d, r) /\ local[d][r].updatedAt <= sync[d].syncedAt
      => /\ sync[d].step # "pushed"
         /\ sync[d].step = "pushing" => sync[d].rows[r].updatedAt = local[d][r].updatedAt

IInv == TypeOK /\ TimePasses /\ AnswersAreOld /\ PushesAreComplete /\ UnpushedIsPending

-----------------------------------------------------------------------------
(* The pilot's writes.                                                     *)

\* What a change of one device's database may do to it: each row is as it was, as far as
\* updatedAt and the link go, or newly written.
Touches(d, change) ==
  /\ change \in [Rows -> Copies]
  /\ \A r \in Rows : \/ change[r].updatedAt = now + 1
                     \/ /\ change[r].updatedAt = local[d][r].updatedAt
                        /\ change[r].linked = local[d][r].linked

LEMMA WrittenTyped ==
  ASSUME TypeOK, now < MaxWrites, NEW linked \in BOOLEAN
  PROVE  Written(linked) \in Copies /\ Written(linked).updatedAt = now + 1
BY SyncAssumption DEF TypeOK, Written, Copies, Times

LEMMA WriteTouches ==
  ASSUME TypeOK, now < MaxWrites, NEW d \in Devices, NEW r \in Rows, NEW linked \in BOOLEAN
  PROVE  Touches(d, [local[d] EXCEPT ![r] = Written(linked)])
<1>1. local[d] \in [Rows -> Copies]
  BY DEF TypeOK
<1> QED
  BY <1>1, WrittenTyped DEF Touches

LEMMA MovedTouches ==
  ASSUME TypeOK, now < MaxWrites, NEW d \in Devices, NEW change, Touches(d, change), NEW a \in Rows
  PROVE  Touches(d, Moved(change, a))
<1>1. now + 1 \in Times
  BY SyncAssumption DEF TypeOK, Times
<1>2. /\ Moved(change, a) \in [Rows -> Copies]
      /\ \A r \in Rows : /\ Moved(change, a)[r].updatedAt = change[r].updatedAt
                         /\ Moved(change, a)[r].linked = change[r].linked
  BY <1>1 DEF Moved, Touches, Copies
<1> QED
  BY <1>2 DEF Touches

\* Each of the writes touches one device's database, at the next time.
LEMMA PilotWrites ==
  ASSUME TypeOK, NEW d \in Devices, NEW r \in Rows,
         create(d, r) \/ edit(d, r) \/ completeFlight(d, r) \/ linkAircraftToFlight(d, r)
  PROVE  \E change : now < MaxWrites /\ Touches(d, change) /\ write(d, change)
<1>1. local[d][r].linked \in BOOLEAN
  BY DEF TypeOK, Copies
<1>2. TableOf[r] = "flight" => \/ ParentOf[r] \in Rows
                               \/ ParentOf[r] = NoParent
  BY SyncAssumption
<1>3. TableOf[r] = "flight" => ParentOf[r] \in Rows
  BY <1>2, SyncAssumption
<1>4. CASE create(d, r)
  BY <1>4, WriteTouches DEF create, write
<1>5. CASE edit(d, r)
  <2>1. write(d, [local[d] EXCEPT ![r] = Written(local[d][r].linked)])
    BY <1>5 DEF edit, TypeOK
  <2> QED
    BY <1>1, <2>1, WriteTouches DEF write
<1>6. CASE completeFlight(d, r)
  <2> DEFINE rows == [local[d] EXCEPT ![r] = Written(local[d][r].linked)]
  <2>1. write(d, rows) \/ write(d, Moved(rows, ParentOf[r]))
    BY <1>6 DEF completeFlight, TypeOK
  <2>2. now < MaxWrites
    BY <2>1 DEF write
  <2>3. Touches(d, rows)
    BY <1>1, <2>2, WriteTouches
  <2>4. Touches(d, Moved(rows, ParentOf[r]))
    BY <1>3, <1>6, <2>2, <2>3, MovedTouches DEF completeFlight
  <2> HIDE DEF rows
  <2> QED
    BY <2>1, <2>2, <2>3, <2>4
<1>7. CASE linkAircraftToFlight(d, r)
  <2> DEFINE rows == [local[d] EXCEPT ![r] = Written(TRUE)]
  <2>1. write(d, rows) \/ write(d, Moved(rows, ParentOf[r]))
    BY <1>7 DEF linkAircraftToFlight
  <2>2. now < MaxWrites
    BY <2>1 DEF write
  <2>3. Touches(d, rows)
    BY <2>2, WriteTouches
  <2>4. Touches(d, Moved(rows, ParentOf[r]))
    BY <1>3, <1>7, <2>2, <2>3, MovedTouches DEF linkAircraftToFlight
  <2> HIDE DEF rows
  <2> QED
    BY <2>1, <2>2, <2>3, <2>4
<1> QED
  BY <1>4, <1>5, <1>6, <1>7

\* A write is dated after every cursor and every sync, so the next push takes it.
LEMMA WriteKeepsIInv ==
  ASSUME IInv, NEW d \in Devices, NEW change, now < MaxWrites, Touches(d, change), write(d, change)
  PROVE  IInv'
<1>1. /\ now' = now + 1 /\ now \in Nat /\ local' = [local EXCEPT ![d] = change]
      /\ UNCHANGED <<cursor, sync, server, failures>>
  BY SyncAssumption DEF write, IInv, TypeOK, Times
<1>2. TypeOK'
  <2>1. now' \in Times
    BY <1>1, SyncAssumption DEF Times
  <2>2. local' \in [Devices -> [Rows -> Copies]]
    BY <1>1 DEF Touches, IInv, TypeOK
  <2> QED
    BY <1>1, <2>1, <2>2 DEF IInv, TypeOK
<1>3. \A e \in Devices, r \in Rows :
        \/ local'[e][r].updatedAt = now + 1
        \/ /\ local'[e][r].updatedAt = local[e][r].updatedAt
           /\ local'[e][r].linked = local[e][r].linked
  BY <1>1 DEF Touches, IInv, TypeOK
<1>4. /\ \A e \in Devices, t \in Tables : cursor[e][t] \in Nat /\ cursor[e][t] <= now
      /\ \A e \in Devices : sync[e].syncedAt \in Nat /\ sync[e].syncedAt <= now
  BY SyncAssumption DEF IInv, TypeOK, TimePasses, Times
<1>5. TimePasses'
  BY <1>1, <1>4 DEF TimePasses
<1>6. AnswersAreOld'
  BY <1>1 DEF IInv, AnswersAreOld
<1>7. ASSUME NEW e \in Devices, NEW r \in Rows, Unpushed(e, r)'
      PROVE  \/ Unpushed(e, r) /\ local'[e][r].updatedAt = local[e][r].updatedAt
             \/ local'[e][r].updatedAt = now + 1
  BY <1>1, <1>3, <1>7 DEF Unpushed
<1>8. PushesAreComplete'
  <2> SUFFICES ASSUME NEW e \in Devices, NEW r \in Rows,
                      TableOf[r] = table(e), Unpushed(e, r)',
                      local'[e][r].updatedAt <= sync[e].syncedAt
               PROVE  /\ sync[e].step # "pushed"
                      /\ sync[e].step = "pushing" => sync[e].rows[r].updatedAt = local'[e][r].updatedAt
    BY <1>1 DEF PushesAreComplete, table
  <2>1. local'[e][r].updatedAt # now + 1
    BY <1>1, <1>4
  <2>2. Unpushed(e, r) /\ local'[e][r].updatedAt = local[e][r].updatedAt
    BY <1>7, <2>1
  <2> QED
    BY <2>2 DEF IInv, PushesAreComplete
<1>9. UnpushedIsPending'
  <2> SUFFICES ASSUME NEW e \in Devices, NEW r \in Rows, Unpushed(e, r)'
               PROVE  local'[e][r].updatedAt > cursor[e][TableOf[r]]
    BY <1>1 DEF UnpushedIsPending, Unpushed
  <2>1. TableOf[r] \in Tables
    BY SyncAssumption DEF Tables
  <2>2. CASE local'[e][r].updatedAt = now + 1
    BY <1>1, <1>4, <2>1, <2>2
  <2>3. CASE Unpushed(e, r) /\ local'[e][r].updatedAt = local[e][r].updatedAt
    BY <2>3 DEF IInv, UnpushedIsPending, Unpushed
  <2> QED
    BY <1>7, <2>2, <2>3
<1> QED
  BY <1>2, <1>5, <1>6, <1>8, <1>9 DEF IInv

-----------------------------------------------------------------------------
(* The steps of runSync().                                                 *)

LEMMA TableTyped ==
  ASSUME TypeOK, NEW d \in Devices
  PROVE  table(d) \in Tables
BY SMTT(30) DEF TypeOK, table, Tables, SYNC_TABLES

LEMMA NoCopyTyped == NoCopy \in Copies /\ NoCopy.updatedAt = 0 /\ ~NoCopy.linked
BY SyncAssumption DEF NoCopy, Copies, Times

LEMMA IdleTyped ==
  /\ Idle \in [step : {"idle", "pulling", "pulled", "pushing", "pushed"},
               table : DOMAIN SYNC_TABLES, syncedAt : Times, rows : [Rows -> Copies]]
  /\ Idle.step = "idle" /\ Idle.syncedAt = 0
<1>1. 1 \in DOMAIN SYNC_TABLES /\ 0 \in Times
  BY SyncAssumption DEF SYNC_TABLES, Times
<1>2. [r \in Rows |-> NoCopy] \in [Rows -> Copies]
  BY NoCopyTyped
<1> QED
  BY <1>1, <1>2 DEF Idle

LEMMA StartKeepsIInv ==
  ASSUME IInv, NEW d \in Devices, startSync(d)
  PROVE  IInv'
<1> DEFINE started == [Idle EXCEPT !.step = "pulling", !.syncedAt = now]
<1>1. /\ sync' = [sync EXCEPT ![d] = started]
      /\ UNCHANGED <<local, cursor, server, now, failures>>
  BY DEF startSync
<1>2. /\ started \in [step : {"idle", "pulling", "pulled", "pushing", "pushed"},
                     table : DOMAIN SYNC_TABLES, syncedAt : Times, rows : [Rows -> Copies]]
      /\ started.step = "pulling" /\ started.syncedAt = now
  <2>1. now \in Times
    BY DEF IInv, TypeOK
  <2> QED
    BY <2>1, IdleTyped
<1> HIDE DEF started
<1>3. TypeOK'
  BY <1>1, <1>2 DEF IInv, TypeOK
<1>4. /\ \A e \in Devices : e # d => sync'[e] = sync[e]
      /\ sync'[d].step = "pulling" /\ sync'[d].syncedAt = now
  BY <1>1, <1>2 DEF IInv, TypeOK
<1>5. TimePasses' /\ AnswersAreOld' /\ UnpushedIsPending'
  BY <1>1, <1>4, SyncAssumption
     DEF IInv, TypeOK, TimePasses, AnswersAreOld, UnpushedIsPending, Times
<1>6. PushesAreComplete'
  <2> SUFFICES ASSUME NEW e \in Devices, NEW r \in Rows,
                      TableOf[r] = table(e)', Unpushed(e, r)',
                      local'[e][r].updatedAt <= sync'[e].syncedAt
               PROVE  /\ sync'[e].step # "pushed"
                      /\ sync'[e].step = "pushing"
                           => sync'[e].rows[r].updatedAt = local'[e][r].updatedAt
    BY DEF PushesAreComplete
  <2>1. CASE e = d
    BY <1>4, <2>1
  <2>2. CASE e # d
    BY <1>1, <1>4, <2>2 DEF IInv, PushesAreComplete, Unpushed, table
  <2> QED
    BY <2>1, <2>2
<1> QED
  BY <1>3, <1>5, <1>6 DEF IInv

LEMMA ServerPullKeepsIInv ==
  ASSUME IInv, NEW d \in Devices, serverPull(d)
  PROVE  IInv'
<1> DEFINE answer == [r \in Rows |-> IF TableOf[r] = table(d) /\ server[r].updatedAt > since(d)
                                     THEN server[r] ELSE NoCopy]
<1>1. /\ sync' = [sync EXCEPT ![d].step = "pulled", ![d].rows = answer]
      /\ UNCHANGED <<local, cursor, server, now, failures>>
  BY DEF serverPull, Request
<1>2. /\ answer \in [Rows -> Copies]
      /\ \A r \in Rows : answer[r].updatedAt <= server[r].updatedAt
  BY NoCopyTyped, SyncAssumption DEF IInv, TypeOK, Copies, Times
<1> HIDE DEF answer
<1>3. TypeOK'
  BY ZenonT(60), <1>1, <1>2 DEF IInv, TypeOK
<1>4. /\ \A e \in Devices : e # d => sync'[e] = sync[e]
      /\ sync'[d].step = "pulled" /\ sync'[d].rows = answer
      /\ sync'[d].syncedAt = sync[d].syncedAt
  BY <1>1 DEF IInv, TypeOK
<1>5. TimePasses' /\ AnswersAreOld' /\ UnpushedIsPending'
  BY <1>1, <1>2, <1>4 DEF IInv, TimePasses, AnswersAreOld, UnpushedIsPending
<1>6. PushesAreComplete'
  <2> SUFFICES ASSUME NEW e \in Devices, NEW r \in Rows,
                      TableOf[r] = table(e)', Unpushed(e, r)',
                      local'[e][r].updatedAt <= sync'[e].syncedAt
               PROVE  /\ sync'[e].step # "pushed"
                      /\ sync'[e].step = "pushing"
                           => sync'[e].rows[r].updatedAt = local'[e][r].updatedAt
    BY DEF PushesAreComplete
  <2>1. CASE e = d
    BY <1>4, <2>1
  <2>2. CASE e # d
    <3>1. sync'[e] = sync[e] /\ local' = local /\ server' = server
      BY <1>1, <1>4, <2>2
    <3>2. TableOf[r] = table(e) /\ Unpushed(e, r)
      BY <3>1 DEF table, Unpushed
    <3> QED
      BY <3>1, <3>2 DEF IInv, PushesAreComplete
  <2> QED
    BY <2>1, <2>2
<1> QED
  BY <1>3, <1>5, <1>6 DEF IInv

LEMMA ServerPushKeepsIInv ==
  ASSUME IInv, NEW d \in Devices, serverPush(d)
  PROVE  IInv'
<1>1. /\ sync[d].step = "pushing"
      /\ server' = [r \in Rows |-> IF server[r].updatedAt < sync[d].rows[r].updatedAt
                                   THEN sync[d].rows[r] ELSE server[r]]
      /\ sync' = [sync EXCEPT ![d].step = "pushed"]
      /\ UNCHANGED <<local, cursor, now, failures>>
  BY DEF serverPush
<1>2. TypeOK'
  BY <1>1 DEF IInv, TypeOK
<1>3. \A r \in Rows : /\ server[r].updatedAt \in Nat /\ server'[r].updatedAt \in Nat
                      /\ server'[r].updatedAt >= server[r].updatedAt
                      /\ server'[r].updatedAt >= sync[d].rows[r].updatedAt
  <2>1. ASSUME NEW r \in Rows
        PROVE  server[r].updatedAt \in Nat /\ sync[d].rows[r].updatedAt \in Nat
    BY SyncAssumption DEF IInv, TypeOK, Copies, Times
  <2> QED
    BY <1>1, <2>1
<1>4. /\ \A e \in Devices : e # d => sync'[e] = sync[e]
      /\ \A e \in Devices : /\ sync'[e].rows = sync[e].rows
                            /\ sync'[e].syncedAt = sync[e].syncedAt
                            /\ sync'[e].table = sync[e].table
      /\ sync'[d].step = "pushed"
  BY <1>1 DEF IInv, TypeOK
<1>5. \A e \in Devices, r \in Rows : Unpushed(e, r)' => Unpushed(e, r)
  <2> SUFFICES ASSUME NEW e \in Devices, NEW r \in Rows, Unpushed(e, r)'
               PROVE  Unpushed(e, r)
    OBVIOUS
  <2>1. local[e][r].updatedAt \in Nat
    BY SyncAssumption DEF IInv, TypeOK, Copies, Times
  <2> QED
    BY <1>1, <1>3, <2>1 DEF Unpushed
<1>6. TimePasses'
  BY <1>1, <1>4 DEF IInv, TimePasses
<1>7. AnswersAreOld'
  <2> SUFFICES ASSUME NEW e \in Devices, NEW r \in Rows, sync'[e].step = "pulled"
               PROVE  sync'[e].rows[r].updatedAt <= server'[r].updatedAt
    BY DEF AnswersAreOld
  <2>1. e # d
    BY <1>4
  <2>2. sync[e].rows[r].updatedAt <= server[r].updatedAt /\ sync[e].rows[r].updatedAt \in Nat
    BY <1>4, <2>1, SyncAssumption DEF IInv, TypeOK, AnswersAreOld, Copies, Times
  <2> QED
    BY <1>3, <1>4, <2>2
<1>8. UnpushedIsPending'
  BY <1>1, <1>5 DEF IInv, UnpushedIsPending, Unpushed
<1>9. PushesAreComplete'
  <2> SUFFICES ASSUME NEW e \in Devices, NEW r \in Rows, TableOf[r] = table(e), Unpushed(e, r)',
                      local[e][r].updatedAt <= sync[e].syncedAt
               PROVE  /\ sync'[e].step # "pushed"
                      /\ sync'[e].step = "pushing"
                           => sync[e].rows[r].updatedAt = local[e][r].updatedAt
    BY <1>1, <1>4 DEF PushesAreComplete, table
  <2>1. CASE e = d
    <3>1. sync[d].rows[r].updatedAt = local[d][r].updatedAt
      BY <1>1, <1>5, <2>1 DEF IInv, PushesAreComplete
    <3>2. local[d][r].updatedAt \in Nat
      BY SyncAssumption DEF IInv, TypeOK, Copies, Times
    <3> QED
      BY <1>1, <1>3, <2>1, <3>1, <3>2 DEF Unpushed
  <2>2. CASE e # d
    BY <1>4, <1>5, <2>2 DEF IInv, PushesAreComplete
  <2> QED
    BY <2>1, <2>2
<1> QED
  BY <1>2, <1>6, <1>7, <1>8, <1>9 DEF IInv

\* The cursor of the table moves to the beginning of the sync, and no request is on its way.
LEMMA NextTable ==
  ASSUME IInv, NEW d \in Devices, nextTable(d)
  PROVE  /\ cursor' \in [Devices -> [Tables -> Times]]
         /\ \A e \in Devices, t \in Tables :
              cursor'[e][t] = IF e = d /\ t = table(d) THEN sync[d].syncedAt ELSE cursor[e][t]
         /\ sync' \in [Devices -> [step : {"idle", "pulling", "pulled", "pushing", "pushed"},
                                   table : DOMAIN SYNC_TABLES, syncedAt : Times,
                                   rows : [Rows -> Copies]]]
         /\ \A e \in Devices : e # d => sync'[e] = sync[e]
         /\ sync'[d].step \in {"idle", "pulling"} /\ sync'[d].syncedAt \in {0, sync[d].syncedAt}
         /\ \A r \in Rows : sync'[d].rows[r] = NoCopy
<1>1. cursor' = [cursor EXCEPT ![d][table(d)] = sync[d].syncedAt]
  BY DEF nextTable
<1>2. table(d) \in Tables /\ sync[d].syncedAt \in Times
  BY TableTyped DEF IInv, TypeOK
<1>3. /\ cursor' \in [Devices -> [Tables -> Times]]
      /\ \A e \in Devices, t \in Tables :
           cursor'[e][t] = IF e = d /\ t = table(d) THEN sync[d].syncedAt ELSE cursor[e][t]
  BY <1>1, <1>2 DEF IInv, TypeOK
<1> DEFINE next == following(d)
<1>4. sync[d].table # Len(SYNC_TABLES) => sync[d].table + 1 \in DOMAIN SYNC_TABLES
  <2>1. DOMAIN SYNC_TABLES = 1..4 /\ Len(SYNC_TABLES) = 4
    BY DEF SYNC_TABLES
  <2>2. sync[d].table \in DOMAIN SYNC_TABLES
    BY DEF IInv, TypeOK
  <2> QED
    BY <2>1, <2>2
<1>5. /\ next \in [step : {"idle", "pulling", "pulled", "pushing", "pushed"},
                  table : DOMAIN SYNC_TABLES, syncedAt : Times, rows : [Rows -> Copies]]
      /\ next.step \in {"idle", "pulling"} /\ next.syncedAt \in {0, sync[d].syncedAt}
      /\ next.rows = Idle.rows
  <2>1. CASE sync[d].table = Len(SYNC_TABLES)
    BY <2>1, IdleTyped DEF following
  <2>2. CASE sync[d].table # Len(SYNC_TABLES)
    BY <1>2, <1>4, <2>2, IdleTyped DEF following
  <2> QED
    BY <2>1, <2>2
<1>6. sync' = [sync EXCEPT ![d] = next]
  BY DEF nextTable
<1> HIDE DEF next
<1>7. /\ sync' \in [Devices -> [step : {"idle", "pulling", "pulled", "pushing", "pushed"},
                                table : DOMAIN SYNC_TABLES, syncedAt : Times,
                                rows : [Rows -> Copies]]]
      /\ sync'[d] = next /\ \A e \in Devices : e # d => sync'[e] = sync[e]
  BY <1>5, <1>6 DEF IInv, TypeOK
<1>8. \A r \in Rows : Idle.rows[r] = NoCopy
  BY DEF Idle
<1> QED
  BY <1>3, <1>5, <1>7, <1>8

LEMMA NextTableIsInTime ==
  ASSUME IInv, NEW d \in Devices, nextTable(d), now' = now
  PROVE  TimePasses'
<1>1. 0 <= now
  BY SyncAssumption DEF IInv, TypeOK, Times
<1>2. sync[d].syncedAt <= now
  BY DEF IInv, TimePasses
<1>3. ASSUME NEW e \in Devices, NEW t \in Tables
      PROVE  cursor'[e][t] <= now
  BY <1>2, NextTable DEF IInv, TimePasses
<1>4. ASSUME NEW e \in Devices
      PROVE  sync'[e].syncedAt <= now
  <2>1. CASE e = d
    BY <1>1, <1>2, <2>1, NextTable
  <2>2. CASE e # d
    BY <2>2, NextTable DEF IInv, TimePasses
  <2> QED
    BY <2>1, <2>2
<1> QED
  BY <1>3, <1>4 DEF TimePasses

LEMMA PushedKeepsIInv ==
  ASSUME IInv, NEW d \in Devices, pushed(d)
  PROVE  IInv'
<1>1. /\ sync[d].step = "pushed" /\ nextTable(d)
      /\ UNCHANGED <<local, server, now, failures>>
  BY DEF pushed
<1>2. TypeOK'
  BY <1>1, NextTable DEF IInv, TypeOK
<1>3. TimePasses'
  BY <1>1, NextTableIsInTime
<1>4. AnswersAreOld' /\ PushesAreComplete'
  <2> SUFFICES ASSUME NEW e \in Devices, NEW r \in Rows
               PROVE  /\ sync'[e].step = "pulled"
                           => sync'[e].rows[r].updatedAt <= server'[r].updatedAt
                      /\ TableOf[r] = table(e)' /\ Unpushed(e, r)'
                         /\ local'[e][r].updatedAt <= sync'[e].syncedAt
                           => /\ sync'[e].step # "pushed"
                              /\ sync'[e].step = "pushing"
                                   => sync'[e].rows[r].updatedAt = local'[e][r].updatedAt
    BY DEF AnswersAreOld, PushesAreComplete
  <2>1. CASE e = d
    BY <1>1, <2>1, NextTable
  <2>2. CASE e # d
    <3>1. sync'[e] = sync[e] /\ local' = local /\ server' = server
      BY <1>1, <2>2, NextTable
    <3>2. table(e)' = table(e) /\ Unpushed(e, r)' = Unpushed(e, r)
      BY <3>1 DEF table, Unpushed
    <3> QED
      BY <3>1, <3>2 DEF IInv, AnswersAreOld, PushesAreComplete
  <2> QED
    BY <2>1, <2>2
<1>5. UnpushedIsPending'
  <2> SUFFICES ASSUME NEW e \in Devices, NEW r \in Rows, Unpushed(e, r)
               PROVE  local[e][r].updatedAt > cursor'[e][TableOf[r]]
    BY <1>1 DEF UnpushedIsPending, Unpushed
  <2>1. TableOf[r] \in Tables
    BY SyncAssumption DEF Tables
  <2>2. CASE e = d /\ TableOf[r] = table(d)
    <3>1. ~(local[d][r].updatedAt <= sync[d].syncedAt)
      BY <1>1, <2>2 DEF IInv, PushesAreComplete
    <3>2. local[d][r].updatedAt \in Nat /\ sync[d].syncedAt \in Nat
      BY SyncAssumption DEF IInv, TypeOK, Copies, Times
    <3> QED
      BY <1>1, <2>1, <2>2, <3>1, <3>2, NextTable
  <2>3. CASE ~(e = d /\ TableOf[r] = table(d))
    <3>1. cursor'[e][TableOf[r]] = cursor[e][TableOf[r]]
      BY <1>1, <2>1, <2>3, NextTable
    <3> QED
      BY <3>1 DEF IInv, UnpushedIsPending, Unpushed
  <2> QED
    BY <2>2, <2>3
<1> QED
  BY <1>2, <1>3, <1>4, <1>5 DEF IInv

\* Applying any part of an answer leaves no write of this device unpushed that was not before.
LEMMA ApplyingTouches ==
  ASSUME IInv, NEW d \in Devices, sync[d].step = "pulled", server' = server,
         \A e \in Devices : e # d => local'[e] = local[e],
         \A r \in Rows : local'[d][r] = sync[d].rows[r] \/ local'[d][r] = local[d][r]
  PROVE  \A e \in Devices, r \in Rows :
           Unpushed(e, r)' => Unpushed(e, r) /\ local'[e][r] = local[e][r]
<1> SUFFICES ASSUME NEW e \in Devices, NEW r \in Rows, Unpushed(e, r)'
             PROVE  Unpushed(e, r) /\ local'[e][r] = local[e][r]
  OBVIOUS
<1>1. CASE e # d
  BY <1>1 DEF Unpushed
<1>2. CASE e = d
  <2>1. local'[d][r].updatedAt > server[r].updatedAt
    BY <1>2 DEF Unpushed
  <2>2. sync[d].rows[r].updatedAt <= server[r].updatedAt
    BY DEF IInv, AnswersAreOld
  <2>3. sync[d].rows[r].updatedAt \in Nat /\ server[r].updatedAt \in Nat
    BY SyncAssumption DEF IInv, TypeOK, Copies, Times
  <2>4. local'[d][r] # sync[d].rows[r]
    BY <2>1, <2>2, <2>3
  <2> QED
    BY <1>2, <2>4 DEF Unpushed
<1> QED
  BY <1>1, <1>2

LEMMA ApplyPulledKeepsIInv ==
  ASSUME IInv, NEW d \in Devices, applyPulled(d)
  PROVE  IInv'
<1> DEFINE rows == [r \in Rows |-> IF Applied(d, r) THEN sync[d].rows[r] ELSE local[d][r]]
           push == Serialized(d, rows)
           sent == [r \in Rows |-> IF r \in push THEN rows[r] ELSE NoCopy]
<1>1. /\ sync[d].step = "pulled"
      /\ local' = [local EXCEPT ![d] = rows]
      /\ UNCHANGED <<server, now, failures>>
      /\ \/ push = {} /\ nextTable(d)
         \/ push # {} /\ cursor' = cursor /\ sync' = Request(d, "pushing", sent)
  BY DEF applyPulled
<1>2. /\ rows \in [Rows -> Copies]
      /\ \A r \in Rows : rows[r] = sync[d].rows[r] \/ rows[r] = local[d][r]
  BY DEF IInv, TypeOK
<1>3. \A r \in Rows : r \in push <=> /\ TableOf[r] = table(d) /\ rows[r].updatedAt > since(d)
                                    /\ rows[r].linked
  BY DEF Serialized, rowsChangedSince
<1>4. /\ sent \in [Rows -> Copies]
      /\ \A r \in push : sent[r] = rows[r]
  BY <1>2, NoCopyTyped DEF Serialized, rowsChangedSince
<1> HIDE DEF rows, push, sent
<1>5. /\ local' \in [Devices -> [Rows -> Copies]]
      /\ local'[d] = rows /\ \A e \in Devices : e # d => local'[e] = local[e]
  BY <1>1, <1>2 DEF IInv, TypeOK
<1>6. server' = server /\ now' = now /\ failures' = failures
  BY <1>1
<1>7. \A e \in Devices, r \in Rows :
        Unpushed(e, r)' => Unpushed(e, r) /\ local'[e][r] = local[e][r]
  BY <1>1, <1>2, <1>5, <1>6, ApplyingTouches
\* What this device has to push of this table is pushed.
<1>8. ASSUME NEW r \in Rows, TableOf[r] = table(d), Unpushed(d, r)'
      PROVE  r \in push
  <2>1. Unpushed(d, r) /\ local[d][r] = rows[r]
    BY <1>5, <1>7, <1>8
  <2> QED
    BY <1>3, <1>8, <2>1 DEF IInv, UnpushedIsPending, Unpushed, since
\* The tables of the other devices' requests, and what those leave pending, are as before.
<1>9. ASSUME \A e \in Devices : e # d => sync'[e] = sync[e],
             sync'[d].step \in {"idle", "pulling", "pushing"},
             sync'[d].step = "pushing" => table(d)' = table(d) /\ sync'[d].rows = sent
      PROVE  AnswersAreOld' /\ PushesAreComplete'
  <2> SUFFICES ASSUME NEW e \in Devices, NEW r \in Rows
               PROVE  /\ sync'[e].step = "pulled"
                           => sync'[e].rows[r].updatedAt <= server'[r].updatedAt
                      /\ TableOf[r] = table(e)' /\ Unpushed(e, r)'
                         /\ local'[e][r].updatedAt <= sync'[e].syncedAt
                           => /\ sync'[e].step # "pushed"
                              /\ sync'[e].step = "pushing"
                                   => sync'[e].rows[r].updatedAt = local'[e][r].updatedAt
    BY DEF AnswersAreOld, PushesAreComplete
  <2>1. CASE e = d
    BY <1>4, <1>5, <1>8, <1>9, <2>1
  <2>2. CASE e # d
    <3>1. sync'[e] = sync[e] /\ local'[e] = local[e] /\ server' = server
      BY <1>5, <1>6, <1>9, <2>2
    <3>2. table(e)' = table(e) /\ Unpushed(e, r)' = Unpushed(e, r)
      BY <3>1 DEF table, Unpushed
    <3> QED
      BY <3>1, <3>2 DEF IInv, AnswersAreOld, PushesAreComplete
  <2> QED
    BY <2>1, <2>2
<1>10. CASE push = {}
  <2>1. nextTable(d)
    BY <1>1, <1>10
  <2>2. TypeOK'
    BY <1>5, <1>6, <2>1, NextTable DEF IInv, TypeOK
  <2>3. TimePasses'
    BY <1>6, <2>1, NextTableIsInTime
  <2>4. AnswersAreOld' /\ PushesAreComplete'
    BY <1>9, <2>1, NextTable
  <2>5. UnpushedIsPending'
    <3> SUFFICES ASSUME NEW e \in Devices, NEW r \in Rows, Unpushed(e, r)'
                 PROVE  local'[e][r].updatedAt > cursor'[e][TableOf[r]]
      BY DEF UnpushedIsPending, Unpushed
    <3>1. ~(e = d /\ TableOf[r] = table(d))
      BY <1>8, <1>10
    <3>2. cursor'[e][TableOf[r]] = cursor[e][TableOf[r]]
      BY <2>1, <3>1, NextTable, SyncAssumption DEF Tables
    <3> QED
      BY <1>7, <3>2 DEF IInv, UnpushedIsPending, Unpushed
  <2> QED
    BY <2>2, <2>3, <2>4, <2>5 DEF IInv
<1>11. CASE push # {}
  <2>1. cursor' = cursor /\ sync' = [sync EXCEPT ![d].step = "pushing", ![d].rows = sent]
    BY <1>1, <1>11 DEF Request
  <2>2. /\ \A e \in Devices : e # d => sync'[e] = sync[e]
        /\ \A e \in Devices : sync'[e].syncedAt = sync[e].syncedAt
        /\ sync'[d].step = "pushing" /\ sync'[d].rows = sent /\ sync'[d].table = sync[d].table
    BY <2>1 DEF IInv, TypeOK
  <2>3. TypeOK'
    <3>1. sync' \in [Devices -> [step : {"idle", "pulling", "pulled", "pushing", "pushed"},
                                 table : DOMAIN SYNC_TABLES, syncedAt : Times,
                                 rows : [Rows -> Copies]]]
      BY ZenonT(60), <1>4, <2>1 DEF IInv, TypeOK
    <3> QED
      BY <1>5, <1>6, <2>1, <3>1 DEF IInv, TypeOK
  <2>4. TimePasses'
    BY <1>6, <2>1, <2>2 DEF IInv, TimePasses
  <2>5. AnswersAreOld' /\ PushesAreComplete'
    <3>1. table(d)' = table(d)
      BY <2>2 DEF table
    <3> QED
      BY <1>9, <2>2, <3>1
  <2>6. UnpushedIsPending'
    BY <1>7, <2>1 DEF IInv, UnpushedIsPending, Unpushed
  <2> QED
    BY <2>3, <2>4, <2>5, <2>6 DEF IInv
<1> QED
  BY <1>10, <1>11

\* A sync that ends in the middle moves no cursor: what it did not push stays pending.
LEMMA FailKeepsIInv ==
  ASSUME IInv, NEW d \in Devices, fail(d)
  PROVE  IInv'
<1>1. PICK done \in SUBSET {r \in Rows : sync[d].step = "pulled" /\ Applied(d, r)} :
        local' = [local EXCEPT ![d] = [r \in Rows |-> IF r \in done THEN sync[d].rows[r]
                                                                    ELSE local[d][r]]]
  BY DEF fail
<1> DEFINE rows == [r \in Rows |-> IF r \in done THEN sync[d].rows[r] ELSE local[d][r]]
<1>2. /\ sync' = [sync EXCEPT ![d] = Idle] /\ failures < MaxFailures
      /\ failures' = failures + 1
      /\ cursor' = cursor /\ now' = now
  BY DEF fail
<1>3. PICK sent \in SUBSET {r \in Rows : /\ sync[d].step = "pushing"
                                         /\ server[r].updatedAt < sync[d].rows[r].updatedAt} :
        server' = [r \in Rows |-> IF r \in sent THEN sync[d].rows[r] ELSE server[r]]
  BY DEF fail
<1>4. /\ server' \in [Rows -> Copies]
      /\ \A r \in Rows : /\ server[r].updatedAt \in Nat /\ server'[r].updatedAt \in Nat
                         /\ server'[r].updatedAt >= server[r].updatedAt
  <2>1. ASSUME NEW r \in Rows
        PROVE  /\ server[r] \in Copies /\ sync[d].rows[r] \in Copies
               /\ server[r].updatedAt \in Nat /\ sync[d].rows[r].updatedAt \in Nat
    BY SyncAssumption DEF IInv, TypeOK, Copies, Times
  <2> QED
    BY <1>3, <2>1
<1>5. sync[d].step = "pulled" => server' = server
  BY <1>3 DEF IInv, TypeOK
<1>6. /\ rows \in [Rows -> Copies]
      /\ \A r \in Rows : rows[r] = sync[d].rows[r] \/ rows[r] = local[d][r]
  BY DEF IInv, TypeOK
<1>7. /\ local' = [local EXCEPT ![d] = rows]
      /\ sync[d].step # "pulled" => \A r \in Rows : rows[r] = local[d][r]
  BY <1>1
<1> HIDE DEF rows
<1>8. /\ local' \in [Devices -> [Rows -> Copies]]
      /\ local'[d] = rows /\ \A e \in Devices : e # d => local'[e] = local[e]
  BY <1>6, <1>7 DEF IInv, TypeOK
<1>9. \A e \in Devices, r \in Rows :
        Unpushed(e, r)' => Unpushed(e, r) /\ local'[e][r] = local[e][r]
  <2>1. CASE sync[d].step = "pulled"
    BY <1>2, <1>6, <1>8, <1>5, <2>1, ApplyingTouches
  <2>2. CASE sync[d].step # "pulled"
    <3> SUFFICES ASSUME NEW e \in Devices, NEW r \in Rows, Unpushed(e, r)'
                 PROVE  Unpushed(e, r) /\ local'[e][r] = local[e][r]
      OBVIOUS
    <3>1. local'[e][r] = local[e][r]
      BY <1>7, <1>8, <2>2
    <3>2. local[e][r].updatedAt \in Nat
      BY SyncAssumption DEF IInv, TypeOK, Copies, Times
    <3> QED
      BY <1>4, <3>1, <3>2 DEF Unpushed
  <2> QED
    BY <2>1, <2>2
<1>10. TypeOK'
  <2>1. failures' \in 0..MaxFailures
    BY <1>2, SyncAssumption DEF IInv, TypeOK
  <2> QED
    BY <1>2, <1>8, <1>4, <2>1, IdleTyped DEF IInv, TypeOK
<1>11. /\ \A e \in Devices : e # d => sync'[e] = sync[e]
      /\ sync'[d].step = "idle" /\ sync'[d].syncedAt = 0
  BY <1>2, IdleTyped DEF IInv, TypeOK
<1>12. TimePasses'
  <2>1. 0 <= now
    BY SyncAssumption DEF IInv, TypeOK, Times
  <2>2. \A e \in Devices : sync'[e].syncedAt <= now
    BY <1>11, <2>1 DEF IInv, TimePasses
  <2> QED
    BY <1>2, <2>2 DEF IInv, TimePasses
<1>13. AnswersAreOld' /\ PushesAreComplete'
  <2> SUFFICES ASSUME NEW e \in Devices, NEW r \in Rows
               PROVE  /\ sync'[e].step = "pulled"
                           => sync'[e].rows[r].updatedAt <= server'[r].updatedAt
                      /\ TableOf[r] = table(e)' /\ Unpushed(e, r)'
                         /\ local'[e][r].updatedAt <= sync'[e].syncedAt
                           => /\ sync'[e].step # "pushed"
                              /\ sync'[e].step = "pushing"
                                   => sync'[e].rows[r].updatedAt = local'[e][r].updatedAt
    BY DEF AnswersAreOld, PushesAreComplete
  <2>1. CASE e = d
    BY <1>11, <2>1
  <2>2. CASE e # d
    <3>1. sync'[e] = sync[e] /\ local'[e] = local[e] /\ table(e)' = table(e)
      BY <1>8, <1>11, <2>2 DEF table
    <3>2. sync[e].step = "pulled" => /\ sync[e].rows[r].updatedAt <= server[r].updatedAt
                                     /\ sync[e].rows[r].updatedAt \in Nat
      BY SyncAssumption DEF IInv, TypeOK, AnswersAreOld, Copies, Times
    <3>3. sync'[e].step = "pulled" => sync'[e].rows[r].updatedAt <= server'[r].updatedAt
      BY <1>4, <3>1, <3>2
    <3>4. Unpushed(e, r)' => Unpushed(e, r)
      BY <1>9
    <3> QED
      BY <3>1, <3>3, <3>4 DEF IInv, PushesAreComplete
  <2> QED
    BY <2>1, <2>2
<1>14. UnpushedIsPending'
  BY <1>2, <1>9 DEF IInv, UnpushedIsPending, Unpushed
<1> QED
  BY <1>10, <1>12, <1>13, <1>14 DEF IInv

-----------------------------------------------------------------------------
(* The theorems.                                                           *)

\* What every device and the backend start with is the same, and dated before all writes.
LEMMA BeforeTyped ==
  /\ Before \in [Rows -> Copies]
  /\ \A r \in Rows : Before[r].updatedAt = 0
<1>1. \A r \in Rows : Before[r] = [NoCopy EXCEPT !.linked = r \in Synced]
  BY DEF Before
<1>2. \A linked \in BOOLEAN : /\ [NoCopy EXCEPT !.linked = linked] \in Copies
                             /\ [NoCopy EXCEPT !.linked = linked].updatedAt = 0
  BY NoCopyTyped DEF Copies
<1>3. \A r \in Rows : (r \in Synced) \in BOOLEAN
  OBVIOUS
<1>4. \A r \in Rows : Before[r] \in Copies /\ Before[r].updatedAt = 0
  BY <1>1, <1>2, <1>3
<1>5. Before \in [Rows -> Copies]
  BY <1>4 DEF Before
<1> QED
  BY <1>4, <1>5

LEMMA InitIInv == Init => IInv
<1> SUFFICES ASSUME Init
             PROVE  IInv
  OBVIOUS
<1>1. 0 \in Times /\ 0 \in Nat /\ 0 \in 0..MaxFailures
  BY SyncAssumption DEF Times
<1>2. local \in [Devices -> [Rows -> Copies]] /\ server \in [Rows -> Copies]
  BY BeforeTyped DEF Init
<1>3. sync \in [Devices -> [step : {"idle", "pulling", "pulled", "pushing", "pushed"},
                            table : DOMAIN SYNC_TABLES, syncedAt : Times,
                            rows : [Rows -> Copies]]]
  BY IdleTyped DEF Init
<1>4. TypeOK
  BY <1>1, <1>2, <1>3 DEF Init, TypeOK
<1>5. \A d \in Devices : sync[d].step = "idle" /\ sync[d].syncedAt = 0
  BY IdleTyped DEF Init
<1>6. TimePasses /\ AnswersAreOld
  BY <1>5 DEF Init, TimePasses, AnswersAreOld
<1>7. \A d \in Devices, r \in Rows : ~(local[d][r].updatedAt > server[r].updatedAt)
  BY BeforeTyped DEF Init
<1>8. PushesAreComplete /\ UnpushedIsPending
  BY <1>7 DEF PushesAreComplete, UnpushedIsPending, Unpushed
<1> QED
  BY <1>4, <1>6, <1>8 DEF IInv

LEMMA StutterKeepsIInv ==
  ASSUME IInv, UNCHANGED vars
  PROVE  IInv'
BY DEF vars, IInv, TypeOK, TimePasses, AnswersAreOld, PushesAreComplete, UnpushedIsPending,
       Unpushed, table

LEMMA NextKeepsIInv ==
  ASSUME IInv, Next
  PROVE  IInv'
<1>1. PICK d \in Devices :
        \/ runSync(d) \/ fail(d)
        \/ \E r \in Rows : create(d, r) \/ edit(d, r) \/ completeFlight(d, r)
                           \/ linkAircraftToFlight(d, r)
  BY DEF Next
<1>2. CASE startSync(d)
  BY <1>2, StartKeepsIInv
<1>3. CASE serverPull(d)
  BY <1>3, ServerPullKeepsIInv
<1>4. CASE applyPulled(d)
  BY <1>4, ApplyPulledKeepsIInv
<1>5. CASE serverPush(d)
  BY <1>5, ServerPushKeepsIInv
<1>6. CASE pushed(d)
  BY <1>6, PushedKeepsIInv
<1>7. CASE fail(d)
  BY <1>7, FailKeepsIInv
<1>8. CASE \E r \in Rows : create(d, r) \/ edit(d, r) \/ completeFlight(d, r)
                           \/ linkAircraftToFlight(d, r)
  <2>1. PICK change : now < MaxWrites /\ Touches(d, change) /\ write(d, change)
    BY <1>8, PilotWrites DEF IInv
  <2> QED
    BY <2>1, WriteKeepsIInv
<1> QED
  BY <1>1, <1>2, <1>3, <1>4, <1>5, <1>6, <1>7, <1>8 DEF runSync

\* Every reachable state satisfies the inductive invariant.
THEOREM InductiveInvariant == Spec => []IInv
<1>1. Init => IInv
  BY InitIInv
<1>2. IInv /\ [Next]_vars => IInv'
  BY NextKeepsIInv, StutterKeepsIInv
<1> QED
  BY <1>1, <1>2, PTL DEF Spec

\* The state is well typed, whatever the number of devices, rows and failures.
THEOREM TypeCorrect == Spec => []TypeOK
<1>1. IInv => TypeOK
  BY DEF IInv
<1> QED
  BY <1>1, InductiveInvariant, PTL

\* No write is forgotten: what the backend lacks is after the cursor of the device that has
\* it, so the next successful runSync() pushes it, however the syncs before it ended.
THEOREM UnpushedIsPendingAlways == Spec => []UnpushedIsPending
<1>1. IInv => UnpushedIsPending
  BY DEF IInv
<1> QED
  BY <1>1, InductiveInvariant, PTL

-----------------------------------------------------------------------------
(* Nothing newer is lost.                                                  *)

\* Every copy of every row was written by now.
Dated ==
  /\ \A d \in Devices, r \in Rows :
       local[d][r].updatedAt <= now /\ sync[d].rows[r].updatedAt <= now
  /\ \A r \in Rows : server[r].updatedAt <= now

\* What a step does to the dates of the copies.
DatesGrow ==
  /\ Dated'
  /\ \A d \in Devices, r \in Rows : local'[d][r].updatedAt >= local[d][r].updatedAt
  /\ \A r \in Rows : server'[r].updatedAt >= server[r].updatedAt

LEMMA DatesTyped ==
  ASSUME TypeOK
  PROVE  /\ now \in Nat
         /\ \A d \in Devices, r \in Rows :
              local[d][r].updatedAt \in Nat /\ sync[d].rows[r].updatedAt \in Nat
         /\ \A r \in Rows : server[r].updatedAt \in Nat
BY SyncAssumption DEF TypeOK, Copies, Times

\* A write is newer than everything; a request or an answer is a copy of what is there.
LEMMA WriteDates ==
  ASSUME TypeOK, Dated, NEW d \in Devices, NEW change, Touches(d, change), write(d, change)
  PROVE  DatesGrow
<1>1. /\ now' = now + 1 /\ sync' = sync /\ server' = server
      /\ \A e \in Devices : e # d => local'[e] = local[e]
      /\ \A r \in Rows : \/ local'[d][r].updatedAt = now + 1
                         \/ local'[d][r].updatedAt = local[d][r].updatedAt
  BY DEF write, Touches, TypeOK
<1>2. ASSUME NEW e \in Devices, NEW r \in Rows
      PROVE  local'[e][r].updatedAt \in {now + 1, local[e][r].updatedAt}
  BY <1>1
<1>3. now \in Nat /\ now <= now + 1
  BY DatesTyped
<1>4. ASSUME NEW e \in Devices, NEW r \in Rows
      PROVE  /\ local'[e][r].updatedAt <= now' /\ local'[e][r].updatedAt >= local[e][r].updatedAt
             /\ sync'[e].rows[r].updatedAt <= now'
  BY <1>1, <1>2, DatesTyped DEF Dated
<1>5. ASSUME NEW r \in Rows
      PROVE  server'[r].updatedAt <= now' /\ server'[r].updatedAt >= server[r].updatedAt
  BY <1>1, DatesTyped DEF Dated
<1> QED
  BY <1>4, <1>5 DEF DatesGrow, Dated

LEMMA SyncDates ==
  ASSUME IInv, Dated, NEW d \in Devices, runSync(d) \/ fail(d)
  PROVE  DatesGrow
<1>1. now' = now
  BY DEF runSync, startSync, serverPull, applyPulled, serverPush, pushed, fail
<1>2. TypeOK
  BY DEF IInv
<1>3. ASSUME NEW e \in Devices, NEW r \in Rows
      PROVE  \/ local'[e][r] = local[e][r]
             \/ /\ local'[e][r] = sync[e].rows[r]
                /\ local'[e][r].updatedAt >= local[e][r].updatedAt
  <2>1. CASE local' = local
    BY <2>1
  <2>2. CASE applyPulled(d) \/ fail(d)
    <3>1. \/ local'[e][r] = local[e][r]
          \/ e = d /\ Applied(d, r) /\ local'[d][r] = sync[d].rows[r]
      <4>1. CASE applyPulled(d)
        <5>1. local' = [local EXCEPT ![d] = [x \in Rows |-> IF Applied(d, x) THEN sync[d].rows[x]
                                                            ELSE local[d][x]]]
          BY <4>1 DEF applyPulled
        <5> QED
          BY <1>2, <5>1 DEF TypeOK
      <4>2. CASE fail(d)
        <5>1. PICK done \in SUBSET {x \in Rows : sync[d].step = "pulled" /\ Applied(d, x)} :
                local' = [local EXCEPT ![d] = [x \in Rows |-> IF x \in done THEN sync[d].rows[x]
                                                              ELSE local[d][x]]]
          BY <4>2 DEF fail
        <5> QED
          BY <1>2, <5>1 DEF TypeOK
      <4> QED
        BY <2>2, <4>1, <4>2
    <3>2. Applied(d, r) => local[d][r].updatedAt < sync[d].rows[r].updatedAt
      BY DEF Applied, shouldApplyPulledRow
    <3> QED
      BY <1>2, <3>1, <3>2, DatesTyped
  <2> QED
    BY <2>1, <2>2 DEF runSync, startSync, serverPull, serverPush, pushed
<1>4. ASSUME NEW e \in Devices, NEW r \in Rows
      PROVE  sync'[e].rows[r] \in {sync[e].rows[r], server[r], local'[e][r], NoCopy}
  <2>1. CASE startSync(d) \/ fail(d)
    <3> DEFINE started == [Idle EXCEPT !.step = "pulling", !.syncedAt = now]
    <3>1. Idle.rows[r] = NoCopy /\ started.rows = Idle.rows
      BY DEF Idle
    <3>2. sync' = [sync EXCEPT ![d] = started] \/ sync' = [sync EXCEPT ![d] = Idle]
      BY <2>1 DEF startSync, fail
    <3> HIDE DEF started
    <3> QED
      BY <1>2, <3>1, <3>2 DEF TypeOK
  <2>2. CASE serverPull(d)
    <3> DEFINE answer == [x \in Rows |-> IF TableOf[x] = table(d) /\ server[x].updatedAt > since(d)
                                         THEN server[x] ELSE NoCopy]
    <3>1. sync' = [sync EXCEPT ![d].step = "pulled", ![d].rows = answer]
      BY <2>2 DEF serverPull, Request
    <3>2. answer[r] \in {server[r], NoCopy}
      OBVIOUS
    <3> HIDE DEF answer
    <3> QED
      BY <1>2, <3>1, <3>2 DEF TypeOK
  <2>3. CASE applyPulled(d)
    <3>1. CASE nextTable(d)
      BY <3>1, NextTable
    <3>2. CASE ~nextTable(d)
      <4> DEFINE rows == [x \in Rows |-> IF Applied(d, x) THEN sync[d].rows[x] ELSE local[d][x]]
                 sent == [x \in Rows |-> IF x \in Serialized(d, rows) THEN rows[x] ELSE NoCopy]
      <4>1. /\ local' = [local EXCEPT ![d] = rows]
            /\ sync' = [sync EXCEPT ![d].step = "pushing", ![d].rows = sent]
        BY <2>3, <3>2 DEF applyPulled, Request
      <4>2. sent[r] \in {rows[r], NoCopy}
        OBVIOUS
      <4> HIDE DEF rows, sent
      <4>3. local'[d] = rows
        BY <1>2, <4>1 DEF TypeOK
      <4> QED
        BY <1>2, <4>1, <4>2, <4>3 DEF TypeOK
    <3> QED
      BY <3>1, <3>2
  <2>4. CASE serverPush(d)
    BY <1>2, <2>4 DEF serverPush, TypeOK
  <2>5. CASE pushed(d)
    BY <2>5, NextTable DEF pushed
  <2> QED
    BY <2>1, <2>2, <2>3, <2>4, <2>5 DEF runSync
<1>5. ASSUME NEW r \in Rows
      PROVE  \/ server'[r] = server[r]
             \/ server'[r] = sync[d].rows[r] /\ server[r].updatedAt < sync[d].rows[r].updatedAt
  <2>1. CASE fail(d)
    BY <2>1 DEF fail
  <2>2. CASE ~fail(d)
    BY <1>2, <2>2 DEF TypeOK, runSync, startSync, serverPull, applyPulled, serverPush, pushed
  <2> QED
    BY <2>1, <2>2
<1>6. ASSUME NEW e \in Devices, NEW r \in Rows
      PROVE  /\ local'[e][r].updatedAt <= now /\ local'[e][r].updatedAt >= local[e][r].updatedAt
  BY <1>2, <1>3, DatesTyped DEF Dated
<1>7. ASSUME NEW e \in Devices, NEW r \in Rows
      PROVE  sync'[e].rows[r].updatedAt <= now
  <2>1. NoCopy.updatedAt <= now
    BY <1>2, DatesTyped, NoCopyTyped
  <2> QED
    BY <1>4, <1>6, <2>1 DEF Dated
<1>8. ASSUME NEW r \in Rows
      PROVE  server'[r].updatedAt <= now /\ server'[r].updatedAt >= server[r].updatedAt
  BY <1>2, <1>5, DatesTyped DEF Dated
<1> QED
  BY <1>1, <1>6, <1>7, <1>8 DEF DatesGrow, Dated

LEMMA NextDates ==
  ASSUME IInv, Dated, Next
  PROVE  DatesGrow
<1>1. PICK d \in Devices :
        \/ runSync(d) \/ fail(d)
        \/ \E r \in Rows : create(d, r) \/ edit(d, r) \/ completeFlight(d, r)
                           \/ linkAircraftToFlight(d, r)
  BY DEF Next
<1>2. CASE runSync(d) \/ fail(d)
  BY <1>2, SyncDates
<1>3. CASE \E r \in Rows : create(d, r) \/ edit(d, r) \/ completeFlight(d, r)
                           \/ linkAircraftToFlight(d, r)
  <2>1. PICK change : now < MaxWrites /\ Touches(d, change) /\ write(d, change)
    BY <1>3, PilotWrites DEF IInv
  <2> QED
    BY <2>1, WriteDates DEF IInv
<1> QED
  BY <1>1, <1>2, <1>3

\* No step of any device or of the backend replaces a copy by an older one, however the
\* pulls, the pushes and their failures overlap with the pilot's writes.
THEOREM NothingNewerIsLostEver == Spec => NothingNewerIsLost
<1> DEFINE Kept == \A r \in Rows :
                     /\ \A d \in Devices : local'[d][r].updatedAt >= local[d][r].updatedAt
                     /\ server'[r].updatedAt >= server[r].updatedAt
<1>1. Init => Dated
  <2> SUFFICES ASSUME Init
               PROVE  Dated
    OBVIOUS
  <2>1. now = 0 /\ \A d \in Devices, r \in Rows : /\ local[d][r].updatedAt = 0
                                                 /\ sync[d].rows[r] = NoCopy
    BY BeforeTyped DEF Init, Idle
  <2>2. \A r \in Rows : server[r].updatedAt = 0
    BY BeforeTyped DEF Init
  <2> QED
    BY <2>1, <2>2, NoCopyTyped DEF Dated
<1>2. IInv /\ Dated /\ [Next]_vars => Dated' /\ [Kept]_vars
  <2>1. IInv /\ Dated /\ Next => Dated' /\ Kept
    BY NextDates DEF DatesGrow
  <2>2. Dated /\ UNCHANGED vars => Dated'
    BY DEF vars, Dated
  <2> HIDE DEF Kept
  <2> QED
    BY <2>1, <2>2
<1>3. [][Kept]_vars => NothingNewerIsLost
  BY DEF NothingNewerIsLost
<1> HIDE DEF Kept
<1> QED
  BY <1>1, <1>2, <1>3, InductiveInvariant, PTL DEF Spec
=============================================================================
